-------------------------------- MODULE DataRuns --------------------------------
(***************************************************************************)
(* Where a file of an NTFS partition is: the runs of its data attribute,   *)
(* and the search of a cluster in them, which loader and kernel have       *)
(* alike.  A file is a sequence of extents; an extent has the place of its *)
(* first cluster on the partition, or is a hole.  Its run has the length,  *)
(* the number of bytes of the offset from the extent before, and those     *)
(* bytes as a number; a hole has no byte.                                  *)
(***************************************************************************)
EXTENDS Integers, Sequences

CONSTANT Byte           \* number of values of a byte
Hole == -1

(* The run of an extent after the one at "before", as NTFS writes it.       *)
Bytes(offset) == CHOOSE b \in 1 .. 4 : /\ -(Byte ^ b) <= 2 * offset /\ 2 * offset < Byte ^ b
                                       /\ b = 1 \/ ~(-(Byte ^ (b - 1)) <= 2 * offset /\ 2 * offset < Byte ^ (b - 1))
RunOf(extent, before) ==
  IF extent.at = Hole THEN [count |-> extent.count, bytes |-> 0, raw |-> 0]
  ELSE [count |-> extent.count, bytes |-> Bytes(extent.at - before),
        raw |-> (extent.at - before) % (Byte ^ Bytes(extent.at - before))]

Before(extents, k) ==
  LET solid == {n \in 1 .. k - 1 : extents[n].at # Hole}
  IN IF solid = {} THEN 0 ELSE extents[CHOOSE n \in solid : \A m \in solid : m <= n].at

RunsOf(extents) == [k \in DOMAIN extents |-> RunOf(extents[k], Before(extents, k))]

(* The clusters of a file, in order.                                        *)
ClusterOf(extents, vcn) ==
  LET start[k \in 1 .. Len(extents)] == IF k = 1 THEN 0 ELSE start[k - 1] + extents[k - 1].count
      here == {k \in DOMAIN extents : start[k] <= vcn /\ vcn < start[k] + extents[k].count}
  IN IF here = {} THEN 0
     ELSE LET k == CHOOSE k \in here : TRUE
          IN IF extents[k].at = Hole THEN Hole ELSE extents[k].at + vcn - start[k]

Length(extents) ==
  LET len[k \in 0 .. Len(extents)] == IF k = 0 THEN 0 ELSE len[k - 1] + extents[k].count
  IN len[Len(extents)]

-----------------------------------------------------------------------------
(* The offset of a run, read without regard to its sign ...                 *)
OffsetUnsigned(run) == run.raw

(* ... and with the sign of its last byte, as the code reads it.            *)
Offset(run) == IF run.bytes > 0 /\ 2 * run.raw >= Byte ^ run.bytes
               THEN run.raw - Byte ^ run.bytes ELSE run.raw

(* ntfs_convert_lcn: run after run, to that which has the cluster; 0 if     *)
(* none has.  A hole is taken for a run at the place of the one before.     *)
ConvertLcn(runs, vcn) ==
  LET walk[k \in 0 .. Len(runs)] ==
        IF k = 0 THEN [lcn |-> 0, vcn |-> vcn, found |-> FALSE]
        ELSE IF walk[k - 1].found THEN walk[k - 1]
        ELSE LET lcn == walk[k - 1].lcn + Offset(runs[k]) IN
             IF walk[k - 1].vcn < runs[k].count
             THEN [lcn |-> lcn + walk[k - 1].vcn, vcn |-> 0, found |-> TRUE]
             ELSE [lcn |-> lcn, vcn |-> walk[k - 1].vcn - runs[k].count, found |-> FALSE]
  IN IF walk[Len(runs)].found THEN walk[Len(runs)].lcn ELSE 0

-----------------------------------------------------------------------------
(* A master file table is a file like any other, of so many records to a    *)
(* cluster, perCluster = SCLU / 2.  What a read of one finds: the record at *)
(* the place converted, by its number, or NoRecord where the table is not.  *)
RecordCount(table, perCluster) == perCluster * Length(table)
NoRecord == -1

RecordRead(table, perCluster, r) ==
  LET cluster == ConvertLcn(RunsOf(table), r \div perCluster)
      here == {n \in 0 .. RecordCount(table, perCluster) - 1 :
                 ClusterOf(table, n \div perCluster) = cluster /\ n % perCluster = r % perCluster}
  IN IF here = {} THEN NoRecord ELSE CHOOSE n \in here : TRUE
=============================================================================
