------------------------------- MODULE CoreLoader -------------------------------
(***************************************************************************)
(* How the EFI program finds the kernel (DetectingDisk): on each disk it   *)
(* looks for a partition table and a partition with the identifiers it was *)
(* built with, goes over the master file table of the partition, and       *)
(* follows each record up to the root by its parents' names; the file      *)
(* Supernova/SYSTEM/CORE.DLL is copied cluster by cluster to address 0.    *)
(***************************************************************************)
EXTENDS DataRuns, FiniteSets

CONSTANTS
  Machines,     \* what disks a machine may have: sequences of disks
  Begins        \* pairs of different names, the second beginning with the first

VARIABLES
  disks,        \* the disks
  disk,         \* the disk the program is at
  step,         \* what it does there: disk, partition, search or load
  entry,        \* the entry of the partition table
  record,       \* the record looked at, then the one taken for the kernel's
  loaded,       \* clusters of it copied
  memory,       \* the clusters at address 0, each <<disk, cluster>>
  found         \* whether the kernel was loaded

vars == <<disks, disk, step, entry, record, loaded, memory, found>>

Root == 5
Path == <<"Supernova", "SYSTEM", "CORE.DLL">>
Nothing == [name |-> "none", parent |-> 0, extents |-> <<>>]

Here == disks[disk]
Records == Here.records

Initial ==
  /\ disk = 1 /\ step = "disk" /\ entry = 1
  /\ record = 0 /\ loaded = 0 /\ memory = <<>> /\ found = FALSE

Init == disks \in Machines /\ Initial

GiveUpDisk ==
  /\ disk' = disk + 1 /\ step' = "disk"
  /\ UNCHANGED <<disks, entry, record, loaded, memory, found>>

(* A disk is left out when neither half of its identifier is that of the    *)
(* program's own disk (GUID0 with &&, main.c:292).                          *)
LookAtDisk ==
  /\ step = "disk" /\ disk <= Len(disks) /\ ~found
  /\ IF Here.gpt /\ Here.halves > 0
     THEN step' = "partition" /\ entry' = 1 /\ UNCHANGED <<disks, disk, record, loaded, memory, found>>
     ELSE GiveUpDisk

(* An empty entry ends the table, which here has one within its sector.     *)
FindPartition ==
  /\ step = "partition"
  /\ \/ /\ Here.parts[entry] = "other"
        /\ entry' = entry + 1
        /\ UNCHANGED <<disks, disk, step, record, loaded, memory, found>>
     \/ /\ Here.parts[entry] = "ours"
        /\ step' = "search" /\ record' = 0
        /\ UNCHANGED <<disks, disk, entry, loaded, memory, found>>
     \/ Here.parts[entry] = "empty" /\ GiveUpDisk

-----------------------------------------------------------------------------
(* Names are compared over the length of the record's own: one that the     *)
(* wanted name begins with is taken, too (main.c:355).                      *)
Matches(name, wanted) == name = wanted \/ <<name, wanted>> \in Begins

(* A record and its parents, read from the table one after the other: what  *)
(* is there is the record, or nothing that is one.  Whether a record is in  *)
(* use is not asked.                                                        *)
At(r) == LET at == RecordRead(Here.table, Here.perCluster, r)
         IN IF at \in DOMAIN Records THEN Records[at] ELSE Nothing

Climbs(r) ==
  LET parent == At(r).parent
      above  == At(parent).parent
  IN /\ r # Root
     /\ Matches(At(r).name, Path[3])
     /\ Matches(At(parent).name, Path[2])
     /\ Matches(At(above).name, Path[1])
     /\ At(above).parent = Root

Search ==
  /\ step = "search"
  /\ IF record >= RecordCount(Here.table, Here.perCluster) THEN GiveUpDisk
     ELSE /\ IF Climbs(record) THEN step' = "load" /\ loaded' = 0 /\ UNCHANGED record
             ELSE record' = record + 1 /\ UNCHANGED <<step, loaded>>
          /\ UNCHANGED <<disks, disk, entry, memory, found>>

(* Cluster after cluster to the next place from address 0, over what is     *)
(* there; cluster 0 ends the attempt on this disk.                          *)
Load ==
  /\ step = "load"
  /\ LET file == At(record).extents
         lcn  == ConvertLcn(RunsOf(file), loaded)
     IN \/ /\ loaded = Length(file)
           /\ found' = TRUE /\ step' = "disk"
           /\ UNCHANGED <<disks, disk, entry, record, loaded, memory>>
        \/ /\ loaded < Length(file) /\ lcn = 0 /\ GiveUpDisk
        \/ /\ loaded < Length(file) /\ lcn # 0
           /\ memory' = SubSeq(memory, 1, loaded) \o <<<<disk, lcn>>>>
                          \o SubSeq(memory, loaded + 2, Len(memory))
           /\ loaded' = loaded + 1
           /\ UNCHANGED <<disks, disk, step, entry, record, found>>

Next == LookAtDisk \/ FindPartition \/ Search \/ Load

-----------------------------------------------------------------------------
(* A file of the very path, without holes, on the partition of the program. *)
Follows(d, r) ==
  LET records == disks[d].records
      parent  == records[r].parent
  IN /\ records[r].name = Path[3] /\ records[r].extents # <<>>
     /\ \A k \in DOMAIN records[r].extents : records[r].extents[k].at # Hole
     /\ parent \in DOMAIN records /\ records[parent].name = Path[2]
     /\ LET above == records[parent].parent IN
          above \in DOMAIN records /\ records[above].name = Path[1] /\ records[above].parent = Root

OnPartition(d) ==
  /\ disks[d].gpt /\ disks[d].halves = 2
  /\ \E k \in DOMAIN disks[d].parts :
       disks[d].parts[k] = "ours" /\ \A n \in 1 .. k - 1 : disks[d].parts[n] # "empty"

(* Memory has, from address 0, the clusters of one file in their order, all *)
(* of one disk whatever an attempt on another left, and the file goes by    *)
(* its path or by what the names of the path begin with (main.c:355); a     *)
(* disk that has the very file is not gone past.                            *)
CoreLoaded ==
  /\ found =>
       \E r \in DOMAIN Records :
         /\ Matches(Records[r].name, Path[3])
         /\ Len(memory) >= Length(Records[r].extents)
         /\ \A vcn \in 0 .. Length(Records[r].extents) - 1 :
              LET cluster == ClusterOf(Records[r].extents, vcn)
              IN cluster # Hole => memory[vcn + 1] = <<disk, cluster>>
  /\ \A d \in 1 .. disk - 1 : OnPartition(d) =>
       \A r \in DOMAIN disks[d].records :
         Follows(d, r) => \E q \in DOMAIN disks[d].records :
           q < r /\ Matches(disks[d].records[q].name, Path[3])
=============================================================================
