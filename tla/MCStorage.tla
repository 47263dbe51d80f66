------------------------------- MODULE MCStorage -------------------------------
(***************************************************************************)
(* Disks and what is on them.  A behaviour is one of UsbBulkRead,          *)
(* AhciRead, NvmeQueues, Partitions, MftListing or CoreLoader, as kind     *)
(* says; the variables of the others stay as they began.                   *)
(*                                                                         *)
(* Pages have two sectors, a SATA command moves at most four, and requests *)
(* are of one to five sectors, so that a read is one piece, several, and a *)
(* part of one at its end.  NVM Express queues have three and four entries *)
(* and five ids, so that no two come round together.  There are two disks  *)
(* with tables of up to five entries, two to a sector.  A byte has four    *)
(* values, so that runs go back and forth by one byte and by two; master   *)
(* file tables have two extents, the second before the first.  The loader  *)
(* has two disks, with files that go by the path of the kernel, by a part  *)
(* of it or are elsewhere, and that have holes at either end.              *)
(***************************************************************************)
EXTENDS UsbBulkRead, AhciRead, NvmeQueues, Partitions

CONSTANTS Byte, PerCluster, Places, Contents, Machines, Begins

VARIABLES kind,
          extents, content, index, at, record, file, heap, listed, failed,
          disks, disk, step, entry, candidate, loaded, core, found

listVars   == <<extents, content, index, at, record, file, heap, listed, failed>>
loaderVars == <<disks, disk, step, entry, candidate, loaded, core, found>>

R == INSTANCE MftListing WITH Tables <- Places, table <- extents, buffer <- record

L == INSTANCE CoreLoader WITH record <- candidate, memory <- core

-----------------------------------------------------------------------------
E(type, id) == [type |-> type, id |-> id]

MCTables ==
  { <<>>,
    << E("ntfs", "system"), E("null", "none"), E("ntfs", "p") >>,
    << E("null", "none"), E("fat", "system") >>,
    << E("ntfs", "p"), E("ntfs", "q"), E("other", "r"), E("null", "none"), E("ntfs", "s") >> }

Extent(cluster, count) == [at |-> cluster, count |-> count]
Hole == Extent(-1, 1)

MCPlaces == {<<Extent(3, 2)>>, <<Extent(9, 1), Extent(3, 1)>>}

Has(used, names, data, inRoot) ==
  [used |-> used, names |-> names, data |-> data, inRoot |-> inRoot]

MCContents == {Has(FALSE, 1, 1, TRUE), Has(TRUE, 0, 1, TRUE), Has(TRUE, 1, 1, TRUE), Has(TRUE, 2, 2, FALSE)}

MCBegins == {<<"CORE", "CORE.DLL">>}

Record(name, parent, where) == [name |-> name, parent |-> parent, extents |-> where]
Folder(name, parent) == Record(name, parent, <<>>)
Nothing == Folder("none", 0)

MCFiles == {<<Extent(6, 1), Extent(8, 2), Extent(7, 1)>>, <<Extent(5, 1), Hole>>, <<Hole, Extent(9, 2)>>}

Volume(first, second) ==
  << first, second, Folder("Supernova", 5), Nothing, Folder("none", 5), Folder("SYSTEM", 3) >>

Disk(halves, parts, volume_) ==
  [gpt |-> TRUE, halves |-> halves, parts |-> parts, records |-> volume_,
   table |-> <<Extent(3, 2), Extent(1, 2)>>, perCluster |-> 2]

MCMachines ==
  {<< Disk(h, p, Volume(Record(f[1], 6, f[2]), Record("CORE.DLL", f[3], f[4]))),
      Disk(2, <<"ours">>, Volume(Nothing, Record("CORE.DLL", 6, g))) >> :
     h \in 0 .. 2, p \in {<<"other", "ours", "empty">>, <<"other", "empty", "ours">>},
     f \in {"CORE", "CORE.DLL", "x"} \X MCFiles \X {6, 3} \X MCFiles, g \in MCFiles}

-----------------------------------------------------------------------------
MCInit ==
  /\ kind \in {"usb", "sata", "queues", "partitions", "listing", "loader"}
  /\ Init /\ AtaInit /\ QInit /\ WalkInit
  /\ kind # "partitions" => \A d \in Disks : table[d] = <<>>
  /\ IF kind = "listing" THEN R!Init ELSE extents = <<>> /\ content = <<>> /\ R!Initial
  /\ IF kind = "loader" THEN L!Init ELSE disks = <<>> /\ L!Initial

Others == <<queueVars, walkVars, listVars, loaderVars>>

MCNext ==
  \/ kind = "usb" /\ Next /\ UNCHANGED <<kind, ataVars, Others>>
  \/ kind = "sata" /\ AtaNext /\ UNCHANGED <<kind, vars, Others>>
  \/ kind = "queues" /\ QNext /\ UNCHANGED <<kind, vars, ataVars, walkVars, listVars, loaderVars>>
  \/ kind = "partitions" /\ WalkNext /\ UNCHANGED <<kind, vars, ataVars, queueVars, listVars, loaderVars>>
  \/ kind = "listing" /\ R!Next /\ UNCHANGED <<kind, vars, ataVars, queueVars, walkVars, loaderVars>>
  \/ kind = "loader" /\ L!Next /\ UNCHANGED <<kind, vars, ataVars, queueVars, walkVars, listVars>>

(* Both sides of the queues go on, the driver as its callers do.            *)
MCSpec ==
  MCInit /\ [][MCNext]_<<kind, vars, ataVars, Others>> /\ WF_queueVars(kind = "queues" /\ QNext)

(* The pair of queues is a queue of one command, answered by its own id,    *)
(* and what is asked of an NVM Express controller is answered: both sides   *)
(* go on at the end of every round, however the two lengths fall together.  *)
QueuesServe == ImplementsFifo /\ (asked # 0 ~> asked = 0)

(* Who follows the runs of a file gets its clusters and no others: the list *)
(* of the root directory has each file once, for its own record (user.c:73  *)
(* to 95), and the kernel is whole in memory (main.c:337 to 397).           *)
ClustersFound == R!RecordsFound /\ L!CoreLoaded
=============================================================================
