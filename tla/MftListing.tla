------------------------------- MODULE MftListing -------------------------------
(***************************************************************************)
(* The user program's list of the files in the root directory: it goes     *)
(* over the master file table of a partition (user_main), reads each       *)
(* record (ntfs_mft_record), takes the name and the data attribute from it *)
(* into blocks of its heap (ntfs_resolve_record) and gives them back       *)
(* (ntfs_file_destructor).  Any read may fail.                             *)
(***************************************************************************)
EXTENDS DataRuns, FiniteSets

CONSTANTS
  Tables,       \* places of the table: sequences of extents
  PerCluster,   \* records of a cluster: SCLU / 2
  Contents      \* what a record may have

VARIABLES
  table,        \* the extents of the table
  content,      \* what each of its records has
  index,        \* the record the program is at
  at,           \* what it does with it
  buffer,       \* the record in its buffer, or NoRecord
  file,         \* the blocks of the name and of the data
  heap,         \* blocks in use
  listed,       \* what it printed: <<index, record>>
  failed        \* the records whose read failed

vars == <<table, content, index, at, buffer, file, heap, listed, failed>>

NoBlock == <<>>
Count == RecordCount(table, PerCluster)

Initial ==
  /\ index = 1 /\ at = "read" /\ buffer = NoRecord
  /\ file = [name |-> NoBlock, data |-> NoBlock]
  /\ heap = {} /\ listed = <<>> /\ failed = {}

Init ==
  /\ table \in Tables
  /\ content \in [1 .. Count - 1 -> Contents]
  /\ Initial

(* A failed read leaves the buffer as it was, and nobody asks.              *)
ReadRecord ==
  /\ at = "read" /\ index < Count
  /\ \/ /\ buffer' = RecordRead(table, PerCluster, index)
        /\ UNCHANGED failed
     \/ failed' = failed \cup {index} /\ UNCHANGED buffer
  /\ at' = "resolve"
  /\ UNCHANGED <<table, content, index, file, heap, listed>>

(* The attributes of a record, one after the other: each name that is no    *)
(* DOS name, and each data attribute, gets a block, and the file keeps the  *)
(* last of each.                                                            *)
Block(kind, k) == <<index, kind, k>>
Blocks(kind, n) == {Block(kind, k) : k \in 1 .. n}
LastBlock(kind, n) == IF n = 0 THEN NoBlock ELSE Block(kind, n)

InUse(r) == r \in DOMAIN content /\ content[r].used

Resolve ==
  /\ at = "resolve" /\ InUse(buffer)
  /\ heap' = heap \cup Blocks("name", content[buffer].names) \cup Blocks("data", content[buffer].data)
  /\ file' = [name |-> LastBlock("name", content[buffer].names),
              data |-> LastBlock("data", content[buffer].data)]
  /\ at' = IF content[buffer].names > 0 /\ content[buffer].inRoot THEN "list" ELSE "free"
  /\ UNCHANGED <<table, content, index, buffer, listed, failed>>

Skip ==
  /\ at = "resolve" /\ ~InUse(buffer)
  /\ at' = "free"
  /\ UNCHANGED <<table, content, index, buffer, file, heap, listed, failed>>

List ==
  /\ at = "list"
  /\ listed' = Append(listed, <<index, buffer>>)
  /\ at' = "free"
  /\ UNCHANGED <<table, content, index, buffer, file, heap, failed>>

Destroy ==
  /\ at = "free"
  /\ heap' = heap \ {file.name, file.data}
  /\ file' = [name |-> NoBlock, data |-> NoBlock]
  /\ index' = index + 1
  /\ at' = "read"
  /\ UNCHANGED <<table, content, buffer, listed, failed>>

Next == ReadRecord \/ Resolve \/ Skip \/ List \/ Destroy

-----------------------------------------------------------------------------
ToBeListed(r) == content[r].used /\ content[r].names > 0 /\ content[r].inRoot

(* A file is listed for its own record, and each that is to be is, unless   *)
(* the read of the record failed: then the record before it may be listed   *)
(* once more (user.c:75), or unless the record is in a hole (a table has   *)
(* none).  The heap has no block but the file's, and those of the records   *)
(* with more than one name or data attribute (ntfs_file.c:26, 31).          *)
RecordsFound ==
  /\ \A k \in DOMAIN listed : listed[k][2] = listed[k][1] \/ listed[k][1] \in failed
  /\ \A r \in 1 .. index - 1 :
       ToBeListed(r) /\ r \notin failed => \E k \in DOMAIN listed : listed[k] = <<r, r>>
  /\ \A b \in heap \ {file.name, file.data} :
       \E r \in DOMAIN content :
         b[3] < IF b[2] = "name" THEN content[r].names ELSE content[r].data
=============================================================================
