------------------------------- MODULE Partitions -------------------------------
(***************************************************************************)
(* The registry of disks and their partitions: storage_insert puts a disk  *)
(* at the head of the list and walks through its partition table           *)
(* (setup_part_table, fs/part.c), reading it sector by sector into one     *)
(* page; for a partition with NTFS the boot sector is fetched through the  *)
(* DMA page of the disk on the way (ntfs_create).  The drivers insert the  *)
(* disks one after another; any read of a disk may fail.  There are pages  *)
(* enough (without one the kernel would panic on the way).                 *)
(***************************************************************************)
EXTENDS Integers, Sequences, FiniteSets

CONSTANTS
  Disks,        \* 1 .. n, in the order in which they are inserted
  PerSector,    \* entries of a partition table in a sector, 4
  Tables,       \* the partition tables a disk may have
  SystemId      \* of the partition that the system was started from

ASSUME PartitionAssumption ==
  /\ PerSector \in Nat \ {0} /\ IsFiniteSet(Disks) /\ Disks = 1 .. Cardinality(Disks)
  /\ Tables \subseteq Seq([type : STRING, id : STRING])

VARIABLES
  table,        \* the entries on each disk
  list,         \* STORAGE_DEVICE, the newest disk first
  part,         \* PART of each disk: entry and boot sector of each partition
  volume,       \* PARTITION[2], drive C: a disk and an index
  page,         \* what is in the page of the walk: the sector of a disk
  dma,          \* what is in the DMA page of each disk
  walk,         \* where the walk is
  counter,      \* COUNTER, the tables walked to the end
  lost          \* pages of walks that were not

walkVars == <<table, list, part, volume, page, dma, walk, counter, lost>>

-----------------------------------------------------------------------------
NoSector == <<0, 0>>
HalfRead == <<0, 1>>        \* half a sector, after a read that failed

Null(e) == e.type = "null"

(* The i-th entry of a table, counted from zero.                            *)
Entry(d, i) == table[d][i + 1]
Indices(d) == 0 .. Len(table[d]) - 1

(* What the walk sees as the entry: it is in the page.                      *)
Seen == Entry(page[1], page[2] * PerSector + (walk.index % PerSector))

WalkInit ==
  /\ table \in [Disks -> Tables]
  /\ list = <<>>
  /\ part = [d \in Disks |-> [i \in {} |-> 0]]
  /\ volume = NoSector
  /\ page = NoSector
  /\ dma = [d \in Disks |-> NoSector]
  /\ walk = [at |-> "idle", disk |-> 0, index |-> 0]
  /\ counter = 0
  /\ lost = 0

-----------------------------------------------------------------------------
Insert(d) ==
  /\ walk.at = "idle"
  /\ d = Len(list) + 1
  /\ list' = <<d>> \o list
  /\ walk' = [at |-> "header", disk |-> d, index |-> 0]
  /\ UNCHANGED <<table, part, volume, page, dma, counter, lost>>

(* The walk is given up, and its page with it.                              *)
GiveUp ==
  /\ walk' = [walk EXCEPT !.at = "idle"]
  /\ lost' = lost + 1

ReadHeader ==
  /\ walk.at = "header"
  /\ \/ walk' = [walk EXCEPT !.at = "entry"] /\ UNCHANGED lost
     \/ GiveUp
  /\ UNCHANGED <<table, list, part, volume, page, dma, counter>>

(* A walk that reads the first sector again and again ...                   *)
ReadFirstSector ==
  /\ walk.at = "entry" /\ walk.index \in Indices(walk.disk)
  /\ walk.index % PerSector = 0
  /\ \/ /\ page' = <<walk.disk, 0>>
        /\ walk' = [walk EXCEPT !.at = "look"]
        /\ UNCHANGED lost
     \/ GiveUp /\ UNCHANGED page
  /\ UNCHANGED <<table, list, part, volume, dma, counter>>

(* ... and the code's; plba counts the sectors.                             *)
ReadEntries ==
  /\ walk.at = "entry" /\ walk.index \in Indices(walk.disk)
  /\ walk.index % PerSector = 0
  /\ \/ /\ page' = <<walk.disk, walk.index \div PerSector>>
        /\ walk' = [walk EXCEPT !.at = "look"]
        /\ UNCHANGED lost
     \/ GiveUp /\ UNCHANGED page
  /\ UNCHANGED <<table, list, part, volume, dma, counter>>

SameSector ==
  /\ walk.at = "entry" /\ walk.index \in Indices(walk.disk)
  /\ walk.index % PerSector # 0
  /\ walk' = [walk EXCEPT !.at = "look"]
  /\ UNCHANGED <<table, list, part, volume, page, dma, counter, lost>>

NextEntry == walk' = [walk EXCEPT !.at = "entry", !.index = @ + 1]

SkipEntry ==
  /\ walk.at = "look"
  /\ Null(Seen)
  /\ NextEntry
  /\ UNCHANGED <<table, list, part, volume, page, dma, counter, lost>>

WithPart(i, value) ==
  [part EXCEPT ![walk.disk] = [j \in DOMAIN @ \cup {i} |-> IF j = i THEN value ELSE @[j]]]

AddPartition ==
  /\ walk.at = "look"
  /\ ~Null(Seen)
  /\ part' = WithPart(walk.index, [entry |-> Seen, boot |-> NoSector])
  /\ walk' = [walk EXCEPT !.at = IF Seen.type = "ntfs" THEN "boot" ELSE "compare"]
  /\ UNCHANGED <<table, list, volume, page, dma, counter, lost>>

(* The boot sector of the partition, from the DMA page, which is zeroed     *)
(* before; nobody asks whether the read failed.                             *)
Boot == <<walk.disk, walk.index + 2>>
Zero == NoSector

CreateVolume(before) ==
  /\ walk.at = "boot"
  /\ \E read \in {Boot, before, HalfRead} :
       /\ dma' = [dma EXCEPT ![walk.disk] = read]
       /\ part' = [part EXCEPT ![walk.disk][walk.index].boot = read]
  /\ walk' = [walk EXCEPT !.at = "compare"]
  /\ UNCHANGED <<table, list, volume, page, counter, lost>>

(* The page of the new volume is zeroed.                                    *)
NtfsCreate == CreateVolume(Zero)

CompareSystem ==
  /\ walk.at = "compare"
  /\ volume' = IF Seen.id = SystemId THEN <<walk.disk, walk.index>> ELSE volume
  /\ NextEntry
  /\ UNCHANGED <<table, list, part, page, dma, counter, lost>>

EndWalk ==
  /\ walk.at = "entry" /\ walk.index \notin Indices(walk.disk)
  /\ counter' = counter + 1
  /\ walk' = [walk EXCEPT !.at = "idle"]
  /\ UNCHANGED <<table, list, part, volume, page, dma, lost>>

-----------------------------------------------------------------------------
WalkNext ==
  \/ \E d \in Disks : Insert(d)
  \/ ReadHeader \/ ReadEntries \/ SameSector
  \/ SkipEntry \/ AddPartition \/ NtfsCreate \/ CompareSystem \/ EndWalk

WalkSpec == WalkInit /\ [][WalkNext]_walkVars

-----------------------------------------------------------------------------
(* Behind the walk, every entry of the table that is in use has its         *)
(* partition, at its index and with its own data, and no other index has    *)
(* one; drive C is the partition with the system's identifier, if one was   *)
(* met.  A walk that a failed read ended keeps what it met, loses its page, *)
(* and is not counted.                                                      *)
PartitionsMatch ==
  /\ \A d \in Disks : \A i \in DOMAIN part[d] :
       i \in Indices(d) /\ ~Null(Entry(d, i)) /\ part[d][i].entry = Entry(d, i)
  /\ walk.at = "idle" /\ lost = 0 =>
       \A d \in {list[k] : k \in DOMAIN list} : \A i \in Indices(d) :
         Null(Entry(d, i)) \/ i \in DOMAIN part[d]
  /\ volume # NoSector => volume[2] \in DOMAIN part[volume[1]]
                      /\ Entry(volume[1], volume[2]).id = SystemId
  /\ (\E d \in Disks : \E i \in DOMAIN part[d] :
        part[d][i].entry.id = SystemId /\ ~(walk.disk = d /\ walk.index = i))
     => volume # NoSector
  /\ counter + lost + (IF walk.at = "idle" THEN 0 ELSE 1) = Len(list)

(* The boot sector kept for a partition is its own, or none, or the remains *)
(* of a read that failed: never that of another partition, although all of  *)
(* them come through one page of the disk.                                  *)
BootIsOwn ==
  \A d \in Disks : \A i \in DOMAIN part[d] :
    part[d][i].boot \in {Zero, HalfRead, <<d, i + 2>>}

(* The registry has the partitions of the tables that were read, each with  *)
(* its own boot sector and no other's (part.c:11, ntfs.c:7).                *)
PartitionsOwn == PartitionsMatch /\ BootIsOwn
=============================================================================
