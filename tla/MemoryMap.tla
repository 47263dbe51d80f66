------------------------------- MODULE MemoryMap -------------------------------
(***************************************************************************)
(* The way of the firmware's memory map to the kernel's allocator.  The    *)
(* loader takes the map, sorts it in place (SortMemoryMap), merges         *)
(* neighbours of one type (CompactMemoryMap), and turns the types into     *)
(* those of the kernel, merging again (EFIMainCRTStartup); the kernel goes *)
(* over the regions and gives some to its allocator (setup_memory).  The   *)
(* loader also takes the kernel's first stack from the end of region 0.    *)
(* Addresses count pages.                                                  *)
(***************************************************************************)
EXTENDS Integers, Sequences, FiniteSets

CONSTANTS
  Maps,         \* the maps a firmware may report, in any order
  Low,          \* 64 KB: what is below is taken for free
  Meg           \* 1 MB: what starts below is kept from the allocator

(* A firmware's map has entries, none of them empty, and no page twice.     *)
ASSUME MapsAssumption ==
  /\ Low \in Nat \ {0} /\ Meg \in Nat /\ Low <= Meg
  /\ \A m \in Maps :
       /\ m # <<>> /\ m \in Seq([base : Nat, size : Nat \ {0}, type : STRING])
       /\ \A k, n \in DOMAIN m :
            k # n => m[k].base + m[k].size <= m[n].base \/ m[n].base + m[n].size <= m[k].base

VARIABLES
  firmware,     \* the map as it was reported
  loaderMap,    \* the loader's copy
  stage,        \* what the loader or the kernel is doing
  cursor,       \* the entry it works on, and in CompactMemoryMap where it
  merged,       \* merges to
  kernelMap,    \* the kernel's map
  given         \* what the allocator was given: sequence of regions

mapVars == <<firmware, loaderMap, stage, cursor, merged, kernelMap, given>>

Free == 1
TypeOf(efi) == CASE efi = "reserved" -> 2
                 [] efi = "acpi" -> 3
                 [] OTHER -> Free

End(r) == r.base + r.size
PagesOf(r) == r.base .. End(r) - 1

MapInit ==
  /\ firmware \in Maps /\ loaderMap = firmware
  /\ stage = "sort" /\ cursor = 1 /\ merged = 1
  /\ kernelMap = <<>> /\ given = <<>>

GoOn(place) == stage' = place /\ cursor' = 1 /\ merged' = 1

(* One turn of the sort: the lowest of the rest, of equals the first,       *)
(* changes places with the entry at the cursor.                             *)
LowestFrom(k) ==
  CHOOSE m \in k .. Len(loaderMap) : \A n \in k .. Len(loaderMap) :
    \/ loaderMap[m].base < loaderMap[n].base
    \/ loaderMap[m].base = loaderMap[n].base /\ m <= n

SortMemoryMap ==
  /\ stage = "sort"
  /\ IF cursor > Len(loaderMap)
     THEN GoOn("compact") /\ UNCHANGED loaderMap
     ELSE /\ loaderMap' = [loaderMap EXCEPT ![cursor] = loaderMap[LowestFrom(cursor)],
                                            ![LowestFrom(cursor)] = loaderMap[cursor]]
          /\ cursor' = cursor + 1
          /\ UNCHANGED <<stage, merged>>
  /\ UNCHANGED <<firmware, kernelMap, given>>

(* The entry behind the cursor is merged with the one at "merged", or       *)
(* becomes the next.                                                        *)
CompactMemoryMap ==
  /\ stage = "compact"
  /\ IF cursor >= Len(loaderMap)
     THEN GoOn("convert") /\ loaderMap' = SubSeq(loaderMap, 1, merged)
     ELSE /\ cursor' = cursor + 1
          /\ LET e == loaderMap[cursor + 1] IN
             IF e.type = loaderMap[merged].type /\ End(loaderMap[merged]) = e.base
             THEN loaderMap' = [loaderMap EXCEPT ![merged].size = @ + e.size] /\ UNCHANGED merged
             ELSE loaderMap' = [loaderMap EXCEPT ![merged + 1] = e] /\ merged' = merged + 1
          /\ UNCHANGED stage
  /\ UNCHANGED <<firmware, kernelMap, given>>

(* An entry as a region.  The first entry's base is not taken over: region  *)
(* 0 starts at 0, whatever the firmware says.                               *)
Region(e) == [base |-> e.base, size |-> e.size,
              type |-> IF e.base < Low THEN Free ELSE TypeOf(e.type)]

(* A loader that merges regions of one type with a gap in between ...       *)
ConvertOverGap ==
  /\ stage = "convert" /\ cursor <= Len(loaderMap)
  /\ kernelMap' = IF kernelMap = <<>>
                THEN <<[Region(loaderMap[1]) EXCEPT !.base = 0]>>
                ELSE LET r == Region(loaderMap[cursor]) n == Len(kernelMap) IN
                     IF kernelMap[n].type = r.type
                     THEN [kernelMap EXCEPT ![n].size = End(r) - kernelMap[n].base]
                     ELSE Append(kernelMap, r)
  /\ cursor' = cursor + 1
  /\ UNCHANGED <<firmware, loaderMap, stage, merged, given>>

(* ... and the code's.                                                      *)
Convert ==
  /\ stage = "convert" /\ cursor <= Len(loaderMap)
  /\ kernelMap' = IF kernelMap = <<>>
                THEN <<[Region(loaderMap[1]) EXCEPT !.base = 0]>>
                ELSE LET r == Region(loaderMap[cursor]) n == Len(kernelMap) IN
                     IF kernelMap[n].type = r.type /\ End(kernelMap[n]) = r.base
                     THEN [kernelMap EXCEPT ![n].size = @ + r.size]
                     ELSE Append(kernelMap, r)
  /\ cursor' = cursor + 1
  /\ UNCHANGED <<firmware, loaderMap, stage, merged, given>>

StartKernel ==
  /\ stage = "convert" /\ cursor > Len(loaderMap)
  /\ GoOn("kernel")
  /\ UNCHANGED <<firmware, loaderMap, kernelMap, given>>

(* setup_memory, for one region.  (The page of the first that becomes the   *)
(* first node page is module NodePool's business.)                          *)
SetupMemory ==
  /\ stage = "kernel" /\ cursor <= Len(kernelMap)
  /\ given' = IF kernelMap[cursor].base >= Meg /\ kernelMap[cursor].type = Free
              THEN Append(given, kernelMap[cursor]) ELSE given
  /\ cursor' = cursor + 1
  /\ UNCHANGED <<firmware, loaderMap, stage, merged, kernelMap>>

MapNext == SortMemoryMap \/ CompactMemoryMap \/ Convert \/ StartKernel \/ SetupMemory

MapSpec == MapInit /\ [][MapNext]_mapVars

-----------------------------------------------------------------------------
Done == stage = "kernel" /\ cursor > Len(kernelMap)

Allocated == UNION {PagesOf(given[k]) : k \in DOMAIN given}

(* Pages that the firmware reported as free for the kernel to use.          *)
Usable == UNION {PagesOf(firmware[k]) : k \in {n \in DOMAIN firmware : TypeOf(firmware[n].type) = Free}}

(* A page may be lost to the allocator when all pages from one below 1 MB,  *)
(* or from the start of the map, up to it are usable, or of a stretch of    *)
(* one type that starts below 64 KB and is taken for free as a whole.       *)
Reported == UNION {PagesOf(firmware[k]) : k \in DOMAIN firmware}
FirstPage == CHOOSE p \in Reported : \A q \in Reported : p <= q
ReportedAs(p) == firmware[CHOOSE k \in DOMAIN firmware : p \in PagesOf(firmware[k])].type
TakenForFree(p) ==
  \E b \in Reported : /\ b < Low
                      /\ \A x \in b .. p : x \in Reported /\ ReportedAs(x) = ReportedAs(b)
Joined(p) == \E q \in {Meg - 1, FirstPage} : \A x \in q .. p - 1 : x \in Usable \/ TakenForFree(x)

(* The kernel's stack, at the end of region 0, is on a page the allocator   *)
(* never gives away; what it gives away was free in the firmware's map, is  *)
(* above 1 MB, and is in one region; and it has all free pages above 1 MB   *)
(* but those that go on from below it, or from the start of the map         *)
(* (main.c:621, main.c:623 of the loader, vmm.c:171).                       *)
MemoryMapHonest ==
  Done =>
    /\ Allocated \subseteq {p \in Usable : p >= Meg}
    /\ \A k, n \in DOMAIN given : PagesOf(given[k]) \cap PagesOf(given[n]) # {} => k = n
    /\ \A p \in Usable \ Allocated : p >= Meg => Joined(p)
    /\ kernelMap[1].size - 1 \notin Allocated
=============================================================================
