---------------------------- MODULE PhysicalMemory ----------------------------
(***************************************************************************)
(* The physical page allocator of mm/vmm.c: MEMORY_MAP, the list of free   *)
(* blocks, filled by setup_memory from the loader's region table, searched *)
(* by vmm_alloc (the path with virt = 0, reached by alloc_physical_memory) *)
(* and refilled by vmm_free (free_physical_memory).                        *)
(*                                                                         *)
(* Every operation is one step: vmm_alloc runs under VMM_LOCK, and only    *)
(* the boot processor's single thread of control allocates at all.  The    *)
(* nodes of the list are taken as always available here; module NodePool   *)
(* says where they come from and refines this one.                         *)
(***************************************************************************)
EXTENDS BlockList

CONSTANTS
  Regions,      \* SYSTEM_TABLE->MEMORY up to its end mark: [addr, size, free]
  LowLimit,     \* first page setup_memory accepts: 0x100000 >> 12
  Counts,       \* the page counts callers ask for
  Alignments    \* the values of 1 << align, in pages, callers ask for

(* The loader sorts its regions, and they do not overlap. *)
ASSUME RegionsAssumption ==
  /\ Regions \in Seq([addr : Nat, size : Nat \ {0}, free : BOOLEAN])
  /\ \A i, j \in 1 .. Len(Regions) : i < j => End(Regions[i]) <= Regions[j].addr

(* One page of the first free region goes to the nodes, and one remains.   *)
ASSUME FirstRegionAssumption ==
  \A i \in 1 .. Len(Regions) :
    Regions[i].free /\ Regions[i].addr >= LowLimit => Regions[i].size >= 2

(* Page 0 is never managed: address 0 tells callers that vmm_alloc failed. *)
ASSUME LowLimitAssumption == LowLimit \in Nat \ {0}

ASSUME RequestsAssumption ==
  /\ Counts \subseteq Nat \ {0}
  /\ Alignments \subseteq Nat \ {0}

VARIABLES
  memoryMap,    \* MEMORY_MAP, as the sequence of its blocks
  held,         \* pages handed out and not given back (no such table exists)
  blockHeap,    \* BLOCK_HEAP: the first page of nodes, 0 before it is chosen
  region        \* how far setup_memory has come in the region table

vars == <<memoryMap, held, blockHeap, region>>

-----------------------------------------------------------------------------
FreeBlock(addr, size) == [addr |-> addr, size |-> size, type |-> 0]

(* A vmm_alloc that leaves out the new node for what is behind the pages. *)
CarveDropsRest(list, i, start, count) ==
  LET node  == list[i]
      right == End(node) - (start + count)
  IN  CASE start # node.addr -> [list EXCEPT ![i].size = start - node.addr]
        [] start = node.addr /\ right # 0 ->
             [list EXCEPT ![i].addr = start + count, ![i].size = right]
        [] OTHER -> DeleteLink(list, i)

(* A vmm_alloc that shrinks the node from the front by one page too few. *)
CarveOffByOne(list, i, start, count) ==
  LET node   == list[i]
      suffix == FreeBlock(start + count - 1, End(node) - (start + count - 1))
  IN  [list EXCEPT ![i].addr = suffix.addr, ![i].size = suffix.size]

(* Take count pages at start out of node i: keep what is before them in    *)
(* the node, and put what is behind them back as a node of its own.        *)
Carve(list, i, start, count) ==
  LET node   == list[i]
      suffix == FreeBlock(start + count, End(node) - (start + count))
      prefix == [list EXCEPT ![i].size = start - node.addr]
  IN  CASE start # node.addr /\ suffix.size # 0 -> InsertLink(prefix, suffix)
        [] start # node.addr /\ suffix.size = 0 -> prefix
        [] start = node.addr /\ suffix.size # 0 ->
             [list EXCEPT ![i].addr = suffix.addr, ![i].size = suffix.size]
        [] OTHER -> DeleteLink(list, i)

-----------------------------------------------------------------------------
Init ==
  /\ memoryMap = <<>>
  /\ held = {}
  /\ blockHeap = 0
  /\ region = 1

(* One turn of the loop of setup_memory. *)
SkipRegion ==
  /\ region <= Len(Regions)
  /\ ~Regions[region].free \/ Regions[region].addr < LowLimit
  /\ region' = region + 1
  /\ UNCHANGED <<memoryMap, held, blockHeap>>

AddRegion ==
  /\ region <= Len(Regions)
  /\ Regions[region].free
  /\ Regions[region].addr >= LowLimit
  /\ LET r     == Regions[region]
         nodes == IF blockHeap = 0 THEN 1 ELSE 0
     IN  /\ memoryMap' = InsertLink(memoryMap, FreeBlock(r.addr + nodes, r.size - nodes))
         /\ blockHeap' = IF blockHeap = 0 THEN r.addr ELSE blockHeap
         /\ held' = IF blockHeap = 0 THEN held \cup {r.addr} ELSE held
  /\ region' = region + 1

(* alloc_physical_memory, when some block is large enough ... *)
Alloc(count, align) ==
  /\ Fitting(memoryMap, count, align) # {}
  /\ LET i     == FirstFit(memoryMap, count, align)
         start == RoundUp(memoryMap[i].addr, align)
     IN  /\ memoryMap' = Carve(memoryMap, i, start, count)
         /\ held' = held \cup (start .. (start + count - 1))
  /\ UNCHANGED <<blockHeap, region>>

(* ... and when none is: it answers 0 and changes nothing. *)
AllocFails(count, align) ==
  /\ Fitting(memoryMap, count, align) = {}
  /\ UNCHANGED vars

(* free_physical_memory: a caller gives back a run of the pages it holds,  *)
(* not necessarily as it received them; the nodes' page is never returned. *)
Free(addr, count) ==
  /\ addr .. (addr + count - 1) \subseteq held \ {blockHeap}
  /\ memoryMap' = InsertLink(memoryMap, FreeBlock(addr, count))
  /\ held' = held \ (addr .. (addr + count - 1))
  /\ UNCHANGED <<blockHeap, region>>

Next ==
  \/ SkipRegion
  \/ AddRegion
  \/ \E count \in Counts, align \in Alignments :
       Alloc(count, align) \/ AllocFails(count, align)
  \/ \E addr \in held, count \in Counts : Free(addr, count)

Spec == Init /\ [][Next]_vars

-----------------------------------------------------------------------------
Managed ==
  UNION {PagesOf(Regions[i]) : i \in {j \in 1 .. region - 1 :
           Regions[j].free /\ Regions[j].addr >= LowLimit}}

(* Every variable has the shape the actions assume. *)
TypeOK ==
  /\ memoryMap \in Seq(Block({0}))
  /\ held \subseteq Nat
  /\ blockHeap \in Nat
  /\ region \in 1 .. Len(Regions) + 1

(* Whatever is given back, and in whatever order, the list stays ascending  *)
(* and has no two blocks that touch: pmm_insert_link left nothing unmerged. *)
ListSeparated == Coalesced(memoryMap)

(* No page is both on the list and in a caller's hands, and none is lost:  *)
(* merging and carving account for every page setup_memory accepted.       *)
PagesConserved ==
  /\ Pages(memoryMap) \cap held = {}
  /\ Pages(memoryMap) \cup held = Managed

(* alloc_physical_memory answers 0 only when memory really has no such run *)
(* of free pages: a run is never hidden by being split over two blocks.    *)
FailureHonest ==
  \A count \in Counts, align \in Alignments :
    Fitting(memoryMap, count, align) = {} =>
      ~ \E start \in Pages(memoryMap) :
          start % align = 0 /\ start .. (start + count - 1) \subseteq Pages(memoryMap)

MachinePages == UNION {PagesOf(Regions[i]) : i \in 1 .. Len(Regions)}

(* The list implements the page allocator its callers rely on. *)
Abstract == INSTANCE PageAllocator WITH
  Page <- MachinePages, free <- Pages(memoryMap), held <- held

ImplementsPageAllocator == Abstract!Spec
=============================================================================
