------------------------------- MODULE NodePool -------------------------------
(***************************************************************************)
(* The nodes of every block list of mm/vmm.c, and the loop they close: the *)
(* physical allocator keeps its free blocks in nodes, the nodes live in    *)
(* pages, and when the last of these pages runs low vmm_alloc_node asks    *)
(* the physical allocator for another one, in the middle of whatever that  *)
(* allocator was doing when it asked for a node.                           *)
(*                                                                         *)
(* pool is the chain of node pages from BLOCK_HEAP on.  Slot number 127 of *)
(* a page is its trailer: SIZE counts the free slots, ADDR is the next     *)
(* page, or 1 while that page is being obtained.  used is the set of slots *)
(* with VALD set.  The request in progress is kept in pending, because the *)
(* list is seen by the nested allocations in the state the outer operation *)
(* left it in.  There may be two of them: the new page of nodes, and, when *)
(* the first write to that page faults because its part of the linear      *)
(* mapping is not set up, a page directory for it, taken by INT0E while    *)
(* vmm_alloc_node, and perhaps vmm_alloc, are still on the stack.          *)
(***************************************************************************)
EXTENDS BlockList, FiniteSets

CONSTANTS
  PoolRegions,      \* as in PhysicalMemory
  PoolLowLimit,     \* as in PhysicalMemory
  PoolCounts,       \* the page counts callers ask for
  PoolAlignments,   \* the alignments, in pages, callers ask for
  Slots,        \* MEMBLK_NODE_PRE_PAGE
  MaxOther      \* bound on the nodes of the other lists (VMMA of a process)

(* What PhysicalMemory says of its constants: sorted regions that do not    *)
(* overlap, and a page left in the one that gives its first to the nodes.   *)
ASSUME PoolAssumption ==
  /\ Slots \in Nat \ {0} /\ MaxOther \in Nat
  /\ PoolCounts \subseteq Nat \ {0} /\ PoolAlignments \subseteq Nat \ {0}
  /\ PoolLowLimit \in Nat \ {0}
  /\ PoolRegions \in Seq([addr : Nat, size : Nat \ {0}, free : BOOLEAN])
  /\ \A i, j \in 1 .. Len(PoolRegions) :
       i < j => End(PoolRegions[i]) <= PoolRegions[j].addr
  /\ \A i \in 1 .. Len(PoolRegions) :
       PoolRegions[i].free /\ PoolRegions[i].addr >= PoolLowLimit
         => PoolRegions[i].size >= 2

VARIABLES
  poolMap,      \* MEMORY_MAP; every block has the node it is stored in
  poolHeld,     \* pages handed out and not given back
  pool,         \* the node pages, in chain order
  tables,       \* pages that became page directories of the linear mapping
  other,        \* nodes in use by other lists
  pending,      \* the operation that waits for a node
  poolRegion    \* how far setup_memory has come

poolVars == <<poolMap, poolHeld, pool, tables, other, pending, poolRegion>>

-----------------------------------------------------------------------------
Node == (1 .. Len(pool)) \X (0 .. Slots - 1)

NodePage(page) == [page |-> page, used |-> {}, size |-> Slots, next |-> FALSE]

PoolBlock(addr, size) == [addr |-> addr, size |-> size, type |-> 0]

(* blk, stored in a node. *)
In(node, blk) == [addr |-> blk.addr, size |-> blk.size, type |-> blk.type, node |-> node]

Idle == pending.for = "nothing"

Nothing == [for |-> "nothing"]
Panic   == [for |-> "panic"]
Waiting == pending.for \in {"region", "split", "free", "other"}

(* The pages vmm_alloc_node does not pass, and the slot it takes there. *)
WithRoom(p) == {k \in 1 .. Len(p) : p[k].size # 0 /\ p[k].used # 0 .. Slots - 1}
FreeSlot(p, k) == Min((0 .. Slots - 1) \ p[k].used)

(* Pages it passed are written off as full, and the one it takes counts     *)
(* one free slot less; running low, that page is marked as being extended.  *)
Low(p, k) == p[k].size - 1 < 4 /\ ~p[k].next

Taken(p, k) ==
  [j \in 1 .. Len(p) |->
     IF j < k THEN [p[j] EXCEPT !.size = 0]
     ELSE IF j = k THEN [p[j] EXCEPT !.size = @ - 1, !.next = @ \/ Low(p, k)]
     ELSE p[j]]

(* val->VALD = 1, the last thing vmm_alloc_node does. *)
Validate(p, node) == [p EXCEPT ![node[1]].used = @ \cup {node[2]}]

(* A vmm_free_node that does not count the slot as free again ... *)
ReleaseUncounted(p, nodes) ==
  [k \in 1 .. Len(p) |-> [p[k] EXCEPT !.used = @ \ {n[2] : n \in {m \in nodes : m[1] = k}}]]

(* vmm_free_node, for every node of a set. *)
Release(p, nodes) ==
  [k \in 1 .. Len(p) |->
     LET slots == {n[2] : n \in {m \in nodes : m[1] = k}}
     IN  [p[k] EXCEPT !.used = @ \ slots, !.size = @ + Cardinality(slots)]]

(* An operation asks for a node: the first half of vmm_alloc_node.  With no *)
(* slot left the code writes to address 1, which stops the kernel.          *)
Request(p, purpose, blk) ==
  IF WithRoom(p) = {}
  THEN pool' = p /\ pending' = Panic
  ELSE LET k    == Min(WithRoom(p))
           node == <<k, FreeSlot(p, k)>>
       IN  /\ pool' = IF Low(p, k) THEN Taken(p, k) ELSE Validate(Taken(p, k), node)
           /\ pending' = [for |-> purpose, blk |-> blk, node |-> node, page |-> 0,
                            wants |-> IF Low(p, k) THEN "page" ELSE "nothing"]

-----------------------------------------------------------------------------
PoolInit ==
  /\ poolMap = <<>>
  /\ poolHeld = {}
  /\ pool = <<>>
  /\ tables = {}
  /\ other = {}
  /\ pending = Nothing
  /\ poolRegion = 1

(* setup_memory: the first free region's first page becomes BLOCK_HEAP.     *)
PoolSkipRegion ==
  /\ Idle
  /\ poolRegion <= Len(PoolRegions)
  /\ ~PoolRegions[poolRegion].free \/ PoolRegions[poolRegion].addr < PoolLowLimit
  /\ poolRegion' = poolRegion + 1
  /\ UNCHANGED <<poolMap, poolHeld, pool, tables, other, pending>>

PoolAddRegion ==
  /\ Idle
  /\ poolRegion <= Len(PoolRegions)
  /\ PoolRegions[poolRegion].free
  /\ PoolRegions[poolRegion].addr >= PoolLowLimit
  /\ LET r == PoolRegions[poolRegion]
     IN  IF pool = <<>>
         THEN Request(<<NodePage(r.addr)>>, "region", PoolBlock(r.addr + 1, r.size - 1))
         ELSE Request(pool, "region", PoolBlock(r.addr, r.size))
  /\ poolRegion' = poolRegion + 1
  /\ UNCHANGED <<poolMap, poolHeld, tables, other>>

Ready == Idle /\ poolRegion > Len(PoolRegions)

(* vmm_alloc needs no new node: pages are cut off one end of the block, or  *)
(* the block is used up and its node freed.                                 *)
AllocAtEnd(count, align) ==
  /\ Ready
  /\ Fitting(poolMap, count, align) # {}
  /\ LET i     == FirstFit(poolMap, count, align)
         node  == poolMap[i]
         start == RoundUp(node.addr, align)
         left  == start - node.addr
         right == End(node) - (start + count)
     IN  /\ left = 0 \/ right = 0
         /\ IF left = 0 /\ right = 0
            THEN /\ poolMap' = DeleteLink(poolMap, i)
                 /\ pool' = Release(pool, {node.node})
            ELSE /\ poolMap' = IF left # 0
                                 THEN [poolMap EXCEPT ![i].size = left]
                                 ELSE [poolMap EXCEPT ![i].addr = start + count,
                                                        ![i].size = right]
                 /\ pool' = pool
         /\ poolHeld' = poolHeld \cup (start .. (start + count - 1))
  /\ UNCHANGED <<tables, other, pending, poolRegion>>

(* ... or the pages come out of the middle: what is before them stays in    *)
(* the node, what is behind them waits for a node of its own.               *)
AllocInside(count, align) ==
  /\ Ready
  /\ Fitting(poolMap, count, align) # {}
  /\ LET i     == FirstFit(poolMap, count, align)
         node  == poolMap[i]
         start == RoundUp(node.addr, align)
         left  == start - node.addr
         right == End(node) - (start + count)
     IN  /\ left # 0 /\ right # 0
         /\ poolMap' = [poolMap EXCEPT ![i].size = left]
         /\ poolHeld' = poolHeld \cup (start .. (start + count - 1))
         /\ Request(pool, "split", PoolBlock(start + count, right))
  /\ UNCHANGED <<tables, other, poolRegion>>

(* vmm_free asks for the node before it looks at the list. *)
PoolFree(addr, count) ==
  /\ Ready
  /\ addr .. (addr + count - 1) \subseteq poolHeld
  /\ poolHeld' = poolHeld \ (addr .. (addr + count - 1))
  /\ Request(pool, "free", PoolBlock(addr, count))
  /\ UNCHANGED <<poolMap, tables, other, poolRegion>>

(* Another list takes a node, and gives one back. *)
OtherTakes ==
  /\ Ready
  /\ Cardinality(other) < MaxOther
  /\ Request(pool, "other", PoolBlock(0, 0))
  /\ UNCHANGED <<poolMap, poolHeld, tables, other, poolRegion>>

OtherReturns(node) ==
  /\ Ready
  /\ pool' = Release(pool, {node})
  /\ other' = other \ {node}
  /\ UNCHANGED <<poolMap, poolHeld, tables, pending, poolRegion>>

(* alloc_physical_memory(1, 0) from inside: one page from the head of       *)
(* MEMORY_MAP as the outer operation left it, whose node may become free.   *)
TakeHead ==
  LET head == poolMap[1]
  IN  IF head.size = 1
      THEN poolMap' = DeleteLink(poolMap, 1) /\ pool' = Release(pool, {head.node})
      ELSE /\ poolMap' = [poolMap EXCEPT ![1].addr = @ + 1, ![1].size = @ - 1]
           /\ pool' = pool

(* Its answer 0 is not checked: core_mapping(0) is the unmapped page 0, and *)
(* clearing that ends in panic().                                           *)
Exhausted ==
  /\ Waiting /\ pending.wants \in {"page", "directory"}
  /\ poolMap = <<>>
  /\ pending' = [pending EXCEPT !.wants = "memory"]
  /\ UNCHANGED <<poolMap, poolHeld, pool, tables, other, poolRegion>>

(* The page of nodes; the write that clears it may fault. *)
GetPage ==
  /\ Waiting /\ pending.wants = "page"
  /\ poolMap # <<>>
  /\ TakeHead
  /\ \E next \in {"directory", "link"} :
       pending' = [pending EXCEPT !.page = poolMap[1].addr, !.wants = next]
  /\ UNCHANGED <<poolHeld, tables, other, poolRegion>>

GetDirectory ==
  /\ Waiting /\ pending.wants = "directory"
  /\ poolMap # <<>>
  /\ TakeHead
  /\ tables' = tables \cup {poolMap[1].addr}
  /\ pending' = [pending EXCEPT !.wants = "link"]
  /\ UNCHANGED <<poolHeld, other, poolRegion>>

(* blks[...].ADDR = pageAddr, and the slot that was found becomes VALD. *)
LinkPage ==
  /\ Waiting /\ pending.wants = "link"
  /\ pool' = Append(Validate(pool, pending.node), NodePage(pending.page))
  /\ pending' = [pending EXCEPT !.wants = "nothing"]
  /\ UNCHANGED <<poolMap, poolHeld, tables, other, poolRegion>>

(* The node is there: pmm_insert_link puts the block on the list, or the    *)
(* other list keeps the node.                                               *)
Insert ==
  /\ pending.for \in {"region", "split", "free"}
  /\ pending.wants = "nothing"
  /\ LET blk == In(pending.node, pending.blk)
     IN  /\ poolMap' = InsertLink(poolMap, blk)
         /\ pool' = Release(pool, {b.node : b \in FreedByInsert(poolMap, blk)})
  /\ pending' = Nothing
  /\ UNCHANGED <<poolHeld, tables, other, poolRegion>>

OtherKeeps ==
  /\ pending.for = "other"
  /\ pending.wants = "nothing"
  /\ other' = other \cup {pending.node}
  /\ pending' = Nothing
  /\ UNCHANGED <<poolMap, poolHeld, pool, tables, poolRegion>>

PoolNext ==
  \/ PoolSkipRegion
  \/ PoolAddRegion
  \/ \E count \in PoolCounts, align \in PoolAlignments :
       AllocAtEnd(count, align) \/ AllocInside(count, align)
  \/ \E addr \in poolHeld, count \in PoolCounts : PoolFree(addr, count)
  \/ OtherTakes
  \/ \E node \in other : OtherReturns(node)
  \/ Exhausted
  \/ GetPage
  \/ GetDirectory
  \/ LinkPage
  \/ Insert
  \/ OtherKeeps

PoolSpec == PoolInit /\ [][PoolNext]_poolVars

-----------------------------------------------------------------------------
PoolTypeOK ==
  /\ poolMap \in Seq([addr : Nat, size : Nat, type : {0}, node : Node])
  /\ poolHeld \subseteq Nat
  /\ pool \in Seq([page : Nat, used : SUBSET (0 .. Slots - 1), size : Int, next : BOOLEAN])
  /\ tables \subseteq Nat
  /\ other \subseteq Node
  /\ \/ pending \in {Nothing, Panic}
     \/ pending \in [for : {"region", "split", "free", "other"}, blk : Block({0}),
                      node : Node, page : Nat,
                      wants : {"page", "directory", "link", "nothing", "memory"}]
  /\ poolRegion \in 1 .. Len(PoolRegions) + 1

ListNodes == {poolMap[i].node : i \in 1 .. Len(poolMap)}
ValidNodes == {n \in Node : n[2] \in pool[n[1]].used}
Growing == Waiting /\ pending.wants # "nothing"
Stopped == pending = Panic \/ (Waiting /\ pending.wants = "memory")
WaitingNode == IF Waiting /\ ~Growing THEN {pending.node} ELSE {}

(* A node belongs to one block of MEMORY_MAP, to one other list, or to the  *)
(* request in progress, and to one only; and every slot marked VALD does.   *)
(* Merging, carving and the nested allocation neither leak a node nor give  *)
(* one out twice.                                                           *)
NodesAccounted ==
  /\ Cardinality(ListNodes) = Len(poolMap)
  /\ ListNodes \cap other = {} /\ (ListNodes \cup other) \cap WaitingNode = {}
  /\ ValidNodes = ListNodes \cup other \cup WaitingNode
  /\ Growing => pending.node \notin ValidNodes

(* The trailer's SIZE is the number of free slots of its page (a slot being *)
(* handed out while its page grows is already counted off), so no page with *)
(* room is passed over and none without is searched.                        *)
CountsExact ==
  \A k \in 1 .. Len(pool) :
    pool[k].size = Slots - Cardinality(pool[k].used)
      - (IF Growing /\ pending.node[1] = k THEN 1 ELSE 0)

(* However many nodes the other lists use, the kernel stops only when it    *)
(* has no free page left, never because nodes ran out before memory did.    *)
PanicHonest == Stopped => poolMap = <<>>

(* The pages of the pool and the page directories are pages the allocator   *)
(* gave up, one for each: neither free, nor in a caller's hands, nor part   *)
(* of the block that waits for its node; and the list that the nested       *)
(* allocations leave behind is one that pmm_insert_link may be called on.   *)
PoolPages ==
  {pool[k].page : k \in 1 .. Len(pool)}
    \cup (IF Growing /\ pending.page # 0 THEN {pending.page} ELSE {})
WaitingPages == IF Waiting THEN PagesOf(pending.blk) ELSE {}

PagesAccounted ==
  /\ Coalesced(poolMap)
  /\ WaitingPages \cap (Pages(poolMap) \cup poolHeld) = {}
  /\ Cardinality(PoolPages) = Len(pool) + (IF Growing /\ pending.page # 0 THEN 1 ELSE 0)
  /\ PoolPages \cap tables = {}
  /\ (PoolPages \cup tables) \cap (Pages(poolMap) \cup poolHeld \cup WaitingPages) = {}

(* Every slot in use holds a block of one list and the counts of free slots *)
(* are those of the bitmaps, so that no page is lost or has two uses while  *)
(* requests are nested, and the kernel stops for want of a node page only   *)
(* when no page is free (vmm.c:103 to 163).                                 *)
PoolSound ==
  /\ PoolTypeOK /\ NodesAccounted /\ CountsExact /\ PagesAccounted /\ PanicHonest

PoolMachine == UNION {PagesOf(PoolRegions[i]) : i \in 1 .. Len(PoolRegions)}

(* A block that waits for a node is still the caller's (it is held), except *)
(* one of a new region, which nobody has seen yet.                          *)
HeldPages ==
  poolHeld \cup PoolPages \cup tables
       \cup (IF pending.for \in {"split", "free"} THEN WaitingPages ELSE {})

(* With its nodes, their pages and the nested allocation, the allocator     *)
(* still is the page allocator its callers rely on.                         *)
AbstractPool == INSTANCE PageAllocator WITH
  Page <- PoolMachine, free <- Pages(poolMap), held <- HeldPages

PoolImplementsPageAllocator == AbstractPool!Spec
=============================================================================
