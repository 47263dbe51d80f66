------------------------- MODULE PhysicalMemoryProofs -------------------------
(***************************************************************************)
(* Proofs about the physical page allocator, for every region table, every *)
(* set of request sizes and every set of alignments: first its lists, then *)
(* the same allocator with the nodes these lists are made of.              *)
(***************************************************************************)
EXTENDS PhysicalMemory, NodePool, BlockListProofs, FiniteSetTheorems

List == Seq(Block({0}))

(* The first aligned address is not before the block. *)
LEMMA RoundUpBound ==
  ASSUME NEW addr \in Nat, NEW align \in Nat \ {0}
  PROVE  RoundUp(addr, align) \in Nat /\ RoundUp(addr, align) >= addr
BY DEF RoundUp

(* An aligned address behind the start of the block is not before it. *)
LEMMA RoundUpLeast ==
  ASSUME NEW addr \in Nat, NEW align \in Nat \ {0}, NEW start \in Nat,
         addr <= start, start % align = 0
  PROVE  RoundUp(addr, align) <= start
<1>1. start = (start \div align) * align
  OBVIOUS
<1> DEFINE q == start \div align
<1>2. q \in Nat
  OBVIOUS
<1> HIDE DEF q
<1>3. start = q * align
  BY <1>1 DEF q
<1>4. (addr + align - 1) \div align <= q
  BY <1>2, <1>3
<1>5. (addr + align - 1) \div align \in Nat
  OBVIOUS
<1> QED BY <1>2, <1>3, <1>4, <1>5 DEF RoundUp

-----------------------------------------------------------------------------
(* A block shrunk in place: the list stays coalesced and loses what was cut. *)
LEMMA ShrinkBlock ==
  ASSUME NEW list \in List, Coalesced(list), NEW i \in 1 .. Len(list),
         NEW m \in Block({0}), m.size > 0,
         list[i].addr <= m.addr, End(m) <= End(list[i])
  PROVE  LET r == [list EXCEPT ![i] = m] IN
         /\ r \in List
         /\ Coalesced(r)
         /\ Pages(r) = Pages(list) \ (PagesOf(list[i]) \ PagesOf(m))
<1> DEFINE r == [list EXCEPT ![i] = m]
           n == Len(list)
<1>1. /\ r \in List /\ Len(r) = n /\ n \in Nat /\ i \in 1 .. n
      /\ \A j \in 1 .. n : r[j] = IF j = i THEN m ELSE list[j]
      /\ \A j \in 1 .. n : list[j] \in Block({0})
  BY DEF List
<1>2. /\ \A j \in 1 .. n : list[j].size > 0
      /\ \A j, k \in 1 .. n : j < k => End(list[j]) < list[k].addr
  BY <1>1 DEF Coalesced, Block
<1> HIDE DEF r
<1>3. Coalesced(r)
  <2>1. \A j \in 1 .. n : r[j].size > 0
    BY <1>1, <1>2
  <2>2. ASSUME NEW j \in 1 .. n, NEW k \in 1 .. n, j < k
        PROVE  End(r[j]) < r[k].addr
    <3>1. End(list[j]) < list[k].addr /\ list[j] \in Block({0}) /\ list[k] \in Block({0})
      BY <1>1, <1>2, <2>2
    <3>2. CASE j # i /\ k # i
      BY <1>1, <3>1, <3>2
    <3>3. CASE k = i
      BY <1>1, <2>2, <3>1, <3>3 DEF End, Block
    <3>4. CASE j = i
      BY <1>1, <2>2, <3>1, <3>4 DEF End, Block
    <3> QED BY <3>2, <3>3, <3>4
  <2> HIDE DEF n
  <2> QED BY <1>1, <2>1, <2>2 DEF Coalesced
<1>4. ASSUME NEW j \in 1 .. n, j # i
      PROVE  PagesOf(list[j]) \cap PagesOf(list[i]) = {}
  <2>1. End(list[j]) < list[i].addr \/ End(list[i]) < list[j].addr
    BY <1>1, <1>2, <1>4
  <2>2. list[j] \in Block({0}) /\ list[i] \in Block({0})
    BY <1>1
  <2> QED BY <2>1, <2>2, SMTT(20) DEF PagesOf, End, Block
<1>5. PagesOf(m) \subseteq PagesOf(list[i])
  <2>1. list[i] \in Block({0})
    BY <1>1
  <2> QED BY <2>1 DEF PagesOf, End, Block
<1>6. Pages(r) = Pages(list) \ (PagesOf(list[i]) \ PagesOf(m))
  <2>1. ASSUME NEW p \in Pages(r)
        PROVE  p \in Pages(list) \ (PagesOf(list[i]) \ PagesOf(m))
    <3>1. PICK j \in 1 .. n : p \in PagesOf(r[j])
      BY <1>1, <2>1 DEF Pages
    <3> QED BY <1>1, <1>4, <1>5, <3>1 DEF Pages
  <2>2. ASSUME NEW p \in Pages(list), p \notin PagesOf(list[i]) \ PagesOf(m)
        PROVE  p \in Pages(r)
    <3>1. PICK j \in 1 .. n : p \in PagesOf(list[j])
      BY <2>2 DEF Pages
    <3> QED BY <1>1, <2>2, <3>1 DEF Pages
  <2> QED BY <2>1, <2>2
<1> QED BY <1>1, <1>3, <1>6 DEF r

(* A block taken off the list, and its pages with it. *)
LEMMA DropBlock ==
  ASSUME NEW list \in List, Coalesced(list), NEW i \in 1 .. Len(list)
  PROVE  LET r == DeleteLink(list, i) IN
         /\ r \in List
         /\ Coalesced(r)
         /\ Pages(r) = Pages(list) \ PagesOf(list[i])
<1> DEFINE r == DeleteLink(list, i)
           n == Len(list)
<1>1. /\ r \in List /\ Len(r) = n - 1 /\ n \in Nat /\ i \in 1 .. n
      /\ \A j \in 1 .. n - 1 : r[j] = IF j < i THEN list[j] ELSE list[j + 1]
  BY RemoveAtElements DEF DeleteLink, List
<1>2. /\ \A j \in 1 .. n : list[j] \in Block({0})
      /\ \A j \in 1 .. n : list[j].size > 0
      /\ \A j, k \in 1 .. n : j < k => End(list[j]) < list[k].addr
  <2>1. \A j \in 1 .. n : list[j] \in Block({0})
    BY DEF List
  <2> QED BY <2>1 DEF Coalesced, Block
<1> HIDE DEF r
<1>3. Coalesced(r)
  <2>1. ASSUME NEW j \in 1 .. n - 1
        PROVE  /\ (IF j < i THEN j ELSE j + 1) \in 1 .. n
               /\ r[j] = list[IF j < i THEN j ELSE j + 1]
    BY <1>1
  <2>2. \A j \in 1 .. n - 1 : r[j].size > 0
    BY <1>2, <2>1
  <2>3. ASSUME NEW j \in 1 .. n - 1, NEW k \in 1 .. n - 1, j < k
        PROVE  End(r[j]) < r[k].addr
    <3>1. (IF j < i THEN j ELSE j + 1) < (IF k < i THEN k ELSE k + 1)
      BY <1>1, <2>3
    <3> QED BY <1>2, <2>1, <3>1
  <2> HIDE DEF n
  <2> QED BY <1>1, <2>2, <2>3 DEF Coalesced
<1>4. ASSUME NEW j \in 1 .. n, j # i
      PROVE  PagesOf(list[j]) \cap PagesOf(list[i]) = {}
  <2>1. End(list[j]) < list[i].addr \/ End(list[i]) < list[j].addr
    BY <1>1, <1>2, <1>4
  <2>2. list[j] \in Block({0}) /\ list[i] \in Block({0})
    BY <1>1, <1>2
  <2> QED BY <2>1, <2>2, SMTT(20) DEF PagesOf, End, Block
<1>5. Pages(r) = Pages(list) \ PagesOf(list[i])
  <2>1. ASSUME NEW p \in Pages(r)
        PROVE  p \in Pages(list) \ PagesOf(list[i])
    <3>1. PICK j \in 1 .. n - 1 : p \in PagesOf(r[j])
      BY <1>1, <2>1 DEF Pages
    <3>2. PICK k \in 1 .. n : r[j] = list[k] /\ k # i
      <4>1. CASE j < i
        BY <1>1, <4>1
      <4>2. CASE ~(j < i)
        <5>1. r[j] = list[j + 1] /\ j + 1 \in 1 .. n /\ j + 1 # i
          BY <1>1, <4>2
        <5> QED BY <5>1
      <4> QED BY <4>1, <4>2
    <3> QED BY <1>4, <3>1, <3>2 DEF Pages
  <2>2. ASSUME NEW p \in Pages(list), p \notin PagesOf(list[i])
        PROVE  p \in Pages(r)
    <3>1. PICK j \in 1 .. n : p \in PagesOf(list[j])
      BY <2>2 DEF Pages
    <3>2. CASE j < i
      <4>1. j \in 1 .. n - 1 /\ r[j] = list[j]
        BY <1>1, <3>2
      <4> QED BY <1>1, <3>1, <4>1 DEF Pages
    <3>3. CASE j > i
      <4>1. j - 1 \in 1 .. n - 1 /\ r[j - 1] = list[j]
        BY <1>1, <3>3
      <4> QED BY <1>1, <3>1, <4>1 DEF Pages
    <3> QED BY <1>1, <2>2, <3>1, <3>2, <3>3
  <2> QED BY <2>1, <2>2
<1> QED BY <1>1, <1>3, <1>5 DEF r

(* vmm_alloc takes exactly the pages start .. start + count - 1 out of the  *)
(* list, wherever in a block they lie, and leaves the list coalesced.       *)
THEOREM CarveGives ==
  ASSUME NEW list \in List, Coalesced(list), NEW i \in 1 .. Len(list),
         NEW start \in Nat, NEW count \in Nat \ {0},
         list[i].addr <= start, start + count <= End(list[i])
  PROVE  /\ Carve(list, i, start, count) \in List
         /\ Coalesced(Carve(list, i, start, count))
         /\ Pages(Carve(list, i, start, count)) = Pages(list) \ (start .. (start + count - 1))
<1> DEFINE node   == list[i]
           suffix == FreeBlock(start + count, End(node) - (start + count))
           prefix == [list EXCEPT ![i].size = start - node.addr]
           tail   == [list EXCEPT ![i].addr = suffix.addr, ![i].size = suffix.size]
           cut    == start .. (start + count - 1)
<1>1. node \in Block({0}) /\ PagesOf(node) \subseteq Pages(list)
  BY DEF List, Pages
<1>2. /\ suffix.addr = start + count /\ suffix.type = 0
      /\ suffix.size = End(node) - (start + count) /\ suffix.size \in Nat
      /\ suffix \in Block({0})
  BY <1>1 DEF FreeBlock, Block, End
<1>3. /\ PagesOf(suffix) = (start + count) .. (End(node) - 1)
      /\ PagesOf(node) = node.addr .. (End(node) - 1)
  BY <1>1, <1>2 DEF PagesOf, End, Block
<1> HIDE DEF suffix
<1>4. ASSUME start # node.addr
      PROVE  /\ prefix \in List /\ Coalesced(prefix)
             /\ Pages(prefix) = Pages(list) \ (start .. (End(node) - 1))
  <2> DEFINE m == [node EXCEPT !.size = start - node.addr]
  <2>1. /\ m \in Block({0}) /\ m.size > 0 /\ m.addr = node.addr
        /\ End(m) = start
    BY <1>1, <1>4, SMTT(20) DEF Block, End
  <2>2. prefix = [list EXCEPT ![i] = m]
    OBVIOUS
  <2>3. PagesOf(node) \ PagesOf(m) = start .. (End(node) - 1)
    BY <1>1, <2>1 DEF PagesOf, End, Block
  <2>4. node.addr <= m.addr /\ End(m) <= End(node)
    BY <1>1, <2>1 DEF End, Block
  <2> HIDE DEF m
  <2> HIDE DEF node, prefix
  <2>5. /\ [list EXCEPT ![i] = m] \in List
        /\ Coalesced([list EXCEPT ![i] = m])
        /\ Pages([list EXCEPT ![i] = m]) = Pages(list) \ (PagesOf(list[i]) \ PagesOf(m))
    BY <2>1, <2>4, ShrinkBlock, ZenonT(40) DEF node
  <2> QED BY <2>2, <2>3, <2>5 DEF node
<1> HIDE DEF prefix
<1>5. CASE start # node.addr /\ suffix.size # 0
  <2>1. Carve(list, i, start, count) = InsertLink(prefix, suffix)
    BY <1>5 DEF Carve, suffix, prefix
  <2>2. PagesOf(suffix) \cap Pages(prefix) = {}
    <3>1. PagesOf(suffix) \subseteq start .. (End(node) - 1)
      BY <1>3
    <3> QED BY <1>4, <1>5, <3>1
  <2>3. CanTake(prefix, suffix)
    <3>1. suffix.size > 0
      BY <1>2, <1>5
    <3> QED BY <1>4, <1>5, <2>2, <3>1 DEF CanTake
  <2>4. /\ InsertLink(prefix, suffix) \in List
        /\ Coalesced(InsertLink(prefix, suffix))
        /\ Pages(InsertLink(prefix, suffix)) = Pages(prefix) \cup PagesOf(suffix)
    BY <1>2, <1>4, <1>5, <2>3, InsertLinkPages DEF List
  <2>5. Pages(prefix) \cup PagesOf(suffix) = Pages(list) \ cut
    <3>1. PagesOf(suffix) \subseteq Pages(list)
      <4>1. node.addr \in Nat /\ node.addr <= start /\ End(node) \in Nat
        BY <1>1 DEF End, Block
      <4>2. PagesOf(suffix) \subseteq PagesOf(node)
        BY <1>3, <4>1
      <4> QED BY <1>1, <4>2
    <3>2. start .. (End(node) - 1) = cut \cup PagesOf(suffix) /\ cut \cap PagesOf(suffix) = {}
      <4>1. End(node) \in Nat
        BY <1>1 DEF End, Block
      <4> QED BY <1>3, <4>1
    <3> HIDE DEF cut
    <3> QED BY <1>4, <1>5, <3>1, <3>2
  <2> QED BY <2>1, <2>4, <2>5
<1>6. CASE start # node.addr /\ suffix.size = 0
  <2>1. Carve(list, i, start, count) = prefix
    BY <1>6 DEF Carve, suffix, prefix
  <2>2. End(node) = start + count
    <3>1. End(node) \in Nat
      BY <1>1 DEF End, Block
    <3> QED BY <1>2, <1>6, <3>1
  <2> QED BY <1>4, <1>6, <2>1, <2>2
<1>7. CASE start = node.addr /\ suffix.size # 0
  <2> DEFINE m == [node EXCEPT !.addr = suffix.addr, !.size = suffix.size]
  <2>1. Carve(list, i, start, count) = tail
    BY <1>7 DEF Carve, suffix
  <2>2. m = suffix
    BY <1>1, <1>2 DEF Block
  <2>3. tail = [list EXCEPT ![i] = m]
    OBVIOUS
  <2>4. PagesOf(node) \ PagesOf(suffix) = cut
    <3>1. End(node) \in Nat /\ start + count <= End(node)
      BY <1>1 DEF End, Block
    <3> QED BY <1>3, <1>7, <3>1
  <2>5. node.addr <= suffix.addr /\ End(suffix) <= End(node) /\ suffix.size > 0
    BY <1>1, <1>2, <1>7, SMTT(20) DEF End, Block
  <2> HIDE DEF m
  <2>6. /\ [list EXCEPT ![i] = suffix] \in List
        /\ Coalesced([list EXCEPT ![i] = suffix])
        /\ Pages([list EXCEPT ![i] = suffix]) = Pages(list) \ (PagesOf(node) \ PagesOf(suffix))
    <3> HIDE DEF node, tail, cut
    <3>1. list[i].addr <= suffix.addr /\ End(suffix) <= End(list[i]) /\ suffix.size > 0
      BY <2>5 DEF node
    <3>2. suffix \in Block({0})
      BY <1>2
    <3>3. /\ [list EXCEPT ![i] = suffix] \in List
          /\ Coalesced([list EXCEPT ![i] = suffix])
          /\ Pages([list EXCEPT ![i] = suffix])
             = Pages(list) \ (PagesOf(list[i]) \ PagesOf(suffix))
      BY <3>1, <3>2, ShrinkBlock
    <3> QED BY <3>3 DEF node
  <2>7. Carve(list, i, start, count) = [list EXCEPT ![i] = suffix]
    <3> HIDE DEF tail
    <3> QED BY <2>1, <2>2, <2>3
  <2> QED BY <2>4, <2>6, <2>7
<1>8. CASE start = node.addr /\ suffix.size = 0
  <2>1. Carve(list, i, start, count) = DeleteLink(list, i)
    BY <1>8 DEF Carve, suffix
  <2>2. PagesOf(node) = cut
    <3>1. End(node) \in Nat
      BY <1>1 DEF End, Block
    <3>2. End(node) = start + count
      BY <1>2, <1>8, <3>1, SMTT(20)
    <3> QED BY <1>3, <1>8, <3>2
  <2>3. /\ DeleteLink(list, i) \in List
        /\ Coalesced(DeleteLink(list, i))
        /\ Pages(DeleteLink(list, i)) = Pages(list) \ PagesOf(list[i])
    <3> HIDE DEF node, tail, cut
    <3> QED BY DropBlock
  <2> QED BY <2>1, <2>2, <2>3
<1> QED BY <1>5, <1>6, <1>7, <1>8

-----------------------------------------------------------------------------
(* The inductive invariant: a step that frees or carves relies on the list  *)
(* being coalesced, and start-up relies on the pages already managed being  *)
(* those of earlier regions, which do not overlap the next one.             *)
IInv == TypeOK /\ Coalesced(memoryMap) /\ PagesConserved

LEMMA InitIInv == Init => IInv
<1> SUFFICES ASSUME Init PROVE IInv
  OBVIOUS
<1>1. memoryMap = <<>> /\ Len(memoryMap) = 0 /\ held = {} /\ region = 1 /\ blockHeap = 0
  BY DEF Init
<1>2. TypeOK
  <2>1. Len(Regions) \in Nat
    BY RegionsAssumption
  <2> QED BY <1>1, <2>1 DEF TypeOK
<1>3. Coalesced(memoryMap)
  BY <1>1 DEF Coalesced
<1>4. Pages(memoryMap) = {} /\ Managed = {}
  BY <1>1 DEF Pages, Managed
<1> QED BY <1>1, <1>2, <1>3, <1>4 DEF IInv, PagesConserved

(* The insertion used by start-up and by a return of pages. *)
LEMMA InsertFree ==
  ASSUME NEW list \in List, Coalesced(list), NEW addr \in Nat, NEW size \in Nat \ {0},
         (addr .. (addr + size - 1)) \cap Pages(list) = {}
  PROVE  LET r == InsertLink(list, FreeBlock(addr, size)) IN
         /\ r \in List
         /\ Coalesced(r)
         /\ Pages(r) = Pages(list) \cup (addr .. (addr + size - 1))
<1> DEFINE blk == FreeBlock(addr, size)
<1>1. blk \in Block({0}) /\ blk.size > 0 /\ PagesOf(blk) = addr .. (addr + size - 1)
  BY DEF FreeBlock, Block, PagesOf, End
<1> HIDE DEF blk
<1>2. list \in Seq(Block({0})) /\ CanTake(list, blk)
  BY <1>1 DEF List, CanTake
<1>3. /\ InsertLink(list, blk) \in Seq(Block({0}))
      /\ Coalesced(InsertLink(list, blk))
      /\ Pages(InsertLink(list, blk)) = Pages(list) \cup PagesOf(blk)
  BY <1>1, <1>2, InsertLinkPages
<1> QED BY <1>1, <1>3 DEF List, blk

(* The pages of the region setup_memory turns to are not managed yet. *)
LEMMA NextRegion ==
  ASSUME TypeOK, region <= Len(Regions)
  PROVE  /\ Regions[region] \in [addr : Nat, size : Nat \ {0}, free : BOOLEAN]
         /\ PagesOf(Regions[region]) \cap Managed = {}
         /\ region \in Nat /\ Len(Regions) \in Nat /\ region >= 1
<1>1. region \in Nat /\ Len(Regions) \in Nat /\ region >= 1 /\ region \in 1 .. Len(Regions)
  <2>1. region \in 1 .. Len(Regions) + 1 /\ Len(Regions) \in Nat
    BY RegionsAssumption DEF TypeOK
  <2> QED BY <2>1
<1>2. \A i \in 1 .. Len(Regions) :
        Regions[i] \in [addr : Nat, size : Nat \ {0}, free : BOOLEAN]
  <2> DEFINE Region == [addr : Nat, size : Nat \ {0}, free : BOOLEAN]
  <2>1. Regions \in Seq(Region)
    BY RegionsAssumption
  <2> HIDE DEF Region
  <2>2. \A i \in 1 .. Len(Regions) : Regions[i] \in Region
    BY <2>1
  <2> QED BY <2>2 DEF Region
<1>3. ASSUME NEW i \in 1 .. region - 1
      PROVE  PagesOf(Regions[region]) \cap PagesOf(Regions[i]) = {}
  <2>1. i \in 1 .. Len(Regions) /\ i < region
    BY <1>1
  <2>2. End(Regions[i]) <= Regions[region].addr
    BY <1>1, <2>1, RegionsAssumption
  <2>3. /\ Regions[i] \in [addr : Nat, size : Nat \ {0}, free : BOOLEAN]
        /\ Regions[region] \in [addr : Nat, size : Nat \ {0}, free : BOOLEAN]
    BY <1>1, <1>2, <2>1
  <2> QED BY <2>2, <2>3 DEF PagesOf, End
<1>4. PagesOf(Regions[region]) \cap Managed = {}
  BY <1>3 DEF Managed
<1> QED BY <1>1, <1>2, <1>4

(* What Managed gains when a region is passed. *)
LEMMA ManagedGrows ==
  ASSUME TypeOK, region <= Len(Regions), region' = region + 1
  PROVE  Managed' = IF Regions[region].free /\ Regions[region].addr >= LowLimit
                    THEN Managed \cup PagesOf(Regions[region])
                    ELSE Managed
<1>1. region \in Nat /\ region >= 1
  BY NextRegion
<1>2. 1 .. region' - 1 = (1 .. region - 1) \cup {region}
  BY <1>1
<1> DEFINE Offered(j) == Regions[j].free /\ Regions[j].addr >= LowLimit
<1>3. Managed' = UNION {PagesOf(Regions[i]) : i \in {j \in 1 .. region' - 1 : Offered(j)}}
  BY DEF Managed
<1>4. Managed = UNION {PagesOf(Regions[i]) : i \in {j \in 1 .. region - 1 : Offered(j)}}
  BY DEF Managed
<1> HIDE DEF Offered
<1>5. CASE Offered(region)
  <2>1. {j \in 1 .. region' - 1 : Offered(j)} = {j \in 1 .. region - 1 : Offered(j)} \cup {region}
    BY <1>2, <1>5
  <2>2. Managed' = Managed \cup PagesOf(Regions[region])
    BY <1>3, <1>4, <2>1
  <2> QED BY <1>5, <2>2 DEF Offered
<1>6. CASE ~Offered(region)
  <2>1. {j \in 1 .. region' - 1 : Offered(j)} = {j \in 1 .. region - 1 : Offered(j)}
    BY <1>2, <1>6
  <2> QED BY <1>3, <1>4, <1>6, <2>1 DEF Offered
<1> QED BY <1>5, <1>6

-----------------------------------------------------------------------------
LEMMA AddRegionKeeps ==
  ASSUME IInv, AddRegion
  PROVE  IInv' /\ Abstract!Next
<1> DEFINE r     == Regions[region]
           nodes == IF blockHeap = 0 THEN 1 ELSE 0
           addr  == r.addr + nodes
           size  == r.size - nodes
<1>1. /\ TypeOK /\ Coalesced(memoryMap) /\ PagesConserved
      /\ region <= Len(Regions) /\ r.free /\ r.addr >= LowLimit
      /\ memoryMap' = InsertLink(memoryMap, FreeBlock(addr, size))
      /\ blockHeap' = IF blockHeap = 0 THEN r.addr ELSE blockHeap
      /\ held' = IF blockHeap = 0 THEN held \cup {r.addr} ELSE held
      /\ region' = region + 1
  BY DEF IInv, AddRegion
<1>2. /\ r \in [addr : Nat, size : Nat \ {0}, free : BOOLEAN]
      /\ PagesOf(r) \cap Managed = {}
      /\ region \in Nat /\ Len(Regions) \in Nat /\ region >= 1
  BY <1>1, NextRegion
<1>3. r.addr \in Nat /\ r.size \in Nat /\ r.size >= 2
  BY <1>1, <1>2, FirstRegionAssumption
<1>4. /\ addr \in Nat /\ size \in Nat \ {0} /\ addr + size = r.addr + r.size
      /\ PagesOf(r) = r.addr .. (addr + size - 1)
      /\ addr = IF blockHeap = 0 THEN r.addr + 1 ELSE r.addr
  BY <1>3, SMTT(20) DEF PagesOf, End
<1>5. Managed' = Managed \cup PagesOf(r)
  BY <1>1, ManagedGrows
<1>6. memoryMap \in List
  BY <1>1 DEF TypeOK, List
<1> HIDE DEF addr, size, r
<1>7. addr .. (addr + size - 1) \subseteq PagesOf(r)
  BY <1>3, <1>4
<1>8. (addr .. (addr + size - 1)) \cap Pages(memoryMap) = {}
  BY <1>1, <1>2, <1>7 DEF PagesConserved
<1>9. /\ memoryMap' \in List
      /\ Coalesced(memoryMap')
      /\ Pages(memoryMap') = Pages(memoryMap) \cup (addr .. (addr + size - 1))
  BY <1>1, <1>4, <1>6, <1>8, InsertFree
<1>10. TypeOK'
  <2>1. held' \subseteq Nat /\ blockHeap' \in Nat
    BY <1>1, <1>3 DEF TypeOK
  <2>2. region' \in 1 .. Len(Regions) + 1
    BY <1>1, <1>2
  <2> QED BY <1>9, <2>1, <2>2 DEF TypeOK, List
<1>11. PagesConserved'
  <2>1. PagesOf(r) = (addr .. (addr + size - 1)) \cup (held' \ held) /\ held \subseteq held'
        /\ held' \cap (addr .. (addr + size - 1)) = {}
    <3>1. held \cap PagesOf(r) = {}
      BY <1>1, <1>2 DEF PagesConserved
    <3>2. CASE blockHeap = 0
      <4>1. PagesOf(r) = {r.addr} \cup (addr .. (addr + size - 1))
            /\ r.addr \notin addr .. (addr + size - 1)
        BY <1>3, <1>4, <3>2
      <4> QED BY <1>1, <3>1, <3>2, <4>1
    <3>3. CASE blockHeap # 0
      <4>1. PagesOf(r) = addr .. (addr + size - 1)
        BY <1>4, <3>3
      <4> QED BY <1>1, <3>1, <3>3, <4>1
    <3> QED BY <3>2, <3>3
  <2>2. held' \cap Pages(memoryMap) = {}
    <3>1. held' \ held \subseteq PagesOf(r) /\ PagesOf(r) \cap Pages(memoryMap) = {}
      BY <1>1, <1>2, <2>1 DEF PagesConserved
    <3> QED BY <1>1, <3>1 DEF PagesConserved
  <2> QED BY <1>1, <1>5, <1>9, <2>1, <2>2 DEF PagesConserved
<1>12. Abstract!Next
  <2> DEFINE last == addr + size - 1
             kept == held' \ held
  <2>1. PagesOf(r) = r.addr .. last /\ r.addr \in PagesOf(r) /\ last \in PagesOf(r)
    BY <1>3, <1>4, SMTT(20)
  <2>2. PagesOf(r) \subseteq MachinePages
    BY <1>1, <1>2 DEF MachinePages, r
  <2>3. PagesOf(r) \cap (Pages(memoryMap) \cup held) = {}
    BY <1>1, <1>2 DEF PagesConserved
  <2>4. CASE blockHeap = 0
    <3>1. held' = held \cup {r.addr} /\ r.addr \notin addr .. last
      BY <1>1, <1>3, <1>4, <2>4
    <3>2. addr .. last = (r.addr .. last) \ {r.addr}
      BY <1>3, <1>4, <2>4
    <3>3. Abstract!Add(r.addr, last, {r.addr})
      BY <1>9, <2>1, <2>3, <3>1, <3>2 DEF Abstract!Add
    <3> QED BY <2>1, <2>2, <3>3 DEF Abstract!Next
  <2>5. CASE blockHeap # 0
    <3>1. held' = held /\ addr = r.addr
      BY <1>1, <1>4, <2>5
    <3>2. Abstract!Add(r.addr, last, {})
      BY <1>9, <2>1, <2>3, <3>1 DEF Abstract!Add
    <3> QED BY <2>1, <2>2, <3>2 DEF Abstract!Next
  <2> QED BY <2>4, <2>5
<1> QED BY <1>9, <1>10, <1>11, <1>12 DEF IInv

(* A page of the list or of a caller is one of the machine's. *)
LEMMA ManagedInMachine ==
  ASSUME TypeOK, PagesConserved
  PROVE  Pages(memoryMap) \cup held \subseteq MachinePages
<1>1. region \in 1 .. Len(Regions) + 1 /\ Len(Regions) \in Nat
  BY RegionsAssumption DEF TypeOK
<1>2. 1 .. region - 1 \subseteq 1 .. Len(Regions)
  BY <1>1
<1> QED BY <1>2 DEF PagesConserved, Managed, MachinePages

(* FirstFit is one of the nodes that fit. *)
LEMMA FirstFitFits ==
  ASSUME NEW list \in List, NEW count \in Nat \ {0}, NEW align \in Nat \ {0},
         Fitting(list, count, align) # {}
  PROVE  LET i     == FirstFit(list, count, align)
             start == RoundUp(list[i].addr, align)
         IN  /\ i \in 1 .. Len(list)
             /\ start \in Nat
             /\ list[i].addr <= start
             /\ start + count <= End(list[i])
<1> DEFINE i == FirstFit(list, count, align)
<1>1. Len(list) \in Nat /\ Fitting(list, count, align) \in SUBSET (1 .. Len(list))
  BY DEF List, Fitting
<1>2. i \in Fitting(list, count, align)
  BY <1>1, FirstPosition DEF FirstFit
<1> HIDE DEF i
<1>3. i \in 1 .. Len(list) /\ Fits(list[i], count, align)
  BY <1>2 DEF Fitting
<1>4. list[i] \in Block({0})
  BY <1>3 DEF List
<1>5. list[i].addr \in Nat
  BY <1>4 DEF Block
<1> QED BY <1>3, <1>5, RoundUpBound DEF Fits, i

LEMMA AllocKeeps ==
  ASSUME IInv, NEW count \in Counts, NEW align \in Alignments, Alloc(count, align)
  PROVE  IInv' /\ Abstract!Next
<1> DEFINE i     == FirstFit(memoryMap, count, align)
           start == RoundUp(memoryMap[i].addr, align)
           run   == start .. (start + count - 1)
<1>1. /\ TypeOK /\ Coalesced(memoryMap) /\ PagesConserved
      /\ Fitting(memoryMap, count, align) # {}
      /\ memoryMap' = Carve(memoryMap, i, start, count)
      /\ held' = held \cup run
      /\ blockHeap' = blockHeap /\ region' = region
  BY DEF IInv, Alloc
<1>2. memoryMap \in List /\ count \in Nat \ {0} /\ align \in Nat \ {0}
  BY <1>1, RequestsAssumption DEF TypeOK, List
<1>3. /\ i \in 1 .. Len(memoryMap) /\ start \in Nat
      /\ memoryMap[i].addr <= start /\ start + count <= End(memoryMap[i])
  BY <1>1, <1>2, FirstFitFits
<1>4. memoryMap[i] \in Block({0}) /\ PagesOf(memoryMap[i]) \subseteq Pages(memoryMap)
  BY <1>2, <1>3 DEF List, Pages
<1> HIDE DEF i, start
<1>5. run \subseteq Pages(memoryMap)
  <2>1. memoryMap[i].addr \in Nat /\ End(memoryMap[i]) \in Nat
    BY <1>4 DEF Block, End
  <2>2. run \subseteq PagesOf(memoryMap[i])
    BY <1>2, <1>3, <2>1, SMTT(20) DEF PagesOf
  <2> QED BY <1>4, <2>2
<1>6. /\ memoryMap' \in List
      /\ Coalesced(memoryMap')
      /\ Pages(memoryMap') = Pages(memoryMap) \ run
  BY <1>1, <1>2, <1>3, CarveGives
<1>7. TypeOK'
  <2>1. run \subseteq Nat
    BY <1>2, <1>3
  <2>2. held' \subseteq Nat
    BY <1>1, <2>1 DEF TypeOK
  <2>3. memoryMap' \in Seq(Block({0}))
    BY <1>6 DEF List
  <2> HIDE DEF run
  <2> QED BY <1>1, <2>2, <2>3 DEF TypeOK
<1>8. PagesConserved'
  <2>1. Managed' = Managed
    BY <1>1 DEF Managed
  <2> HIDE DEF run
  <2> QED BY <1>1, <1>5, <1>6, <2>1 DEF PagesConserved
<1>9. Abstract!Take(start, start + count - 1)
  BY <1>1, <1>5, <1>6 DEF Abstract!Take
<1>10. start \in run /\ start + count - 1 \in run
  BY <1>2, <1>3
<1>11. start \in MachinePages /\ start + count - 1 \in MachinePages
  BY <1>1, <1>5, <1>10, ManagedInMachine
<1>12. Abstract!Next
  BY <1>9, <1>11 DEF Abstract!Next
<1> QED BY <1>6, <1>7, <1>8, <1>12 DEF IInv

LEMMA FreeKeeps ==
  ASSUME IInv, NEW addr \in held, NEW count \in Counts, Free(addr, count)
  PROVE  IInv' /\ Abstract!Next
<1> DEFINE run == addr .. (addr + count - 1)
<1>1. /\ TypeOK /\ Coalesced(memoryMap) /\ PagesConserved
      /\ run \subseteq held
      /\ memoryMap' = InsertLink(memoryMap, FreeBlock(addr, count))
      /\ held' = held \ run
      /\ blockHeap' = blockHeap /\ region' = region
  BY DEF IInv, Free
<1>2. memoryMap \in List /\ count \in Nat \ {0} /\ addr \in Nat
  BY <1>1, RequestsAssumption DEF TypeOK, List
<1>3. addr \in run /\ addr + count - 1 \in run
  BY <1>2
<1> HIDE DEF run
<1>4. run \cap Pages(memoryMap) = {}
  BY <1>1 DEF PagesConserved
<1>5. /\ memoryMap' \in List
      /\ Coalesced(memoryMap')
      /\ Pages(memoryMap') = Pages(memoryMap) \cup run
  BY <1>1, <1>2, <1>4, InsertFree DEF run
<1>6. TypeOK'
  BY <1>1, <1>5 DEF TypeOK, List
<1>7. PagesConserved'
  <2>1. Managed' = Managed
    BY <1>1 DEF Managed
  <2> QED BY <1>1, <1>4, <1>5, <2>1 DEF PagesConserved
<1>8. Abstract!Give(addr, addr + count - 1)
  BY <1>1, <1>5 DEF Abstract!Give, run
<1>9. addr \in MachinePages /\ addr + count - 1 \in MachinePages
  BY <1>1, <1>3, ManagedInMachine
<1>10. Abstract!Next
  BY <1>8, <1>9 DEF Abstract!Next
<1> QED BY <1>5, <1>6, <1>7, <1>10 DEF IInv

LEMMA SkipRegionKeeps ==
  ASSUME IInv, SkipRegion
  PROVE  IInv' /\ UNCHANGED Abstract!vars
<1>1. /\ TypeOK /\ Coalesced(memoryMap) /\ PagesConserved
      /\ region <= Len(Regions)
      /\ ~Regions[region].free \/ Regions[region].addr < LowLimit
      /\ region' = region + 1
      /\ memoryMap' = memoryMap /\ held' = held /\ blockHeap' = blockHeap
  BY DEF IInv, SkipRegion
<1>2. region \in Nat /\ Len(Regions) \in Nat /\ region >= 1
      /\ Regions[region] \in [addr : Nat, size : Nat \ {0}, free : BOOLEAN]
  BY <1>1, NextRegion
<1>3. ~(Regions[region].free /\ Regions[region].addr >= LowLimit)
  BY <1>1, <1>2, LowLimitAssumption
<1>4. Managed' = Managed
  BY <1>1, <1>3, ManagedGrows
<1>5. TypeOK'
  <2>1. region' \in 1 .. Len(Regions) + 1
    BY <1>1, <1>2
  <2> QED BY <1>1, <2>1 DEF TypeOK
<1> QED BY <1>1, <1>4, <1>5 DEF IInv, PagesConserved, Abstract!vars

(* Every step keeps the invariant, and is a step of the page allocator or   *)
(* changes neither its free pages nor its held ones.                        *)
LEMMA NextKeeps ==
  ASSUME IInv, [Next]_vars
  PROVE  IInv' /\ [Abstract!Next]_(Abstract!vars)
<1>1. CASE SkipRegion
  BY <1>1, SkipRegionKeeps
<1>2. CASE AddRegion
  BY <1>2, AddRegionKeeps
<1>3. ASSUME NEW count \in Counts, NEW align \in Alignments, Alloc(count, align)
      PROVE  IInv' /\ Abstract!Next
  BY <1>3, AllocKeeps
<1>4. ASSUME NEW count \in Counts, NEW align \in Alignments, AllocFails(count, align)
      PROVE  UNCHANGED vars
  BY <1>4 DEF AllocFails
<1>5. ASSUME NEW addr \in held, NEW count \in Counts, Free(addr, count)
      PROVE  IInv' /\ Abstract!Next
  BY <1>5, FreeKeeps
<1>6. CASE UNCHANGED vars
  BY <1>6 DEF vars, IInv, TypeOK, PagesConserved, Managed, Abstract!vars
<1> QED BY <1>1, <1>2, <1>3, <1>4, <1>5, <1>6 DEF Next

LEMMA InvariantHolds == Spec => []IInv
<1>1. IInv /\ [Next]_vars => IInv'
  BY NextKeeps
<1> QED BY InitIInv, <1>1, PTL DEF Spec

-----------------------------------------------------------------------------
(* The state of the allocator keeps its shape. *)
THEOREM TypeCorrect == Spec => []TypeOK
<1>1. IInv => TypeOK
  BY DEF IInv
<1> QED BY InvariantHolds, <1>1, PTL

(* The list never holds two blocks that touch or overlap. *)
THEOREM Separated == Spec => []ListSeparated
<1>1. IInv => ListSeparated
  BY DEF IInv, ListSeparated
<1> QED BY InvariantHolds, <1>1, PTL

(* Every page start-up accepted is on the list or held, and never both. *)
THEOREM Conserved == Spec => []PagesConserved
<1>1. IInv => PagesConserved
  BY DEF IInv
<1> QED BY InvariantHolds, <1>1, PTL

(* A run of free pages lies inside one block, because the page behind a     *)
(* block is never free: when every block is too small, no run is long       *)
(* enough, and the answer 0 is honest.                                      *)
THEOREM Honest == Spec => []FailureHonest
<1>1. ASSUME IInv, NEW count \in Counts, NEW align \in Alignments,
             Fitting(memoryMap, count, align) = {},
             NEW start \in Pages(memoryMap), start % align = 0,
             start .. (start + count - 1) \subseteq Pages(memoryMap)
      PROVE  FALSE
  <2> DEFINE n == Len(memoryMap)
  <2>1. /\ memoryMap \in Seq(Block({0})) /\ Coalesced(memoryMap)
        /\ count \in Nat \ {0} /\ align \in Nat \ {0} /\ n \in Nat
    BY <1>1, RequestsAssumption DEF IInv, TypeOK
  <2>2. /\ \A j \in 1 .. n : memoryMap[j] \in Block({0})
        /\ \A j, k \in 1 .. n : j < k => End(memoryMap[j]) < memoryMap[k].addr
    <3>1. \A j \in 1 .. n : memoryMap[j] \in Block({0})
      BY <2>1
    <3>2. \A j, k \in 1 .. n : memoryMap[j].type = memoryMap[k].type
      BY <3>1 DEF Block
    <3> HIDE DEF n
    <3> QED BY <2>1, <3>1, <3>2 DEF Coalesced, n
  <2>3. PICK i \in 1 .. n : start \in PagesOf(memoryMap[i])
    BY <1>1 DEF Pages
  <2>4. /\ memoryMap[i].addr \in Nat /\ memoryMap[i].size \in Nat
        /\ End(memoryMap[i]) \in Nat
        /\ start \in Nat /\ memoryMap[i].addr <= start /\ start < End(memoryMap[i])
    BY <2>2, <2>3 DEF PagesOf, End, Block
  <2>5. End(memoryMap[i]) \notin Pages(memoryMap)
    <3>1. SUFFICES ASSUME NEW j \in 1 .. n, End(memoryMap[i]) \in PagesOf(memoryMap[j])
                   PROVE  FALSE
      BY DEF Pages
    <3>2. memoryMap[j] \in Block({0}) /\ memoryMap[i] \in Block({0})
      BY <2>2
    <3>3. \/ j = i
          \/ End(memoryMap[i]) < memoryMap[j].addr
          \/ End(memoryMap[j]) < memoryMap[i].addr
      BY <2>1, <2>2
    <3> QED BY <2>4, <3>1, <3>2, <3>3, SMTT(20) DEF PagesOf, End, Block
  <2>6. start + count <= End(memoryMap[i])
    <3>1. End(memoryMap[i]) \notin start .. (start + count - 1)
      BY <1>1, <2>5
    <3> QED BY <2>1, <2>4, <3>1
  <2>7. RoundUp(memoryMap[i].addr, align) <= start /\ RoundUp(memoryMap[i].addr, align) \in Nat
    BY <1>1, <2>1, <2>4, RoundUpLeast, RoundUpBound
  <2>8. Fits(memoryMap[i], count, align)
    BY <2>1, <2>4, <2>6, <2>7 DEF Fits
  <2> QED BY <1>1, <2>8 DEF Fitting
<1>2. IInv => FailureHonest
  BY <1>1 DEF FailureHonest
<1> QED BY InvariantHolds, <1>2, PTL

(* The block list implements the page allocator. *)
THEOREM Implements == Spec => ImplementsPageAllocator
<1>1. Init => Abstract!Init
  <2>1. ASSUME memoryMap = <<>> PROVE Pages(memoryMap) = {}
    BY <2>1 DEF Pages
  <2> QED BY <2>1 DEF Init, Abstract!Init
<1>2. IInv /\ [Next]_vars => [Abstract!Next]_(Abstract!vars)
  BY NextKeeps
<1> QED BY InvariantHolds, <1>1, <1>2, PTL DEF Spec, ImplementsPageAllocator, Abstract!Spec

-----------------------------------------------------------------------------
(* The pages of nodes, whatever pool they belong to: the slots of a pool    *)
(* that are in use, and a pool whose counts are exact but for one slot of   *)
(* page off, which is counted off before it is marked as used.              *)
PoolPage == [page : Nat, used : SUBSET (0 .. Slots - 1), size : Int, next : BOOLEAN]

NodesIn(p) == (1 .. Len(p)) \X (0 .. Slots - 1)
UsedNodes(p) == {n \in NodesIn(p) : n[2] \in p[n[1]].used}

Exact(p, off) ==
  \A k \in 1 .. Len(p) :
    p[k].size = Slots - Cardinality(p[k].used) - (IF k = off THEN 1 ELSE 0)

(* The last page has room for what a growth takes in between, or is         *)
(* untouched, and is not being extended.                                    *)
Roomy(p) ==
  /\ p # <<>>
  /\ ~p[Len(p)].next
  /\ p[Len(p)].size >= 4 \/ p[Len(p)].size = Slots

SamePages(q, p) ==
  Len(q) = Len(p) /\ \A k \in 1 .. Len(p) : q[k].page = p[k].page

(* The fields of a page of nodes, and what is left of it when some change. *)
LEMMA PageFields ==
  ASSUME NEW r \in PoolPage
  PROVE  /\ r.page \in Nat /\ r.used \in SUBSET (0 .. Slots - 1)
         /\ r.size \in Int /\ r.next \in BOOLEAN
BY DEF PoolPage

(* A page has at most Slots slots in use, and is full when it has as many. *)
LEMMA UsedSlots ==
  ASSUME NEW used \in SUBSET (0 .. Slots - 1)
  PROVE  /\ IsFiniteSet(used) /\ Cardinality(used) \in Nat
         /\ Cardinality(used) <= Slots
         /\ used = 0 .. Slots - 1 <=> Cardinality(used) = Slots
<1> DEFINE all == 0 .. Slots - 1
<1>1. Slots \in Nat \ {0}
  BY PoolAssumption
<1>2. IsFiniteSet(all) /\ Cardinality(all) = Slots
  <2>1. 0 \in Int /\ Slots - 1 \in Int /\ ~(0 > Slots - 1) /\ Slots - 1 - 0 + 1 = Slots
    BY <1>1
  <2> HIDE <1>1
  <2>2. /\ IsFiniteSet(0 .. Slots - 1)
        /\ Cardinality(0 .. Slots - 1)
             = IF 0 > Slots - 1 THEN 0 ELSE Slots - 1 - 0 + 1
    BY <2>1, FS_Interval
  <2> QED BY <2>1, <2>2
<1>3. used \in SUBSET all
  OBVIOUS
<1> HIDE DEF all
<1>4. /\ IsFiniteSet(used) /\ Cardinality(used) <= Cardinality(all)
      /\ Cardinality(all) = Cardinality(used) => all = used
  BY <1>2, <1>3, FS_Subset
<1>5. Cardinality(used) \in Nat
  BY <1>4, FS_CardinalityType
<1> QED BY <1>2, <1>4, <1>5 DEF all

(* The page vmm_alloc_node stops at has a free slot, and its slot is one.  *)
LEMMA RoomFound ==
  ASSUME NEW p \in Seq(PoolPage), Exact(p, 0), Roomy(p)
  PROVE  LET k == Min(WithRoom(p)) IN
         /\ WithRoom(p) # {}
         /\ k \in 1 .. Len(p)
         /\ \A j \in 1 .. k - 1 : p[j].size = 0
         /\ p[k].size \in Nat \ {0}
         /\ FreeSlot(p, k) \in (0 .. Slots - 1) \ p[k].used
<1> DEFINE k == Min(WithRoom(p))
           n == Len(p)
           free == (0 .. Slots - 1) \ p[k].used
<1>1. Slots \in Nat \ {0}
  BY PoolAssumption
<1>2. n \in Nat \ {0} /\ \A j \in 1 .. n : p[j] \in PoolPage
  <2>1. p # <<>>
    BY DEF Roomy
  <2> QED BY <2>1
<1>3. ASSUME NEW j \in 1 .. n
      PROVE  /\ p[j].used \in SUBSET (0 .. Slots - 1)
             /\ p[j].size = Slots - Cardinality(p[j].used)
             /\ p[j].size \in Nat
             /\ p[j].size = 0 <=> p[j].used = 0 .. Slots - 1
  <2>1. p[j].used \in SUBSET (0 .. Slots - 1)
    BY <1>2 DEF PoolPage
  <2>2. p[j].size = Slots - Cardinality(p[j].used)
    <3>1. j # 0
      OBVIOUS
    <3>2. p[j].size = Slots - Cardinality(p[j].used) - 0
      BY <3>1 DEF Exact
    <3>3. Cardinality(p[j].used) \in Nat
      BY <2>1, UsedSlots
    <3> QED BY <1>1, <3>2, <3>3
  <2>3. /\ Cardinality(p[j].used) \in Nat /\ Cardinality(p[j].used) <= Slots
        /\ p[j].used = 0 .. Slots - 1 <=> Cardinality(p[j].used) = Slots
    BY <2>1, UsedSlots
  <2>4. p[j].size \in Nat /\ (p[j].size = 0 <=> Cardinality(p[j].used) = Slots)
    BY <1>1, <2>2, <2>3
  <2> QED BY <2>1, <2>2, <2>3, <2>4
<1>4. WithRoom(p) = {j \in 1 .. n : p[j].size # 0}
  BY <1>3 DEF WithRoom
<1>5. n \in WithRoom(p)
  <2>1. p[n].size # 0
    BY <1>1, <1>2 DEF Roomy
  <2> QED BY <1>2, <1>4, <2>1
<1> HIDE DEF n
<1>6. k \in WithRoom(p) /\ \A j \in WithRoom(p) : k <= j
  <2>1. WithRoom(p) \in SUBSET (1 .. n) /\ WithRoom(p) # {} /\ n \in Nat
    BY <1>2, <1>4, <1>5
  <2> QED BY <2>1, FirstPosition
<1> HIDE DEF k
<1>7. k \in 1 .. n /\ p[k].size # 0 /\ p[k].size \in Nat
  BY <1>3, <1>4, <1>6
<1>8. ASSUME NEW j \in 1 .. k - 1 PROVE p[j].size = 0
  <2>1. j \in 1 .. n /\ ~(k <= j)
    BY <1>2, <1>7
  <2> QED BY <1>4, <1>6, <2>1
<1>9. FreeSlot(p, k) \in free
  <2>1. free # {}
    <3>1. p[k].used \in SUBSET (0 .. Slots - 1) /\ p[k].used # 0 .. Slots - 1
      BY <1>3, <1>7
    <3> QED BY <3>1
  <2>2. free \in SUBSET Nat
    BY <1>1
  <2> HIDE DEF free
  <2>3. Min(free) \in free
    BY <2>1, <2>2, LeastNumber
  <2> QED BY <2>3 DEF FreeSlot, free
<1> QED BY <1>5, <1>7, <1>8, <1>9 DEF k, n

(* Passing the full pages changes nothing, and the page that is taken from  *)
(* counts one free slot less.                                               *)
LEMMA TakenCounts ==
  ASSUME NEW p \in Seq(PoolPage), Exact(p, 0), Roomy(p)
  PROVE  LET k == Min(WithRoom(p)) IN
         /\ Taken(p, k) \in Seq(PoolPage)
         /\ SamePages(Taken(p, k), p)
         /\ UsedNodes(Taken(p, k)) = UsedNodes(p)
         /\ Exact(Taken(p, k), k)
         /\ ~Low(p, k) => Roomy(Taken(p, k))
<1> DEFINE k == Min(WithRoom(p))
           t == Taken(p, k)
           n == Len(p)
<1>1. /\ k \in 1 .. n /\ \A j \in 1 .. k - 1 : p[j].size = 0
      /\ p[k].size \in Nat \ {0}
  BY RoomFound
<1>2. n \in Nat /\ \A j \in 1 .. n : p[j] \in PoolPage
  OBVIOUS
<1> HIDE DEF k
<1> DEFINE e(j) == IF j < k THEN [p[j] EXCEPT !.size = 0]
                   ELSE IF j = k THEN [p[j] EXCEPT !.size = @ - 1, !.next = @ \/ Low(p, k)]
                   ELSE p[j]
<1>3. t = [j \in 1 .. n |-> e(j)]
  BY DEF Taken
<1> HIDE DEF t
<1>4. ASSUME NEW j \in 1 .. n
      PROVE  /\ e(j) \in PoolPage
             /\ e(j).page = p[j].page /\ e(j).used = p[j].used
             /\ e(j).size = IF j = k THEN p[j].size - 1 ELSE p[j].size
             /\ j # k => e(j).next = p[j].next
             /\ j = k => e(j).next = (p[k].next \/ Low(p, k))
  <2>1. p[j] \in PoolPage /\ p[k] \in PoolPage /\ k \in Nat /\ j \in Nat
    BY <1>1, <1>2
  <2>2. CASE j < k
    <3>1. p[j].size = 0 /\ j # k /\ e(j) = [p[j] EXCEPT !.size = 0]
      BY <1>1, <2>1, <2>2
    <3> HIDE DEF e
    <3> DEFINE rec == p[j]
    <3>2. rec \in PoolPage /\ e(j) = [rec EXCEPT !.size = 0]
      BY <2>1, <3>1
    <3> HIDE DEF rec
    <3>3. /\ rec.page \in Nat /\ rec.used \in SUBSET (0 .. Slots - 1)
          /\ rec.next \in BOOLEAN
      BY <3>2, PageFields
    <3>4. /\ e(j) \in PoolPage /\ e(j).page = rec.page /\ e(j).used = rec.used
          /\ e(j).size = 0 /\ e(j).next = rec.next
      <4>1. e(j) = [page |-> rec.page, used |-> rec.used, size |-> 0, next |-> rec.next]
        BY <3>2 DEF PoolPage
      <4>2. e(j) \in PoolPage
        BY <3>3, <4>1 DEF PoolPage
      <4> QED BY <4>1, <4>2
    <3> QED BY <3>1, <3>4 DEF rec
  <2>3. CASE j = k
    <3> DEFINE low == p[k].next \/ Low(p, k)
               rec == p[k]
               less == rec.size - 1
    <3>1. low \in BOOLEAN
      BY <2>1 DEF PoolPage, Low
    <3>2. less \in Int
      BY <1>1
    <3>3. e(j) = [rec EXCEPT !.size = less, !.next = low]
      BY <2>1, <2>3
    <3> HIDE DEF e, low, less, rec
    <3>4. /\ rec \in PoolPage
      BY <2>1 DEF rec
    <3>5. /\ e(j) \in PoolPage /\ e(j).page = rec.page /\ e(j).used = rec.used
          /\ e(j).size = less /\ e(j).next = low
      <4>1. e(j) = [page |-> rec.page, used |-> rec.used, size |-> less, next |-> low]
        BY <3>3, <3>4 DEF PoolPage
      <4> QED BY <3>1, <3>2, <3>4, <4>1, PageFields DEF PoolPage
    <3> QED BY <2>3, <3>5 DEF rec, less, low
  <2>4. CASE j > k
    <3>1. e(j) = p[j] /\ j # k
      BY <2>1, <2>4
    <3> HIDE DEF e
    <3> QED BY <2>1, <3>1
  <2> QED BY <2>1, <2>2, <2>3, <2>4
<1> HIDE DEF e
<1>5. t \in Seq(PoolPage) /\ Len(t) = n /\ \A j \in 1 .. n : t[j] = e(j)
  BY <1>2, <1>3, <1>4
<1>6. SamePages(t, p)
  BY <1>4, <1>5 DEF SamePages
<1>7. UsedNodes(t) = UsedNodes(p)
  <2>1. NodesIn(t) = NodesIn(p)
    BY <1>5 DEF NodesIn
  <2>2. \A m \in NodesIn(p) : m[1] \in 1 .. n
    BY DEF NodesIn
  <2>3. \A m \in NodesIn(p) : t[m[1]].used = p[m[1]].used
    BY <1>4, <1>5, <2>2
  <2> QED BY <2>1, <2>3 DEF UsedNodes
<1>8. Exact(t, k)
  <2> SUFFICES ASSUME NEW j \in 1 .. n
               PROVE  t[j].size = Slots - Cardinality(t[j].used) - (IF j = k THEN 1 ELSE 0)
    BY <1>5 DEF Exact
  <2>1. p[j].size = Slots - Cardinality(p[j].used) - 0
    BY DEF Exact
  <2>2. p[j].used \in SUBSET (0 .. Slots - 1)
    BY <1>2 DEF PoolPage
  <2>3. Cardinality(p[j].used) \in Nat /\ Slots \in Nat
    BY <2>2, UsedSlots, PoolAssumption
  <2>4. /\ t[j].size = IF j = k THEN p[j].size - 1 ELSE p[j].size
        /\ t[j].used = p[j].used
    BY <1>4, <1>5
  <2> QED BY <2>1, <2>3, <2>4
<1>9. ASSUME ~Low(p, k) PROVE Roomy(t)
  <2>1. n \in 1 .. n /\ n # 0
    BY <1>1, <1>2
  <2>2. p[n].size \in Int /\ ~p[n].next /\ (p[n].size >= 4 \/ p[n].size = Slots)
        /\ p[n] \in PoolPage
    BY <1>2, <2>1 DEF Roomy, PoolPage
  <2>3. t # <<>>
    BY <1>5, <2>1
  <2>4. CASE n = k
    <3>1. ~(p[k].size - 1 < 4)
      BY <1>9, <2>2, <2>4 DEF Low
    <3>2. p[k].size - 1 >= 4
      BY <1>1, <3>1
    <3>3. t[n].size >= 4 /\ ~t[n].next
      BY <1>4, <1>5, <1>9, <2>1, <2>2, <2>4, <3>2
    <3> QED BY <1>5, <2>3, <3>3 DEF Roomy
  <2>5. CASE n # k
    <3>1. t[n].size = p[n].size /\ t[n].next = p[n].next
      BY <1>4, <1>5, <2>1, <2>5
    <3> QED BY <1>5, <2>2, <2>3, <3>1 DEF Roomy
  <2> QED BY <2>4, <2>5
<1> QED BY <1>5, <1>6, <1>7, <1>8, <1>9 DEF t, k

(* Marking the slot that was counted off makes the counts exact again.     *)
LEMMA ValidateCounts ==
  ASSUME NEW p \in Seq(PoolPage), NEW node \in NodesIn(p),
         node \notin UsedNodes(p), Exact(p, node[1])
  PROVE  LET q == Validate(p, node) IN
         /\ q \in Seq(PoolPage)
         /\ SamePages(q, p)
         /\ UsedNodes(q) = UsedNodes(p) \cup {node}
         /\ Exact(q, 0)
         /\ Roomy(p) => Roomy(q)
<1> DEFINE q == Validate(p, node)
           n == Len(p)
           k == node[1]
           e == [p[k] EXCEPT !.used = @ \cup {node[2]}]
<1>1. /\ n \in Nat /\ k \in 1 .. n /\ node[2] \in 0 .. Slots - 1 /\ node = <<k, node[2]>>
      /\ \A j \in 1 .. n : p[j] \in PoolPage
  BY DEF NodesIn
<1>2. /\ e \in PoolPage /\ e.page = p[k].page /\ e.size = p[k].size /\ e.next = p[k].next
      /\ e.used = p[k].used \cup {node[2]}
  <2> DEFINE rec == p[k]
             u == rec.used \cup {node[2]}
  <2>1. rec \in PoolPage /\ e = [rec EXCEPT !.used = u]
    BY <1>1
  <2>2. u \in SUBSET (0 .. Slots - 1)
    BY <1>1, <2>1, PageFields
  <2> HIDE DEF e, u, rec
  <2>3. /\ e \in PoolPage /\ e.page = rec.page /\ e.used = u
        /\ e.size = rec.size /\ e.next = rec.next
    <3>1. e = [page |-> rec.page, used |-> u, size |-> rec.size, next |-> rec.next]
      BY <2>1 DEF PoolPage
    <3> QED BY <2>1, <2>2, <3>1, PageFields DEF PoolPage
  <2> QED BY <2>3 DEF u, rec
<1>3. q = [p EXCEPT ![k] = e]
  BY DEF Validate
<1> HIDE DEF q, e, k
<1>4. q \in Seq(PoolPage) /\ Len(q) = n
      /\ \A j \in 1 .. n : q[j] = IF j = k THEN e ELSE p[j]
  BY <1>1, <1>2, <1>3, ExceptSeq
<1>5. SamePages(q, p)
  BY <1>2, <1>4 DEF SamePages
<1>6. UsedNodes(q) = UsedNodes(p) \cup {node}
  <2>1. NodesIn(q) = NodesIn(p)
    BY <1>4 DEF NodesIn
  <2>2. ASSUME NEW m \in NodesIn(p)
        PROVE  m[2] \in q[m[1]].used <=> m[2] \in p[m[1]].used \/ m = node
    <3>1. m[1] \in 1 .. n /\ m = <<m[1], m[2]>>
      BY DEF NodesIn
    <3>2. CASE m[1] = k
      BY <1>1, <1>2, <1>4, <3>1, <3>2
    <3>3. CASE m[1] # k
      <4>1. m # node
        BY <3>3 DEF k
      <4> QED BY <1>4, <3>1, <3>3, <4>1
    <3> QED BY <3>2, <3>3
  <2> QED BY <2>1, <2>2 DEF UsedNodes
<1>7. Exact(q, 0)
  <2> SUFFICES ASSUME NEW j \in 1 .. n
               PROVE  q[j].size = Slots - Cardinality(q[j].used) - (IF j = 0 THEN 1 ELSE 0)
    BY <1>4 DEF Exact
  <2>1. p[j].size = Slots - Cardinality(p[j].used) - (IF j = k THEN 1 ELSE 0)
    BY DEF Exact, k
  <2>2. p[j].used \in SUBSET (0 .. Slots - 1)
    BY <1>1 DEF PoolPage
  <2>3. Cardinality(p[j].used) \in Nat /\ IsFiniteSet(p[j].used) /\ Slots \in Nat
    BY <2>2, UsedSlots, PoolAssumption
  <2>4. j # 0
    OBVIOUS
  <2>5. CASE j = k
    <3>1. node[2] \notin p[k].used
      BY DEF UsedNodes, k
    <3>2. Cardinality(p[k].used \cup {node[2]}) = Cardinality(p[k].used) + 1
      BY <2>3, <2>5, <3>1, FS_AddElement
    <3>3. q[j].size = p[k].size /\ q[j].used = p[k].used \cup {node[2]}
      BY <1>2, <1>4, <2>5
    <3> QED BY <2>1, <2>3, <2>4, <2>5, <3>2, <3>3
  <2>6. CASE j # k
    BY <1>4, <2>1, <2>3, <2>4, <2>6
  <2> QED BY <2>5, <2>6
<1>8. ASSUME Roomy(p) PROVE Roomy(q)
  <2>1. q[n].size = p[n].size /\ q[n].next = p[n].next /\ q # <<>>
    <3>1. n \in 1 .. n
      BY <1>1
    <3> QED BY <1>2, <1>4, <3>1
  <2> QED BY <1>4, <1>8, <2>1 DEF Roomy
<1> QED BY <1>4, <1>5, <1>6, <1>7, <1>8 DEF q

(* The first half of vmm_alloc_node: it finds a slot nobody uses, counts it *)
(* off, and marks it as used at once or when the page has been extended.    *)
LEMMA RequestGives ==
  ASSUME NEW p \in Seq(PoolPage), Exact(p, 0), Roomy(p),
         NEW purpose, NEW blk, Request(p, purpose, blk)
  PROVE  /\ pool' \in Seq(PoolPage) /\ SamePages(pool', p)
         /\ \E node \in NodesIn(p) :
              /\ node \notin UsedNodes(p)
              /\ \/ /\ pending' = [for |-> purpose, blk |-> blk, node |-> node,
                                   page |-> 0, wants |-> "page"]
                    /\ UsedNodes(pool') = UsedNodes(p)
                    /\ Exact(pool', node[1])
                 \/ /\ pending' = [for |-> purpose, blk |-> blk, node |-> node,
                                   page |-> 0, wants |-> "nothing"]
                    /\ UsedNodes(pool') = UsedNodes(p) \cup {node}
                    /\ Exact(pool', 0) /\ Roomy(pool')
<1> DEFINE k == Min(WithRoom(p))
           node == <<k, FreeSlot(p, k)>>
           t == Taken(p, k)
<1>1. /\ WithRoom(p) # {} /\ k \in 1 .. Len(p)
      /\ FreeSlot(p, k) \in (0 .. Slots - 1) \ p[k].used
  BY RoomFound
<1>2. /\ t \in Seq(PoolPage) /\ SamePages(t, p) /\ UsedNodes(t) = UsedNodes(p)
      /\ Exact(t, k) /\ (~Low(p, k) => Roomy(t))
  BY TakenCounts
<1>3. /\ pool' = IF Low(p, k) THEN t ELSE Validate(t, node)
      /\ pending' = [for |-> purpose, blk |-> blk, node |-> node, page |-> 0,
                     wants |-> IF Low(p, k) THEN "page" ELSE "nothing"]
  BY <1>1 DEF Request
<1>4. node \in NodesIn(p) /\ node \notin UsedNodes(p) /\ node[1] = k
  BY <1>1 DEF NodesIn, UsedNodes
<1> HIDE DEF k, node, t
<1>5. CASE Low(p, k)
  BY <1>2, <1>3, <1>4, <1>5
<1>6. CASE ~Low(p, k)
  <2>1. node \in NodesIn(t)
    BY <1>2, <1>4 DEF NodesIn, SamePages
  <2>2. /\ Validate(t, node) \in Seq(PoolPage) /\ SamePages(Validate(t, node), t)
        /\ UsedNodes(Validate(t, node)) = UsedNodes(t) \cup {node}
        /\ Exact(Validate(t, node), 0) /\ Roomy(Validate(t, node))
    BY <1>2, <1>4, <1>6, <2>1, ValidateCounts
  <2>3. SamePages(Validate(t, node), p)
    BY <1>2, <2>2 DEF SamePages
  <2> QED BY <1>2, <1>3, <1>4, <1>6, <2>2, <2>3
<1> QED BY <1>5, <1>6

(* vmm_free_node gives the slots back and counts them as free again.       *)
LEMMA ReleaseCounts ==
  ASSUME NEW p \in Seq(PoolPage), NEW off, Exact(p, off),
         NEW nodes \in SUBSET UsedNodes(p)
  PROVE  LET q == Release(p, nodes) IN
         /\ q \in Seq(PoolPage)
         /\ SamePages(q, p)
         /\ UsedNodes(q) = UsedNodes(p) \ nodes
         /\ Exact(q, off)
         /\ Exact(p, 0) /\ Roomy(p) => Roomy(q)
<1> DEFINE q == Release(p, nodes)
           n == Len(p)
           slots(k) == {m[2] : m \in {l \in nodes : l[1] = k}}
           e(k) == [p[k] EXCEPT !.used = @ \ slots(k), !.size = @ + Cardinality(slots(k))]
<1>1. n \in Nat /\ \A k \in 1 .. n : p[k] \in PoolPage
  OBVIOUS
<1>2. \A m \in nodes : m \in NodesIn(p) /\ m[2] \in p[m[1]].used
  BY DEF UsedNodes
<1>3. ASSUME NEW k \in 1 .. n
      PROVE  /\ slots(k) \in SUBSET p[k].used
             /\ p[k].used \in SUBSET (0 .. Slots - 1)
             /\ Cardinality(slots(k)) \in Nat
             /\ Cardinality(p[k].used) \in Nat
             /\ Cardinality(p[k].used \ slots(k))
                  = Cardinality(p[k].used) - Cardinality(slots(k))
             /\ \A m \in NodesIn(p) : m[1] = k => (m[2] \in slots(k) <=> m \in nodes)
  <2>1. p[k].used \in SUBSET (0 .. Slots - 1)
    BY <1>1, PageFields
  <2>2. slots(k) \in SUBSET p[k].used
    BY <1>2
  <2>3. \A m \in NodesIn(p) : m[1] = k => (m[2] \in slots(k) <=> m \in nodes)
    <3>1. \A m \in NodesIn(p) : m = <<m[1], m[2]>>
      BY DEF NodesIn
    <3>2. \A m \in nodes : m = <<m[1], m[2]>>
      BY <1>2, <3>1
    <3> QED BY <3>1, <3>2
  <2> DEFINE u == p[k].used
             s == slots(k)
  <2>4. u \in SUBSET (0 .. Slots - 1) /\ s \in SUBSET u
    BY <2>1, <2>2
  <2> HIDE DEF u, s
  <2>5. IsFiniteSet(u) /\ Cardinality(u) \in Nat
    BY <2>4, UsedSlots
  <2>6. IsFiniteSet(s) /\ Cardinality(s) \in Nat
    <3>1. s \in SUBSET (0 .. Slots - 1)
      BY <2>4
    <3> QED BY <3>1, UsedSlots
  <2>7. Cardinality(u \ s) = Cardinality(u) - Cardinality(u \cap s)
    BY <2>5, FS_Difference
  <2>8. u \cap s = s
    BY <2>4
  <2> QED BY <2>1, <2>2, <2>3, <2>5, <2>6, <2>7, <2>8 DEF u, s
<1>4. q = [k \in 1 .. n |-> e(k)]
  BY DEF Release
<1> HIDE DEF q, slots
<1>5. ASSUME NEW k \in 1 .. n
      PROVE  /\ e(k) \in PoolPage
             /\ e(k).page = p[k].page /\ e(k).used = p[k].used \ slots(k)
             /\ e(k).size = p[k].size + Cardinality(slots(k))
             /\ e(k).next = p[k].next
  <2> DEFINE rec == p[k]
             u == rec.used \ slots(k)
             more == rec.size + Cardinality(slots(k))
  <2>1. rec \in PoolPage /\ e(k) = [rec EXCEPT !.used = u, !.size = more]
    BY <1>1
  <2>2. u \in SUBSET (0 .. Slots - 1) /\ more \in Int
    <3>1. rec.size \in Int
      BY <2>1, PageFields
    <3>2. p[k].used \in SUBSET (0 .. Slots - 1) /\ Cardinality(slots(k)) \in Nat
      BY <1>3
    <3>3. more \in Int
      <4> DEFINE c == Cardinality(slots(k))
      <4>1. c \in Nat
        BY <3>2
      <4> HIDE DEF c, rec
      <4>2. rec.size + c \in Int
        BY <3>1, <4>1
      <4> QED BY <4>2 DEF c
    <3>4. u \in SUBSET (0 .. Slots - 1)
      BY <3>2
    <3> QED BY <3>3, <3>4
  <2> HIDE DEF e, u, rec, more
  <2>3. e(k) = [page |-> rec.page, used |-> u, size |-> more, next |-> rec.next]
    BY <2>1 DEF PoolPage
  <2>4. e(k) \in PoolPage
    BY <2>1, <2>2, <2>3, PageFields DEF PoolPage
  <2>5. e(k).page = rec.page /\ e(k).used = u /\ e(k).size = more /\ e(k).next = rec.next
    BY <2>3
  <2> QED BY <2>4, <2>5 DEF u, rec, more
<1> HIDE DEF e
<1>6. q \in Seq(PoolPage) /\ Len(q) = n /\ \A k \in 1 .. n : q[k] = e(k)
  BY <1>1, <1>4, <1>5
<1>7. SamePages(q, p)
  BY <1>5, <1>6 DEF SamePages
<1>8. UsedNodes(q) = UsedNodes(p) \ nodes
  <2>1. NodesIn(q) = NodesIn(p)
    BY <1>6 DEF NodesIn
  <2>2. ASSUME NEW m \in NodesIn(p)
        PROVE  m[2] \in q[m[1]].used <=> m[2] \in p[m[1]].used /\ m \notin nodes
    <3> DEFINE k == m[1]
    <3>1. k \in 1 .. n
      BY DEF NodesIn
    <3>2. m[2] \in slots(k) <=> m \in nodes
      BY <1>3, <3>1
    <3>3. q[k].used = p[k].used \ slots(k)
      BY <1>5, <1>6, <3>1
    <3> QED BY <3>2, <3>3
  <2> QED BY <2>1, <2>2 DEF UsedNodes
<1>9. Exact(q, off)
  <2> SUFFICES ASSUME NEW k \in 1 .. n
               PROVE  q[k].size = Slots - Cardinality(q[k].used) - (IF k = off THEN 1 ELSE 0)
    BY <1>6 DEF Exact
  <2>1. p[k].size = Slots - Cardinality(p[k].used) - (IF k = off THEN 1 ELSE 0)
    BY DEF Exact
  <2>2. /\ Cardinality(slots(k)) \in Nat /\ Cardinality(p[k].used) \in Nat
        /\ Cardinality(q[k].used) = Cardinality(p[k].used) - Cardinality(slots(k))
        /\ q[k].size = p[k].size + Cardinality(slots(k))
    BY <1>3, <1>5, <1>6
  <2>3. Slots \in Nat
    BY PoolAssumption
  <2> QED BY <2>1, <2>2, <2>3
<1>10. ASSUME Exact(p, 0), Roomy(p) PROVE Roomy(q)
  <2>1. n \in 1 .. n /\ n # 0
    <3>1. p # <<>>
      BY <1>10 DEF Roomy
    <3> QED BY <1>1, <3>1
  <2>2. /\ q[n].size = p[n].size + Cardinality(slots(n))
        /\ q[n].next = p[n].next /\ q # <<>>
        /\ Cardinality(slots(n)) \in Nat /\ slots(n) \in SUBSET p[n].used
        /\ Cardinality(p[n].used) \in Nat /\ p[n].size \in Int
    <3>1. p[n].size \in Int
      BY <1>1, <2>1, PageFields
    <3> QED BY <1>3, <1>5, <1>6, <2>1, <3>1
  <2>3. ~p[n].next /\ (p[n].size >= 4 \/ p[n].size = Slots)
    BY <1>10 DEF Roomy
  <2>4. CASE p[n].size >= 4
    <3>1. q[n].size >= 4
      BY <2>2, <2>4
    <3> QED BY <1>6, <2>2, <2>3, <3>1 DEF Roomy
  <2>5. CASE p[n].size = Slots
    <3>1. Cardinality(p[n].used) = 0
      <4>1. p[n].size = Slots - Cardinality(p[n].used) - (IF n = 0 THEN 1 ELSE 0)
        BY <1>10, <2>1 DEF Exact
      <4>2. Slots \in Nat /\ Cardinality(p[n].used) \in Nat /\ n # 0
        BY <2>1, <2>2, PoolAssumption
      <4> QED BY <2>5, <4>1, <4>2
    <3>2. p[n].used = {}
      <4>1. IsFiniteSet(p[n].used)
        BY <1>3, <2>1, UsedSlots
      <4> QED BY <3>1, <4>1, FS_EmptySet
    <3>3. Cardinality(slots(n)) = 0
      <4>1. slots(n) = {}
        BY <2>2, <3>2
      <4> QED BY <4>1, FS_EmptySet
    <3>4. q[n].size = Slots
      BY <2>2, <2>5, <3>3
    <3> QED BY <1>6, <2>2, <2>3, <3>4 DEF Roomy
  <2> QED BY <2>3, <2>4, <2>5
<1> QED BY <1>6, <1>7, <1>8, <1>9, <1>10 DEF q

(* A fresh page behind the others brings free slots and no used ones.      *)
LEMMA FreshPage ==
  ASSUME NEW page \in Nat
  PROVE  /\ NodePage(page) \in PoolPage
         /\ Exact(<<NodePage(page)>>, 0) /\ Roomy(<<NodePage(page)>>)
         /\ UsedNodes(<<NodePage(page)>>) = {}
<1>1. Slots \in Nat \ {0}
  BY PoolAssumption
<1>2. NodePage(page) \in PoolPage
  BY <1>1 DEF NodePage, PoolPage
<1> DEFINE p == <<NodePage(page)>>
<1>3. Len(p) = 1 /\ p[1] = NodePage(page) /\ p # <<>>
  OBVIOUS
<1>4. NodePage(page).used = {} /\ NodePage(page).size = Slots /\ ~NodePage(page).next
  BY DEF NodePage
<1> HIDE DEF p
<1>5. Exact(p, 0)
  <2>1. Cardinality({}) = 0
    BY FS_EmptySet
  <2>2. p[1].size = Slots - Cardinality(p[1].used) - 0
    BY <1>1, <1>3, <1>4, <2>1
  <2> QED BY <1>3, <2>2 DEF Exact
<1>6. Roomy(p)
  BY <1>3, <1>4 DEF Roomy
<1>7. UsedNodes(p) = {}
  BY <1>3, <1>4 DEF UsedNodes, NodesIn
<1> QED BY <1>2, <1>5, <1>6, <1>7 DEF p

LEMMA AppendPage ==
  ASSUME NEW p \in Seq(PoolPage), Exact(p, 0), NEW page \in Nat
  PROVE  LET q == Append(p, NodePage(page)) IN
         /\ q \in Seq(PoolPage) /\ Len(q) = Len(p) + 1
         /\ \A k \in 1 .. Len(p) : q[k] = p[k]
         /\ q[Len(p) + 1] = NodePage(page)
         /\ NodesIn(p) \subseteq NodesIn(q)
         /\ UsedNodes(q) = UsedNodes(p)
         /\ Exact(q, 0) /\ Roomy(q)
<1> DEFINE q == Append(p, NodePage(page))
           n == Len(p)
<1>1. Slots \in Nat \ {0} /\ n \in Nat
  BY PoolAssumption
<1>2. /\ q \in Seq(PoolPage) /\ Len(q) = n + 1
      /\ \A k \in 1 .. n : q[k] = p[k]
      /\ q[n + 1] = NodePage(page)
  <2> DEFINE e == NodePage(page)
  <2>1. e \in PoolPage
    BY FreshPage
  <2> HIDE DEF e
  <2>2. /\ Append(p, e) \in Seq(PoolPage) /\ Len(Append(p, e)) = n + 1
        /\ \A k \in 1 .. n : Append(p, e)[k] = p[k]
        /\ Append(p, e)[n + 1] = e
    BY <2>1
  <2> QED BY <2>2 DEF e
<1>3. NodePage(page).used = {} /\ NodePage(page).size = Slots /\ ~NodePage(page).next
  BY DEF NodePage
<1> HIDE DEF q
<1>4. NodesIn(p) \subseteq NodesIn(q) /\ \A m \in NodesIn(q) : m \in NodesIn(p) \/ m[1] = n + 1
  BY <1>1, <1>2 DEF NodesIn
<1>5. UsedNodes(q) = UsedNodes(p)
  <2>1. \A m \in NodesIn(p) : q[m[1]] = p[m[1]]
    BY <1>2 DEF NodesIn
  <2>2. \A m \in NodesIn(q) : m[1] = n + 1 => m[2] \notin q[m[1]].used
    BY <1>2, <1>3
  <2> QED BY <1>4, <2>1, <2>2 DEF UsedNodes
<1>6. Exact(q, 0)
  <2> SUFFICES ASSUME NEW k \in 1 .. n + 1
               PROVE  q[k].size = Slots - Cardinality(q[k].used) - (IF k = 0 THEN 1 ELSE 0)
    BY <1>2 DEF Exact
  <2>1. CASE k = n + 1
    <3>1. Cardinality({}) = 0
      BY FS_EmptySet
    <3>2. q[k].size = Slots /\ q[k].used = {} /\ k # 0
      BY <1>1, <1>2, <1>3, <2>1
    <3> QED BY <1>1, <3>1, <3>2
  <2>2. CASE k # n + 1
    <3>1. k \in 1 .. n
      BY <1>1, <2>2
    <3> QED BY <1>2, <3>1 DEF Exact
  <2> QED BY <2>1, <2>2
<1>7. Roomy(q)
  <2>1. q # <<>>
    BY <1>1, <1>2
  <2> QED BY <1>2, <1>3, <2>1 DEF Roomy
<1> QED BY <1>2, <1>4, <1>5, <1>6, <1>7 DEF q

-----------------------------------------------------------------------------
(* Lists of blocks with their nodes.  They are lists of plain blocks with a *)
(* field more, and what was proved of those holds of them: r is like s when *)
(* it differs in the nodes only.                                            *)
NodeBlock(N) == [addr : Nat, size : Nat, type : {0}, node : N]

NodesOf(list) == {list[i].node : i \in 1 .. Len(list)}

(* No two blocks of a list share a node. *)
OwnNodes(list) ==
  \A i, j \in 1 .. Len(list) : list[i].node = list[j].node => i = j

SameBlock(b, c) == b.addr = c.addr /\ b.size = c.size /\ b.type = c.type

Alike(r, s) == Len(r) = Len(s) /\ \A i \in 1 .. Len(r) : SameBlock(r[i], s[i])

PlainBlock(b) == PoolBlock(b.addr, b.size)
Plain(list) == [i \in 1 .. Len(list) |-> PlainBlock(list[i])]

LEMMA PlainBlockOf ==
  ASSUME NEW N, NEW b \in NodeBlock(N)
  PROVE  /\ PlainBlock(b) \in Block({0}) /\ SameBlock(b, PlainBlock(b))
         /\ PagesOf(PlainBlock(b)) = PagesOf(b) /\ b.node \in N
         /\ b.addr \in Nat /\ b.size \in Nat /\ b.type = 0
BY DEF NodeBlock, PlainBlock, PoolBlock, Block, SameBlock, PagesOf, End

LEMMA PlainList ==
  ASSUME NEW N, NEW list \in Seq(NodeBlock(N))
  PROVE  Plain(list) \in List /\ Alike(list, Plain(list))
<1>1. Len(list) \in Nat /\ \A i \in 1 .. Len(list) : list[i] \in NodeBlock(N)
  OBVIOUS
<1>2. \A i \in 1 .. Len(list) : /\ PlainBlock(list[i]) \in Block({0})
                                /\ SameBlock(list[i], PlainBlock(list[i]))
  BY <1>1, PlainBlockOf
<1>3. Plain(list) \in Seq(Block({0})) /\ Len(Plain(list)) = Len(list)
      /\ \A i \in 1 .. Len(list) : Plain(list)[i] = PlainBlock(list[i])
  BY <1>1, <1>2 DEF Plain
<1> QED BY <1>2, <1>3 DEF List, Alike

(* Lists that are alike hold the same pages, merged alike. *)
LEMMA AlikePages ==
  ASSUME NEW r, NEW s, Alike(r, s)
  PROVE  Pages(r) = Pages(s) /\ (Coalesced(r) <=> Coalesced(s))
<1>1. \A i \in 1 .. Len(r) : PagesOf(r[i]) = PagesOf(s[i]) /\ End(r[i]) = End(s[i])
  BY DEF Alike, SameBlock, PagesOf, End
<1> QED BY <1>1 DEF Alike, SameBlock, Pages, Coalesced

-----------------------------------------------------------------------------
(* What becomes of the nodes when a block is changed in place, ...          *)
LEMMA ChangeNode ==
  ASSUME NEW N, NEW list \in Seq(NodeBlock(N)), OwnNodes(list),
         NEW i \in 1 .. Len(list), NEW e \in NodeBlock(N), e.node = list[i].node,
         NEW s \in List, Alike(list, s), NEW f \in Block({0}), SameBlock(e, f)
  PROVE  LET r == [list EXCEPT ![i] = e] IN
         /\ r \in Seq(NodeBlock(N)) /\ OwnNodes(r) /\ NodesOf(r) = NodesOf(list)
         /\ Alike(r, [s EXCEPT ![i] = f])
<1> DEFINE r == [list EXCEPT ![i] = e]
           t == [s EXCEPT ![i] = f]
           n == Len(list)
<1>1. r \in Seq(NodeBlock(N)) /\ Len(r) = n
      /\ \A j \in 1 .. n : r[j] = IF j = i THEN e ELSE list[j]
  BY ExceptSeq
<1>2. s \in Seq(Block({0})) /\ Len(s) = n /\ i \in 1 .. Len(s)
  BY DEF List, Alike
<1>3. Len(t) = n /\ \A j \in 1 .. n : t[j] = IF j = i THEN f ELSE s[j]
  BY <1>2, ExceptSeq
<1> HIDE DEF r, t
<1>4. \A j \in 1 .. n : r[j].node = list[j].node
  BY <1>1
<1>5. OwnNodes(r) /\ NodesOf(r) = NodesOf(list)
  BY <1>1, <1>4 DEF OwnNodes, NodesOf
<1>6. Alike(r, t)
  BY <1>1, <1>3 DEF Alike
<1> QED BY <1>1, <1>5, <1>6 DEF r, t

(* ... taken off, ... *)
LEMMA DropNode ==
  ASSUME NEW N, NEW list \in Seq(NodeBlock(N)), OwnNodes(list),
         NEW i \in 1 .. Len(list), NEW s \in List, Alike(list, s)
  PROVE  LET r == RemoveAt(list, i) IN
         /\ r \in Seq(NodeBlock(N)) /\ OwnNodes(r)
         /\ NodesOf(r) = NodesOf(list) \ {list[i].node}
         /\ Alike(r, RemoveAt(s, i))
<1> DEFINE r == RemoveAt(list, i)
           t == RemoveAt(s, i)
           n == Len(list)
           k(j) == IF j < i THEN j ELSE j + 1
<1>1. n \in Nat /\ i \in 1 .. n
  OBVIOUS
<1>2. r \in Seq(NodeBlock(N)) /\ Len(r) = n - 1
      /\ \A j \in 1 .. n - 1 : r[j] = list[k(j)]
  <2>1. r \in Seq(NodeBlock(N)) /\ Len(r) = n - 1
        /\ \A j \in 1 .. n - 1 : r[j] = IF j < i THEN list[j] ELSE list[j + 1]
    BY RemoveAtElements
  <2> QED BY <2>1
<1>3. Len(t) = n - 1 /\ \A j \in 1 .. n - 1 : t[j] = s[k(j)]
  <2>1. s \in Seq(Block({0})) /\ Len(s) = n /\ i \in 1 .. Len(s)
    BY DEF List, Alike
  <2>2. Len(t) = n - 1
        /\ \A j \in 1 .. n - 1 : t[j] = IF j < i THEN s[j] ELSE s[j + 1]
    BY <2>1, RemoveAtElements
  <2> QED BY <2>2
<1>4. \A j \in 1 .. n - 1 : k(j) \in 1 .. n /\ k(j) # i
  BY <1>1
<1>5. \A j, l \in 1 .. n - 1 : k(j) = k(l) => j = l
  BY <1>1
<1>6. \A j \in 1 .. n : j # i => \E l \in 1 .. n - 1 : k(l) = j
  <2> TAKE j \in 1 .. n
  <2>1. CASE j < i
    <3>1. j \in 1 .. n - 1 /\ k(j) = j
      BY <1>1, <2>1
    <3> QED BY <3>1
  <2>2. CASE j > i
    <3>1. j - 1 \in 1 .. n - 1 /\ k(j - 1) = j
      BY <1>1, <2>2
    <3> QED BY <3>1
  <2> QED BY <1>1, <2>1, <2>2
<1> HIDE DEF r, t, k
<1>7. OwnNodes(r)
  <2> SUFFICES ASSUME NEW j \in 1 .. n - 1, NEW l \in 1 .. n - 1, r[j].node = r[l].node
               PROVE  j = l
    BY <1>2 DEF OwnNodes
  <2>1. list[k(j)].node = list[k(l)].node /\ k(j) \in 1 .. n /\ k(l) \in 1 .. n
    BY <1>2, <1>4
  <2>2. k(j) = k(l)
    BY <2>1 DEF OwnNodes
  <2> QED BY <1>5, <2>2
<1>8. NodesOf(r) = NodesOf(list) \ {list[i].node}
  <2>1. ASSUME NEW j \in 1 .. n - 1
        PROVE  r[j].node \in NodesOf(list) \ {list[i].node}
    <3>1. k(j) \in 1 .. n /\ k(j) # i /\ r[j].node = list[k(j)].node
      BY <1>2, <1>4
    <3>2. list[k(j)].node # list[i].node
      BY <1>1, <3>1 DEF OwnNodes
    <3> QED BY <3>1, <3>2 DEF NodesOf
  <2>2. ASSUME NEW j \in 1 .. n, list[j].node # list[i].node
        PROVE  list[j].node \in NodesOf(r)
    <3>1. PICK l \in 1 .. n - 1 : k(l) = j
      BY <1>6, <2>2
    <3>2. r[l].node = list[j].node
      BY <1>2, <3>1
    <3> QED BY <1>2, <3>2 DEF NodesOf
  <2> QED BY <1>2, <2>1, <2>2 DEF NodesOf
<1>9. Alike(r, t)
  BY <1>2, <1>3, <1>4 DEF Alike
<1> QED BY <1>2, <1>7, <1>8, <1>9 DEF r, t

(* ... or put in: anywhere in the list, or behind it. *)
LEMMA PutNode ==
  ASSUME NEW N, NEW list \in Seq(NodeBlock(N)), OwnNodes(list),
         NEW i \in 1 .. Len(list) + 1, NEW e \in NodeBlock(N), e.node \notin NodesOf(list),
         NEW s \in List, Alike(list, s), NEW f \in Block({0}), SameBlock(e, f)
  PROVE  LET r == InsertAt(list, i, e) IN
         /\ r \in Seq(NodeBlock(N)) /\ OwnNodes(r)
         /\ NodesOf(r) = NodesOf(list) \cup {e.node}
         /\ Alike(r, InsertAt(s, i, f))
<1> DEFINE r == InsertAt(list, i, e)
           t == InsertAt(s, i, f)
           n == Len(list)
           k(j) == IF j < i THEN j ELSE j - 1
<1>1. n \in Nat /\ i \in 1 .. n + 1
  OBVIOUS
<1>2. r \in Seq(NodeBlock(N)) /\ Len(r) = n + 1 /\ r[i] = e
      /\ \A j \in 1 .. n + 1 : j # i => r[j] = list[k(j)]
  <2>1. /\ r \in Seq(NodeBlock(N)) /\ Len(r) = n + 1 /\ r[i] = e
        /\ \A j \in 1 .. i - 1 : r[j] = list[j]
        /\ \A j \in i + 1 .. n + 1 : r[j] = list[j - 1]
    BY InsertAtElements
  <2>2. \A j \in 1 .. n + 1 : j # i =>
          \/ j < i /\ j \in 1 .. i - 1 /\ k(j) = j
          \/ j > i /\ j \in i + 1 .. n + 1 /\ k(j) = j - 1
    BY <1>1
  <2> HIDE DEF r, k
  <2> QED BY <2>1, <2>2
<1>3. Len(t) = n + 1 /\ t[i] = f /\ \A j \in 1 .. n + 1 : j # i => t[j] = s[k(j)]
  <2>1. s \in Seq(Block({0})) /\ Len(s) = n /\ i \in 1 .. Len(s) + 1
    BY DEF List, Alike
  <2>2. /\ Len(t) = n + 1 /\ t[i] = f
        /\ \A j \in 1 .. i - 1 : t[j] = s[j]
        /\ \A j \in i + 1 .. n + 1 : t[j] = s[j - 1]
    BY <2>1, InsertAtElements
  <2>3. \A j \in 1 .. n + 1 : j # i =>
          \/ j < i /\ j \in 1 .. i - 1 /\ k(j) = j
          \/ j > i /\ j \in i + 1 .. n + 1 /\ k(j) = j - 1
    BY <1>1
  <2> HIDE DEF t, k
  <2> QED BY <2>2, <2>3
<1>4. \A j \in 1 .. n + 1 : j # i => k(j) \in 1 .. n
  BY <1>1
<1>5. \A j, l \in 1 .. n + 1 : j # i /\ l # i /\ k(j) = k(l) => j = l
  BY <1>1
<1>6. \A j \in 1 .. n : \E l \in 1 .. n + 1 : l # i /\ k(l) = j
  <2> TAKE j \in 1 .. n
  <2>1. CASE j < i
    <3>1. j \in 1 .. n + 1 /\ k(j) = j /\ j # i
      BY <1>1, <2>1
    <3> QED BY <3>1
  <2>2. CASE j >= i
    <3>1. j + 1 \in 1 .. n + 1 /\ k(j + 1) = j /\ j + 1 # i
      BY <1>1, <2>2
    <3> QED BY <3>1
  <2> QED BY <1>1, <2>1, <2>2
<1> HIDE DEF r, t, k
<1>7. \A j \in 1 .. n + 1 : j # i => r[j].node = list[k(j)].node /\ r[j].node \in NodesOf(list)
  BY <1>2, <1>4 DEF NodesOf
<1>8. OwnNodes(r)
  <2> SUFFICES ASSUME NEW j \in 1 .. n + 1, NEW l \in 1 .. n + 1, r[j].node = r[l].node
               PROVE  j = l
    BY <1>2 DEF OwnNodes
  <2>1. CASE j # i /\ l # i
    <3>1. k(j) = k(l)
      BY <1>4, <1>7, <2>1 DEF OwnNodes
    <3> QED BY <1>5, <2>1, <3>1
  <2>2. CASE j = i \/ l = i
    BY <1>2, <1>7, <2>2
  <2> QED BY <2>1, <2>2
<1>9. NodesOf(r) = NodesOf(list) \cup {e.node}
  <2>1. \A j \in 1 .. n : list[j].node \in NodesOf(r)
    <3> TAKE j \in 1 .. n
    <3>1. PICK l \in 1 .. n + 1 : l # i /\ k(l) = j
      BY <1>6
    <3> QED BY <1>2, <3>1 DEF NodesOf
  <2>2. e.node \in NodesOf(r)
    BY <1>1, <1>2 DEF NodesOf
  <2>3. \A j \in 1 .. n + 1 : r[j].node \in NodesOf(list) \cup {e.node}
    BY <1>2, <1>7
  <2>4. NodesOf(list) \cup {e.node} \subseteq NodesOf(r)
    BY <2>1, <2>2 DEF NodesOf
  <2>5. NodesOf(r) \subseteq NodesOf(list) \cup {e.node}
    <3>1. NodesOf(r) = {r[j].node : j \in 1 .. n + 1}
      BY <1>2 DEF NodesOf
    <3> QED BY <2>3, <3>1
  <2> QED BY <2>4, <2>5
<1>10. Alike(r, t)
  BY <1>2, <1>3, <1>4 DEF Alike
<1> QED BY <1>2, <1>8, <1>9, <1>10 DEF r, t

LEMMA AddNode ==
  ASSUME NEW N, NEW list \in Seq(NodeBlock(N)), OwnNodes(list),
         NEW e \in NodeBlock(N), e.node \notin NodesOf(list),
         NEW s \in List, Alike(list, s), NEW f \in Block({0}), SameBlock(e, f)
  PROVE  LET r == Append(list, e) IN
         /\ r \in Seq(NodeBlock(N)) /\ OwnNodes(r)
         /\ NodesOf(r) = NodesOf(list) \cup {e.node}
         /\ Alike(r, Append(s, f))
<1> DEFINE r == Append(list, e)
           t == Append(s, f)
           n == Len(list)
<1>1. n \in Nat /\ r \in Seq(NodeBlock(N)) /\ Len(r) = n + 1 /\ r[n + 1] = e
      /\ \A j \in 1 .. n : r[j] = list[j]
  OBVIOUS
<1>2. Len(t) = n + 1 /\ t[n + 1] = f /\ \A j \in 1 .. n : t[j] = s[j]
  <2>1. s \in Seq(Block({0})) /\ Len(s) = n
    BY DEF List, Alike
  <2> QED BY <2>1
<1> HIDE DEF r, t
<1>3. \A j \in 1 .. n + 1 : j \in 1 .. n \/ j = n + 1
  BY <1>1
<1>4. \A j \in 1 .. n : r[j].node = list[j].node /\ r[j].node \in NodesOf(list)
  BY <1>1 DEF NodesOf
<1>5. OwnNodes(r)
  BY <1>1, <1>3, <1>4 DEF OwnNodes
<1>6. NodesOf(r) = NodesOf(list) \cup {e.node}
  <2>1. \A j \in 1 .. n : j \in 1 .. n + 1
    BY <1>1
  <2>2. n + 1 \in 1 .. n + 1
    BY <1>1
  <2> QED BY <1>1, <1>3, <1>4, <2>1, <2>2 DEF NodesOf
<1>7. Alike(r, t)
  BY <1>1, <1>2, <1>3 DEF Alike
<1> QED BY <1>1, <1>5, <1>6, <1>7 DEF r, t

-----------------------------------------------------------------------------
(* Alike blocks merge alike. *)
LEMMA AlikeMerge ==
  ASSUME NEW a, NEW b, NEW c, NEW d, SameBlock(a, c), SameBlock(b, d)
  PROVE  /\ CanMerge(a, b) <=> CanMerge(c, d)
         /\ StopsAt(a, b) <=> StopsAt(c, d)
         /\ MergedSize(a, b) = MergedSize(c, d)
BY DEF SameBlock, CanMerge, StopsAt, MergedSize, End

LEMMA MergedBlock ==
  ASSUME NEW N, NEW a \in NodeBlock(N), NEW b \in NodeBlock(N), CanMerge(a, b)
  PROVE  MergedSize(a, b) \in Nat
BY DEF NodeBlock, CanMerge, MergedSize, End

(* A block that changes its size, or its place as well, keeps its node. *)
LEMMA SizedNode ==
  ASSUME NEW N, NEW b \in NodeBlock(N), NEW c \in Block({0}),
         NEW a \in Nat, NEW m \in Nat
  PROVE  LET e == [addr |-> a, size |-> m, type |-> b.type, node |-> b.node]
             g == [addr |-> a, size |-> m, type |-> c.type]
         IN  e \in NodeBlock(N) /\ g \in Block({0}) /\ SameBlock(e, g)
<1>1. b.type = 0 /\ b.node \in N /\ c.type = 0
  BY DEF NodeBlock, Block
<1> QED BY <1>1 DEF NodeBlock, Block, SameBlock

(* pmm_insert_link on nodes: the list and the free nodes share out what was *)
(* on the list before and the node of the block that came.                  *)
NodesSettled(r, list, blk) ==
  /\ OwnNodes(r)
  /\ {b.node : b \in FreedByInsert(list, blk)} \subseteq NodesOf(list) \cup {blk.node}
  /\ NodesOf(r) = (NodesOf(list) \cup {blk.node})
                     \ {b.node : b \in FreedByInsert(list, blk)}

LEMMA AbsorbNodes ==
  ASSUME NEW N, NEW list \in Seq(NodeBlock(N)), OwnNodes(list),
         NEW i \in 1 .. Len(list), NEW blk \in NodeBlock(N), CanMerge(list[i], blk),
         NEW s \in List, Alike(list, s), NEW f \in Block({0}), SameBlock(blk, f)
  PROVE  LET r    == Absorb(list, i, blk)
             more == {k \in {i + 1} \cap 1 .. Len(list) :
                        CanMerge([list[i] EXCEPT !.size = MergedSize(list[i], blk)], list[k])}
         IN  /\ r \in Seq(NodeBlock(N)) /\ OwnNodes(r)
             /\ NodesOf(r) = NodesOf(list) \ {list[k].node : k \in more}
             /\ Alike(r, Absorb(s, i, f))
<1> DEFINE n    == Len(list)
           m    == MergedSize(list[i], blk)
           node == [list[i] EXCEPT !.size = m]
           mate == [s[i] EXCEPT !.size = m]
           more == {k \in {i + 1} \cap 1 .. n : CanMerge(node, list[k])}
<1>1. n \in Nat /\ i \in 1 .. n /\ \A j \in 1 .. n : list[j] \in NodeBlock(N)
  OBVIOUS
<1>2. /\ Len(s) = n /\ \A j \in 1 .. n : s[j] \in Block({0}) /\ SameBlock(list[j], s[j])
  BY DEF List, Alike
<1>3. m \in Nat /\ MergedSize(s[i], f) = m
  BY <1>1, <1>2, MergedBlock, AlikeMerge
<1>4. /\ node \in NodeBlock(N) /\ node.node = list[i].node
      /\ mate \in Block({0}) /\ SameBlock(node, mate)
  <2> DEFINE b == list[i]
             c == s[i]
  <2>1. /\ b \in NodeBlock(N) /\ c \in Block({0}) /\ SameBlock(b, c)
        /\ node = [b EXCEPT !.size = m] /\ mate = [c EXCEPT !.size = m]
    BY <1>1, <1>2
  <2> HIDE DEF b, c, m, node, mate
  <2>2. node = [addr |-> b.addr, size |-> m, type |-> b.type, node |-> b.node]
    BY <2>1 DEF NodeBlock
  <2>3. mate = [addr |-> c.addr, size |-> m, type |-> c.type]
    BY <2>1 DEF Block
  <2>4. b.addr \in Nat /\ c.addr = b.addr
    BY <2>1, PlainBlockOf DEF SameBlock
  <2>5. /\ node \in NodeBlock(N) /\ node.node = b.node
        /\ mate \in Block({0}) /\ SameBlock(node, mate)
    <3>1. LET e == [addr |-> b.addr, size |-> m, type |-> b.type, node |-> b.node]
              g == [addr |-> b.addr, size |-> m, type |-> c.type]
          IN  e \in NodeBlock(N) /\ g \in Block({0}) /\ SameBlock(e, g)
      BY <1>3, <2>1, <2>4, SizedNode
    <3> QED BY <2>2, <2>3, <2>4, <3>1
  <2> QED BY <2>5 DEF b, c
<1>5. CASE i < n /\ CanMerge(node, list[i + 1])
  <2> DEFINE m2  == MergedSize(node, list[i + 1])
             r1  == [list EXCEPT ![i].size = m2]
             t1  == [s EXCEPT ![i].size = m2]
             e   == [list[i] EXCEPT !.size = m2]
             g   == [s[i] EXCEPT !.size = m2]
  <2>1. i + 1 \in 1 .. n /\ i + 1 \in 1 .. Len(list) /\ i + 1 # i
    BY <1>1, <1>5
  <2>2. m2 \in Nat /\ MergedSize(mate, s[i + 1]) = m2 /\ CanMerge(mate, s[i + 1])
    <3> HIDE DEF node, mate
    <3> QED BY <1>1, <1>2, <1>4, <1>5, <2>1, MergedBlock, AlikeMerge
  <2>3. Absorb(list, i, blk) = RemoveAt(r1, i + 1) /\ Absorb(s, i, f) = RemoveAt(t1, i + 1)
    <3>1. Absorb(list, i, blk) = RemoveAt(r1, i + 1)
      BY <1>5 DEF Absorb
    <3>2. Absorb(s, i, f) = RemoveAt(t1, i + 1)
      BY <1>2, <1>3, <1>5, <2>2 DEF Absorb
    <3> QED BY <3>1, <3>2
  <2>4. more = {i + 1}
    BY <1>5, <2>1
  <2>5. /\ e \in NodeBlock(N) /\ e.node = list[i].node
        /\ g \in Block({0}) /\ SameBlock(e, g)
    <3> DEFINE b == list[i]
               c == s[i]
    <3>1. /\ b \in NodeBlock(N) /\ c \in Block({0}) /\ SameBlock(b, c)
          /\ e = [b EXCEPT !.size = m2] /\ g = [c EXCEPT !.size = m2]
      BY <1>1, <1>2
    <3> HIDE DEF b, c, m2, e, g
    <3>2. e = [addr |-> b.addr, size |-> m2, type |-> b.type, node |-> b.node]
      BY <3>1 DEF NodeBlock
    <3>3. g = [addr |-> c.addr, size |-> m2, type |-> c.type]
      BY <3>1 DEF Block
    <3>4. b.addr \in Nat /\ c.addr = b.addr
      BY <3>1, PlainBlockOf DEF SameBlock
    <3>5. /\ e \in NodeBlock(N) /\ e.node = b.node
          /\ g \in Block({0}) /\ SameBlock(e, g)
      <4>1. LET r == [addr |-> b.addr, size |-> m2, type |-> b.type, node |-> b.node]
                q == [addr |-> b.addr, size |-> m2, type |-> c.type]
            IN  r \in NodeBlock(N) /\ q \in Block({0}) /\ SameBlock(r, q)
        BY <2>2, <3>1, <3>4, SizedNode
      <4> QED BY <3>2, <3>3, <3>4, <4>1
    <3> QED BY <3>5 DEF b
  <2>6. r1 = [list EXCEPT ![i] = e] /\ t1 = [s EXCEPT ![i] = g]
    OBVIOUS
  <2> HIDE DEF e, g, m2, node, mate, m
  <2>7. /\ [list EXCEPT ![i] = e] \in Seq(NodeBlock(N)) /\ OwnNodes([list EXCEPT ![i] = e])
        /\ NodesOf([list EXCEPT ![i] = e]) = NodesOf(list)
        /\ Alike([list EXCEPT ![i] = e], [s EXCEPT ![i] = g])
    BY <2>5, ChangeNode
  <2>8. r1 \in Seq(NodeBlock(N)) /\ OwnNodes(r1) /\ NodesOf(r1) = NodesOf(list) /\ Alike(r1, t1)
    BY <2>6, <2>7
  <2>9. Len(r1) = n /\ r1[i + 1] = list[i + 1]
    BY <1>1, <2>1, <2>6
  <2>10. t1 \in List
    <3>1. s \in Seq(Block({0})) /\ i \in 1 .. Len(s)
      BY <1>1, <1>2 DEF List
    <3>2. [s EXCEPT ![i] = g] \in Seq(Block({0}))
      BY <2>5, <3>1
    <3> QED BY <2>6, <3>2 DEF List
  <2> HIDE DEF r1, t1
  <2>11. /\ RemoveAt(r1, i + 1) \in Seq(NodeBlock(N)) /\ OwnNodes(RemoveAt(r1, i + 1))
         /\ NodesOf(RemoveAt(r1, i + 1)) = NodesOf(r1) \ {r1[i + 1].node}
         /\ Alike(RemoveAt(r1, i + 1), RemoveAt(t1, i + 1))
    <3>1. i + 1 \in 1 .. Len(r1)
      BY <2>1, <2>9
    <3> QED BY <2>8, <2>10, <3>1, DropNode
  <2>12. {list[k].node : k \in more} = {list[i + 1].node}
    BY <2>4
  <2> QED BY <2>3, <2>8, <2>9, <2>11, <2>12 DEF node, m
<1>6. CASE ~(i < n /\ CanMerge(node, list[i + 1]))
  <2>1. Absorb(list, i, blk) = [list EXCEPT ![i] = node]
    BY <1>6 DEF Absorb
  <2>2. Absorb(s, i, f) = [s EXCEPT ![i] = mate]
    <3>1. i < n => (CanMerge(mate, s[i + 1]) <=> CanMerge(node, list[i + 1]))
      <4> SUFFICES ASSUME i < n
                   PROVE  CanMerge(mate, s[i + 1]) <=> CanMerge(node, list[i + 1])
        OBVIOUS
      <4>1. i + 1 \in 1 .. n
        BY <1>1
      <4> HIDE DEF node, mate
      <4> QED BY <1>2, <1>4, <4>1, AlikeMerge
    <3>2. ~(i < n /\ CanMerge(mate, s[i + 1]))
      BY <1>6, <3>1
    <3> QED BY <1>2, <1>3, <3>2 DEF Absorb
  <2>3. more = {}
    <3>1. \A k \in {i + 1} \cap 1 .. n : k = i + 1 /\ i < n
      BY <1>1
    <3> HIDE DEF node
    <3> QED BY <1>6, <3>1
  <2>4. {list[k].node : k \in more} = {}
    BY <2>3
  <2> HIDE DEF node, mate, m
  <2>5. /\ [list EXCEPT ![i] = node] \in Seq(NodeBlock(N)) /\ OwnNodes([list EXCEPT ![i] = node])
        /\ NodesOf([list EXCEPT ![i] = node]) = NodesOf(list)
        /\ Alike([list EXCEPT ![i] = node], [s EXCEPT ![i] = mate])
    BY <1>4, ChangeNode
  <2> QED BY <2>1, <2>2, <2>4, <2>5 DEF node, m
<1> QED BY <1>5, <1>6

LEMMA InsertNodes ==
  ASSUME NEW N, NEW list \in Seq(NodeBlock(N)), OwnNodes(list),
         NEW blk \in NodeBlock(N), blk.node \notin NodesOf(list),
         NEW s \in List, Alike(list, s), NEW f \in Block({0}), SameBlock(blk, f)
  PROVE  /\ InsertLink(list, blk) \in Seq(NodeBlock(N))
         /\ NodesSettled(InsertLink(list, blk), list, blk)
         /\ Alike(InsertLink(list, blk), InsertLink(s, f))
<1> DEFINE n == Len(list)
           stops == {j \in 1 .. n : StopsAt(list[j], blk)}
           i == Min(stops)
           freed == {b.node : b \in FreedByInsert(list, blk)}
<1>1. n \in Nat /\ \A j \in 1 .. n : list[j] \in NodeBlock(N)
  OBVIOUS
<1>2. Len(s) = n /\ \A j \in 1 .. n : s[j] \in Block({0}) /\ SameBlock(list[j], s[j])
  BY DEF List, Alike
<1>3. stops = {j \in 1 .. Len(s) : StopsAt(s[j], f)}
  BY <1>2, AlikeMerge
<1>4. CASE stops = {}
  <2>1. InsertLink(list, blk) = Append(list, blk)
    BY <1>4 DEF InsertLink
  <2>2. InsertLink(s, f) = Append(s, f)
    BY <1>3, <1>4 DEF InsertLink
  <2>3. freed = {}
    BY <1>4 DEF FreedByInsert
  <2>4. /\ Append(list, blk) \in Seq(NodeBlock(N)) /\ OwnNodes(Append(list, blk))
        /\ NodesOf(Append(list, blk)) = NodesOf(list) \cup {blk.node}
        /\ Alike(Append(list, blk), Append(s, f))
    BY AddNode
  <2> QED BY <2>1, <2>2, <2>3, <2>4 DEF NodesSettled
<1>5. CASE stops # {}
  <2>1. i \in 1 .. n
    <3>1. stops \in SUBSET (1 .. n)
      OBVIOUS
    <3> HIDE DEF stops
    <3> QED BY <1>1, <1>5, <3>1, FirstPosition
  <2>2. /\ i = Min({j \in 1 .. Len(s) : StopsAt(s[j], f)})
        /\ {j \in 1 .. Len(s) : StopsAt(s[j], f)} # {}
    BY <1>3, <1>5
  <2>3. /\ CanMerge(list[i], blk) <=> CanMerge(s[i], f)
        /\ CanMerge(blk, list[i]) <=> CanMerge(f, s[i])
        /\ MergedSize(blk, list[i]) = MergedSize(f, s[i])
    <3> HIDE DEF i
    <3> QED BY <1>2, <2>1, AlikeMerge
  <2>4. CASE CanMerge(list[i], blk)
    <3> DEFINE m == MergedSize(list[i], blk)
               more == {k \in {i + 1} \cap 1 .. n : CanMerge([list[i] EXCEPT !.size = m], list[k])}
    <3>1. InsertLink(list, blk) = Absorb(list, i, blk)
      BY <1>5, <2>4 DEF InsertLink
    <3>2. InsertLink(s, f) = Absorb(s, i, f)
      BY <1>3, <2>2, <2>3, <2>4 DEF InsertLink
    <3>3. FreedByInsert(list, blk) = {blk} \cup {list[k] : k \in more}
      BY <1>5, <2>4 DEF FreedByInsert
    <3>4. freed = {blk.node} \cup {list[k].node : k \in more}
      BY <3>3
    <3>5. {list[k].node : k \in more} \subseteq NodesOf(list)
      BY DEF NodesOf
    <3> HIDE DEF i
    <3>6. /\ Absorb(list, i, blk) \in Seq(NodeBlock(N)) /\ OwnNodes(Absorb(list, i, blk))
          /\ NodesOf(Absorb(list, i, blk)) = NodesOf(list) \ {list[k].node : k \in more}
          /\ Alike(Absorb(list, i, blk), Absorb(s, i, f))
      BY <2>1, <2>4, AbsorbNodes
    <3> HIDE DEF more
    <3>7. NodesOf(list) \ {list[k].node : k \in more} = (NodesOf(list) \cup {blk.node}) \ freed
      BY <3>4
    <3> QED BY <3>1, <3>2, <3>4, <3>5, <3>6, <3>7 DEF NodesSettled
  <2>5. CASE ~CanMerge(list[i], blk) /\ CanMerge(blk, list[i])
    <3> DEFINE m == MergedSize(blk, list[i])
               e == [list[i] EXCEPT !.addr = blk.addr, !.size = m]
               g == [s[i] EXCEPT !.addr = f.addr, !.size = m]
    <3>1. InsertLink(list, blk) = Extend(list, i, blk)
      BY <1>5, <2>5 DEF InsertLink
    <3>2. InsertLink(s, f) = Extend(s, i, f)
      BY <1>3, <2>2, <2>3, <2>5 DEF InsertLink
    <3>3. FreedByInsert(list, blk) = {blk}
      BY <1>5, <2>5 DEF FreedByInsert
    <3>4. freed = {blk.node}
      BY <3>3
    <3> HIDE DEF i
    <3>5. m \in Nat /\ blk.addr \in Nat /\ f.addr = blk.addr
      <4>1. m \in Nat
        BY <1>1, <2>1, <2>5, MergedBlock
      <4> QED BY <4>1, PlainBlockOf DEF SameBlock
    <3>6. /\ e \in NodeBlock(N) /\ e.node = list[i].node
          /\ g \in Block({0}) /\ SameBlock(e, g)
      <4> DEFINE b == list[i]
                 c == s[i]
                 a == blk.addr
      <4>1. /\ b \in NodeBlock(N) /\ c \in Block({0})
            /\ e = [b EXCEPT !.addr = a, !.size = m] /\ g = [c EXCEPT !.addr = a, !.size = m]
        BY <1>1, <1>2, <2>1, <3>5
      <4>2. a \in Nat
        BY <3>5
      <4> HIDE DEF b, c, a, m, e, g
      <4>3. e = [addr |-> a, size |-> m, type |-> b.type, node |-> b.node]
        BY <4>1 DEF NodeBlock
      <4>4. g = [addr |-> a, size |-> m, type |-> c.type]
        BY <4>1 DEF Block
      <4>5. /\ e \in NodeBlock(N) /\ e.node = b.node
            /\ g \in Block({0}) /\ SameBlock(e, g)
        <5>1. LET r == [addr |-> a, size |-> m, type |-> b.type, node |-> b.node]
                  q == [addr |-> a, size |-> m, type |-> c.type]
              IN  r \in NodeBlock(N) /\ q \in Block({0}) /\ SameBlock(r, q)
          BY <3>5, <4>1, <4>2, SizedNode
        <5> QED BY <4>3, <4>4, <5>1
      <4> QED BY <4>5 DEF b
    <3>7. Extend(list, i, blk) = [list EXCEPT ![i] = e] /\ Extend(s, i, f) = [s EXCEPT ![i] = g]
      BY <2>3 DEF Extend
    <3> HIDE DEF e, g
    <3>8. /\ [list EXCEPT ![i] = e] \in Seq(NodeBlock(N)) /\ OwnNodes([list EXCEPT ![i] = e])
          /\ NodesOf([list EXCEPT ![i] = e]) = NodesOf(list)
          /\ Alike([list EXCEPT ![i] = e], [s EXCEPT ![i] = g])
      BY <2>1, <3>6, ChangeNode
    <3> QED BY <3>1, <3>2, <3>4, <3>7, <3>8 DEF NodesSettled
  <2>6. CASE ~CanMerge(list[i], blk) /\ ~CanMerge(blk, list[i])
    <3>1. InsertLink(list, blk) = InsertAt(list, i, blk)
      BY <1>5, <2>6 DEF InsertLink
    <3>2. InsertLink(s, f) = InsertAt(s, i, f)
      BY <1>3, <2>2, <2>3, <2>6 DEF InsertLink
    <3>3. freed = {}
      BY <1>5, <2>6 DEF FreedByInsert
    <3> HIDE DEF i
    <3>4. i \in 1 .. Len(list) + 1
      BY <1>1, <2>1
    <3>5. /\ InsertAt(list, i, blk) \in Seq(NodeBlock(N)) /\ OwnNodes(InsertAt(list, i, blk))
          /\ NodesOf(InsertAt(list, i, blk)) = NodesOf(list) \cup {blk.node}
          /\ Alike(InsertAt(list, i, blk), InsertAt(s, i, f))
      BY <3>4, PutNode
    <3> QED BY <3>1, <3>2, <3>3, <3>5 DEF NodesSettled
  <2> QED BY <2>4, <2>5, <2>6
<1> QED BY <1>4, <1>5

-----------------------------------------------------------------------------
(* A list of nodes loses and takes pages as the plain list does: a block    *)
(* that shrinks in place, ...                                               *)
LEMMA NodeShrunk ==
  ASSUME NEW N, NEW list \in Seq(NodeBlock(N)), OwnNodes(list), Coalesced(list),
         NEW i \in 1 .. Len(list), NEW e \in NodeBlock(N), e.node = list[i].node,
         e.size > 0, list[i].addr <= e.addr, End(e) <= End(list[i])
  PROVE  LET r == ReplaceAt(list, i, e) IN
         /\ r \in Seq(NodeBlock(N)) /\ OwnNodes(r) /\ NodesOf(r) = NodesOf(list)
         /\ Coalesced(r)
         /\ Pages(r) = Pages(list) \ (PagesOf(list[i]) \ PagesOf(e))
<1> DEFINE r == [list EXCEPT ![i] = e]
           s == Plain(list)
           f == PlainBlock(e)
           t == [s EXCEPT ![i] = f]
<1>1. s \in List /\ Alike(list, s)
  BY PlainList
<1>2. f \in Block({0}) /\ SameBlock(e, f) /\ PagesOf(f) = PagesOf(e)
  BY PlainBlockOf
<1> HIDE DEF s, f
<1>3. /\ r \in Seq(NodeBlock(N)) /\ OwnNodes(r) /\ NodesOf(r) = NodesOf(list)
      /\ Alike(r, t)
  BY <1>1, <1>2, ChangeNode
<1>4. Coalesced(s) /\ Pages(s) = Pages(list)
  BY <1>1, AlikePages
<1>5. /\ i \in 1 .. Len(s) /\ SameBlock(list[i], s[i])
      /\ End(list[i]) = End(s[i]) /\ End(e) = End(f) /\ PagesOf(s[i]) = PagesOf(list[i])
  BY <1>1, <1>2 DEF Alike, SameBlock, End, PagesOf
<1>6. f.size > 0 /\ s[i].addr <= f.addr /\ End(f) <= End(s[i])
  BY <1>2, <1>5 DEF SameBlock
<1>7. /\ t \in List /\ Coalesced(t)
      /\ Pages(t) = Pages(s) \ (PagesOf(s[i]) \ PagesOf(f))
  BY <1>1, <1>2, <1>4, <1>5, <1>6, ShrinkBlock
<1> HIDE DEF r, t
<1>8. Coalesced(r) /\ Pages(r) = Pages(t)
  BY <1>3, <1>7, AlikePages
<1>9. ReplaceAt(list, i, e) = r
  BY DEF ReplaceAt, r
<1> QED BY <1>2, <1>3, <1>4, <1>5, <1>7, <1>8, <1>9

(* ... a block that is taken off, and its node with it, ... *)
LEMMA NodeDropped ==
  ASSUME NEW N, NEW list \in Seq(NodeBlock(N)), OwnNodes(list), Coalesced(list),
         NEW i \in 1 .. Len(list)
  PROVE  LET r == DeleteLink(list, i) IN
         /\ r \in Seq(NodeBlock(N)) /\ OwnNodes(r)
         /\ NodesOf(r) = NodesOf(list) \ {list[i].node}
         /\ Coalesced(r)
         /\ Pages(r) = Pages(list) \ PagesOf(list[i])
<1> DEFINE r == RemoveAt(list, i)
           s == Plain(list)
           t == RemoveAt(s, i)
<1>1. s \in List /\ Alike(list, s)
  BY PlainList
<1> HIDE DEF s
<1>2. /\ r \in Seq(NodeBlock(N)) /\ OwnNodes(r) /\ NodesOf(r) = NodesOf(list) \ {list[i].node}
      /\ Alike(r, t)
  BY <1>1, DropNode
<1>3. Coalesced(s) /\ Pages(s) = Pages(list)
  BY <1>1, AlikePages
<1>4. i \in 1 .. Len(s) /\ PagesOf(s[i]) = PagesOf(list[i])
  BY <1>1 DEF Alike, SameBlock, End, PagesOf
<1>5. t \in List /\ Coalesced(t) /\ Pages(t) = Pages(s) \ PagesOf(s[i])
  BY <1>1, <1>3, <1>4, DropBlock DEF DeleteLink
<1> HIDE DEF r, t
<1>6. Coalesced(r) /\ Pages(r) = Pages(t)
  BY <1>2, <1>5, AlikePages
<1> QED BY <1>2, <1>3, <1>4, <1>5, <1>6 DEF r, DeleteLink

(* ... and a block that pmm_insert_link puts on the list. *)
LEMMA NodeInserted ==
  ASSUME NEW N, NEW list \in Seq(NodeBlock(N)), OwnNodes(list), Coalesced(list),
         NEW blk \in NodeBlock(N), blk.node \notin NodesOf(list), blk.size > 0,
         PagesOf(blk) \cap Pages(list) = {}
  PROVE  LET r == InsertLink(list, blk) IN
         /\ r \in Seq(NodeBlock(N)) /\ NodesSettled(r, list, blk)
         /\ Coalesced(r)
         /\ Pages(r) = Pages(list) \cup PagesOf(blk)
<1> DEFINE r == InsertLink(list, blk)
           s == Plain(list)
           f == PlainBlock(blk)
           t == InsertLink(s, f)
<1>1. s \in List /\ Alike(list, s)
  BY PlainList
<1>2. f \in Block({0}) /\ SameBlock(blk, f) /\ PagesOf(f) = PagesOf(blk)
  BY PlainBlockOf
<1> HIDE DEF s, f
<1>3. /\ r \in Seq(NodeBlock(N)) /\ NodesSettled(r, list, blk)
      /\ Alike(r, t)
  BY <1>1, <1>2, InsertNodes
<1>4. Coalesced(s) /\ Pages(s) = Pages(list)
  BY <1>1, AlikePages
<1>5. s \in Seq(Block({0})) /\ CanTake(s, f)
  BY <1>1, <1>2, <1>4 DEF CanTake, List, SameBlock
<1>6. Coalesced(t) /\ Pages(t) = Pages(s) \cup PagesOf(f)
  BY <1>2, <1>5, InsertLinkPages
<1> HIDE DEF r, t
<1>7. Coalesced(r) /\ Pages(r) = Pages(t)
  BY <1>3, <1>6, AlikePages
<1> QED BY <1>2, <1>3, <1>4, <1>6, <1>7 DEF r

-----------------------------------------------------------------------------
(* The inductive invariant of the node pool.  No two blocks share a node,   *)
(* the slots in use are those of the lists and of the request in progress,  *)
(* and each page counts its free slots exactly, but for the one a growth    *)
(* has counted off.  The last page has room for what a growth takes in      *)
(* between, or is untouched, and no other may be extended again: so a       *)
(* request finds a slot whenever there is a page.                           *)
CountedOff == IF Growing THEN pending.node[1] ELSE 0

NodesSound ==
  /\ OwnNodes(poolMap)
  /\ NodesOf(poolMap) \cap other = {}
  /\ (NodesOf(poolMap) \cup other) \cap WaitingNode = {}
  /\ UsedNodes(pool) = NodesOf(poolMap) \cup other \cup WaitingNode
  /\ Growing => pending.node \notin UsedNodes(pool)
  /\ Exact(pool, CountedOff)
  /\ pool # <<>> /\ ~Growing => Roomy(pool)

(* Before the first region there is nothing yet.                            *)
NothingBefore ==
  pool = <<>> => /\ poolMap = <<>> /\ poolHeld = {} /\ tables = {} /\ other = {}
                 /\ pending \in {Nothing, Panic}

(* A page that was obtained for the pool is known, and a block that waits   *)
(* to be put on the list is not empty.                                      *)
PageObtained ==
  Waiting =>
    /\ pending.wants = "page" => pending.page = 0
    /\ pending.wants \in {"directory", "link"} => pending.page # 0
    /\ pending.for # "other" => pending.blk.size > 0

(* The page a growth has obtained and not linked yet, and those it has. *)
NewPage == IF Growing /\ pending.page # 0 THEN {pending.page} ELSE {}
PagesIn(p) == {p[k].page : k \in 1 .. Len(p)}

(* The free pages, those of the callers, those of the block that waits, the *)
(* pages of nodes, the new one of these and the directories are all         *)
(* different pages ...                                                      *)
Disjoint(list, callers, waiting, nodes, new, dirs) ==
  /\ list \cap callers = {}
  /\ waiting \cap (list \cup callers) = {}
  /\ new \cap nodes = {}
  /\ (nodes \cup new) \cap dirs = {}
  /\ (nodes \cup new \cup dirs) \cap (list \cup callers \cup waiting) = {}

PagesApart ==
  /\ Coalesced(poolMap)
  /\ \A j, k \in 1 .. Len(pool) : pool[j].page = pool[k].page => j = k
  /\ Disjoint(Pages(poolMap), poolHeld, WaitingPages, PagesIn(pool), NewPage, tables)

(* ... of the regions setup_memory has been through. *)
PoolManaged ==
  UNION {PagesOf(PoolRegions[i]) : i \in {j \in 1 .. poolRegion - 1 :
           PoolRegions[j].free /\ PoolRegions[j].addr >= PoolLowLimit}}

PagesManaged ==
  Pages(poolMap) \cup poolHeld \cup WaitingPages \cup PagesIn(pool) \cup NewPage \cup tables
    \subseteq PoolManaged

PoolInv ==
  /\ PoolTypeOK /\ NodesSound /\ NothingBefore
  /\ PageObtained /\ PanicHonest /\ PagesApart /\ PagesManaged

-----------------------------------------------------------------------------
(* Nothing waits while the allocator is idle.                               *)
LEMMA IdleNothing ==
  ASSUME Idle
  PROVE  /\ ~Waiting /\ ~Growing /\ CountedOff = 0
         /\ WaitingNode = {} /\ WaitingPages = {} /\ NewPage = {}
         /\ pending.for \notin {"split", "free"}
BY DEF Idle, Waiting, Growing, CountedOff, WaitingNode, WaitingPages, NewPage

LEMMA IdleAgain ==
  ASSUME pending' = Nothing
  PROVE  /\ ~Waiting' /\ ~Growing' /\ CountedOff' = 0 /\ ~Stopped'
         /\ WaitingNode' = {} /\ WaitingPages' = {} /\ NewPage' = {}
         /\ PageObtained'
         /\ pending'.for \notin {"split", "free"}
<1>1. pending'.for = "nothing"
  BY DEF Nothing
<1>2. ~Waiting'
  BY <1>1 DEF Waiting
<1>3. pending' # Panic
  BY <1>1 DEF Panic
<1>4. ~Growing' /\ ~Stopped' /\ WaitingPages' = {} /\ PageObtained'
  BY <1>2, <1>3, Zenon DEF Growing, Stopped, WaitingPages, PageObtained
<1>5. CountedOff' = 0 /\ WaitingNode' = {} /\ NewPage' = {}
  BY <1>2, <1>4 DEF CountedOff, WaitingNode, NewPage
<1> QED BY <1>1, <1>2, <1>4, <1>5

(* What waits is a request for a node, with its block and the slot found.   *)
Requests ==
  [for : {"region", "split", "free", "other"}, blk : Block({0}), node : Node, page : Nat,
   wants : {"page", "directory", "link", "nothing", "memory"}]

LEMMA WaitingRequest ==
  ASSUME PoolTypeOK, Waiting
  PROVE  /\ pending \in Requests
         /\ pending.for \in {"region", "split", "free", "other"}
         /\ pending.blk \in Block({0}) /\ pending.node \in NodesIn(pool) /\ pending.page \in Nat
         /\ pending.wants \in {"page", "directory", "link", "nothing", "memory"}
         /\ WaitingPages = PagesOf(pending.blk)
<1>1. pending \notin {Nothing, Panic}
  BY DEF Waiting, Nothing, Panic
<1>2. pending \in {Nothing, Panic} \/ pending \in Requests
  BY Zenon DEF PoolTypeOK, Requests
<1>3. pending \in Requests
  BY <1>1, <1>2
<1>4. Node = NodesIn(pool)
  BY DEF Node, NodesIn
<1>5. /\ pending.for \in {"region", "split", "free", "other"}
      /\ pending.blk \in Block({0}) /\ pending.node \in Node /\ pending.page \in Nat
      /\ pending.wants \in {"page", "directory", "link", "nothing", "memory"}
  BY <1>3, Zenon DEF Requests
<1> QED BY <1>3, <1>4, <1>5, Zenon DEF WaitingPages

(* The shape of the state, by the operators on lists and pools.             *)
LEMMA PoolShape ==
  ASSUME PoolTypeOK
  PROVE  /\ pool \in Seq(PoolPage) /\ poolMap \in Seq(NodeBlock(NodesIn(pool)))
         /\ poolHeld \in SUBSET Nat /\ tables \in SUBSET Nat
         /\ other \in SUBSET NodesIn(pool)
         /\ poolRegion \in 1 .. Len(PoolRegions) + 1
<1>1. Node = NodesIn(pool)
  BY DEF Node, NodesIn
<1>2. pool \in Seq(PoolPage)
  BY Zenon DEF PoolTypeOK, PoolPage
<1>3. poolMap \in Seq(NodeBlock(Node))
  BY Zenon DEF PoolTypeOK, NodeBlock
<1>4. /\ poolHeld \in SUBSET Nat /\ tables \in SUBSET Nat /\ other \in SUBSET Node
      /\ poolRegion \in 1 .. Len(PoolRegions) + 1
  BY Zenon DEF PoolTypeOK
<1> QED BY <1>1, <1>2, <1>3, <1>4

LEMMA PoolShapeAgain ==
  ASSUME pool' \in Seq(PoolPage), poolMap' \in Seq(NodeBlock(NodesIn(pool'))),
         poolHeld' \in SUBSET Nat, tables' \in SUBSET Nat,
         other' \in SUBSET NodesIn(pool'),
         poolRegion' \in 1 .. Len(PoolRegions) + 1,
         pending' \in {Nothing, Panic} \cup Requests'
  PROVE  PoolTypeOK'
<1>1. Node' = NodesIn(pool')
  BY DEF Node, NodesIn
<1>2. pool' \in Seq([page : Nat, used : SUBSET (0 .. Slots - 1), size : Int, next : BOOLEAN])
  BY Zenon DEF PoolPage
<1>3. poolMap' \in Seq([addr : Nat, size : Nat, type : {0}, node : Node'])
  BY <1>1, Zenon DEF NodeBlock
<1>4. poolHeld' \subseteq Nat /\ tables' \subseteq Nat /\ other' \subseteq Node'
  BY <1>1
<1>5. \/ pending' \in {Nothing, Panic}
      \/ pending' \in [for : {"region", "split", "free", "other"}, blk : Block({0}),
                        node : Node', page : Nat,
                        wants : {"page", "directory", "link", "nothing", "memory"}]
  BY Zenon DEF Requests
<1> QED BY <1>2, <1>3, <1>4, <1>5, Zenon DEF PoolTypeOK

(* Pools of the same pages have the same nodes.                             *)
LEMMA SameNodes ==
  ASSUME NEW q, NEW p, SamePages(q, p)
  PROVE  /\ NodesIn(q) = NodesIn(p) /\ PagesIn(q) = PagesIn(p)
         /\ (\A j, k \in 1 .. Len(p) : p[j].page = p[k].page => j = k)
              => \A j, k \in 1 .. Len(q) : q[j].page = q[k].page => j = k
BY DEF SamePages, NodesIn, PagesIn

-----------------------------------------------------------------------------
(* An operation that asks for a node, with the slots in use accounted for,  *)
(* waits with a slot nobody uses: whichever operation it is.                *)
LEMMA RequestKeeps ==
  ASSUME NEW p \in Seq(PoolPage), Exact(p, 0), Roomy(p),
         NEW purpose \in {"region", "split", "free", "other"},
         NEW blk \in Block({0}), purpose # "other" => blk.size > 0,
         Request(p, purpose, blk),
         poolMap' \in Seq(NodeBlock(NodesIn(p))), OwnNodes(poolMap'),
         other' \in SUBSET NodesIn(p), NodesOf(poolMap') \cap other' = {},
         UsedNodes(p) = NodesOf(poolMap') \cup other',
         poolHeld' \in SUBSET Nat, tables' \in SUBSET Nat,
         poolRegion' \in 1 .. Len(PoolRegions) + 1
  PROVE  /\ PoolTypeOK' /\ NodesSound' /\ NothingBefore' /\ PageObtained' /\ PanicHonest'
         /\ SamePages(pool', p)
         /\ WaitingPages' = PagesOf(blk) /\ NewPage' = {} /\ pending'.for = purpose
<1>1. pool' \in Seq(PoolPage) /\ SamePages(pool', p)
  BY RequestGives
<1>2. PICK node \in NodesIn(p) :
        /\ node \notin UsedNodes(p)
        /\ \/ /\ pending' = [for |-> purpose, blk |-> blk, node |-> node,
                             page |-> 0, wants |-> "page"]
              /\ UsedNodes(pool') = UsedNodes(p)
              /\ Exact(pool', node[1])
           \/ /\ pending' = [for |-> purpose, blk |-> blk, node |-> node,
                             page |-> 0, wants |-> "nothing"]
              /\ UsedNodes(pool') = UsedNodes(p) \cup {node}
              /\ Exact(pool', 0) /\ Roomy(pool')
  BY RequestGives
<1>3. PICK wants \in {"page", "nothing"} :
        /\ pending' = [for |-> purpose, blk |-> blk, node |-> node, page |-> 0, wants |-> wants]
        /\ wants = "page" => UsedNodes(pool') = UsedNodes(p) /\ Exact(pool', node[1])
        /\ wants = "nothing" => /\ UsedNodes(pool') = UsedNodes(p) \cup {node}
                                /\ Exact(pool', 0) /\ Roomy(pool')
  <2>1. "page" # "nothing"
    OBVIOUS
  <2> QED BY <1>2, <2>1
<1> HIDE <1>2
<1>4. NodesIn(pool') = NodesIn(p)
  BY <1>1, SameNodes
<1>5. /\ pending'.for = purpose /\ pending'.blk = blk /\ pending'.node = node
      /\ pending'.page = 0 /\ pending'.wants = wants
  BY <1>3
<1>6. pending' \in Requests'
  <2>1. node \in Node'
    BY <1>4 DEF Node, NodesIn
  <2>2. [for |-> purpose, blk |-> blk, node |-> node, page |-> 0, wants |-> wants]
          \in [for : {"region", "split", "free", "other"}, blk : Block({0}), node : Node',
               page : Nat, wants : {"page", "directory", "link", "nothing", "memory"}]
    BY <2>1
  <2> QED BY <1>3, <2>2 DEF Requests
<1>7. PoolTypeOK'
  BY <1>1, <1>4, <1>6, PoolShapeAgain
<1>8. Waiting' /\ (Growing' <=> wants = "page") /\ ~Stopped'
  <2>1. Waiting'
    BY <1>5 DEF Waiting
  <2>2. pending' # Panic
    BY <1>5 DEF Panic
  <2>3. Growing' <=> wants = "page"
    BY <1>5, <2>1 DEF Growing
  <2> QED BY <1>5, <2>1, <2>2, <2>3 DEF Stopped
<1>9. WaitingPages' = PagesOf(blk) /\ NewPage' = {}
  BY <1>5, <1>8 DEF WaitingPages, NewPage
<1>10. /\ CountedOff' = IF wants = "page" THEN node[1] ELSE 0
       /\ WaitingNode' = IF wants = "page" THEN {} ELSE {node}
  BY <1>5, <1>8 DEF CountedOff, WaitingNode
<1>11. NodesSound'
  <2>1. (NodesOf(poolMap') \cup other') \cap WaitingNode' = {}
    BY <1>2, <1>10
  <2>2. UsedNodes(pool') = NodesOf(poolMap') \cup other' \cup WaitingNode'
    BY <1>3, <1>10
  <2>3. Growing' => pending'.node \notin UsedNodes(pool')
    BY <1>2, <1>3, <1>5, <1>8
  <2>4. Exact(pool', CountedOff')
    BY <1>3, <1>10
  <2>5. ~Growing' => Roomy(pool')
    BY <1>3, <1>8
  <2> QED BY <2>1, <2>2, <2>3, <2>4, <2>5 DEF NodesSound
<1>12. NothingBefore'
  <2>1. p # <<>>
    BY DEF Roomy
  <2>2. pool' # <<>>
    BY <1>1, <2>1 DEF SamePages
  <2> QED BY <2>2 DEF NothingBefore
<1>13. PageObtained' /\ PanicHonest'
  BY <1>5, <1>8 DEF PageObtained, PanicHonest
<1> QED BY <1>1, <1>5, <1>7, <1>9, <1>11, <1>12, <1>13

(* Slots that are given back, while nothing is being handed out or the pool *)
(* is growing: those of the list, or one of another list.                   *)
LEMMA ReleaseKeeps ==
  ASSUME PoolTypeOK, NodesSound, NEW nodes \in SUBSET UsedNodes(pool),
         pool' = Release(pool, nodes)
  PROVE  /\ pool' \in Seq(PoolPage) /\ SamePages(pool', pool)
         /\ NodesIn(pool') = NodesIn(pool) /\ PagesIn(pool') = PagesIn(pool)
         /\ UsedNodes(pool') = UsedNodes(pool) \ nodes
         /\ Exact(pool', CountedOff)
         /\ pool # <<>> /\ ~Growing => Roomy(pool')
<1>1. pool \in Seq(PoolPage) /\ Exact(pool, CountedOff)
  BY PoolShape DEF NodesSound
<1>2. /\ pool' \in Seq(PoolPage) /\ SamePages(pool', pool)
      /\ UsedNodes(pool') = UsedNodes(pool) \ nodes
      /\ Exact(pool', CountedOff)
      /\ Exact(pool, 0) /\ Roomy(pool) => Roomy(pool')
  BY <1>1, ReleaseCounts
<1>3. ~Growing => CountedOff = 0
  BY DEF CountedOff
<1>4. pool # <<>> /\ ~Growing => Roomy(pool')
  BY <1>1, <1>2, <1>3 DEF NodesSound
<1> QED BY <1>2, <1>4, SameNodes

(* Pages that are all different stay so when the pool keeps its pages.      *)
LEMMA PagesStayApart ==
  ASSUME PagesApart, SamePages(pool', pool), Coalesced(poolMap'),
         Disjoint(Pages(poolMap'), poolHeld', WaitingPages', PagesIn(pool), NewPage', tables')
  PROVE  PagesApart'
<1>1. /\ PagesIn(pool') = PagesIn(pool)
      /\ \A j, k \in 1 .. Len(pool') : pool'[j].page = pool'[k].page => j = k
  BY SameNodes DEF PagesApart
<1> QED BY <1>1 DEF PagesApart

-----------------------------------------------------------------------------
(* The map loses pages and perhaps a block, whose node goes back.           *)
MapCut ==
  /\ poolMap' \in Seq(NodeBlock(NodesIn(pool))) /\ OwnNodes(poolMap') /\ Coalesced(poolMap')
  /\ NodesOf(poolMap') \subseteq NodesOf(poolMap)
  /\ pool' \in Seq(PoolPage) /\ SamePages(pool', pool)
  /\ UsedNodes(pool') = UsedNodes(pool) \ (NodesOf(poolMap) \ NodesOf(poolMap'))
  /\ Exact(pool', CountedOff)
  /\ pool # <<>> /\ ~Growing => Roomy(pool')

LEMMA DropCuts ==
  ASSUME PoolTypeOK, NodesSound, Coalesced(poolMap), NEW i \in 1 .. Len(poolMap),
         poolMap' = DeleteLink(poolMap, i), pool' = Release(pool, {poolMap[i].node})
  PROVE  MapCut /\ Pages(poolMap') = Pages(poolMap) \ PagesOf(poolMap[i])
<1> DEFINE node == poolMap[i].node
<1>1. poolMap \in Seq(NodeBlock(NodesIn(pool))) /\ OwnNodes(poolMap)
  BY PoolShape DEF NodesSound
<1>2. /\ poolMap' \in Seq(NodeBlock(NodesIn(pool))) /\ OwnNodes(poolMap')
      /\ NodesOf(poolMap') = NodesOf(poolMap) \ {node}
      /\ Coalesced(poolMap')
      /\ Pages(poolMap') = Pages(poolMap) \ PagesOf(poolMap[i])
  BY <1>1, NodeDropped
<1>3. node \in NodesOf(poolMap)
  BY DEF NodesOf
<1>4. {node} \in SUBSET UsedNodes(pool)
  BY <1>3 DEF NodesSound
<1> HIDE DEF node
<1>5. pool' = Release(pool, {node})
  BY DEF node
<1>6. /\ pool' \in Seq(PoolPage) /\ SamePages(pool', pool)
      /\ UsedNodes(pool') = UsedNodes(pool) \ {node}
      /\ Exact(pool', CountedOff)
      /\ pool # <<>> /\ ~Growing => Roomy(pool')
  BY <1>4, <1>5, ReleaseKeeps
<1>7. NodesOf(poolMap) \ NodesOf(poolMap') = {node}
  BY <1>2, <1>3
<1> QED BY <1>2, <1>6, <1>7 DEF MapCut

LEMMA ShrinkCuts ==
  ASSUME PoolTypeOK, NodesSound, Coalesced(poolMap), NEW i \in 1 .. Len(poolMap),
         NEW e \in NodeBlock(NodesIn(pool)), e.node = poolMap[i].node, e.size > 0,
         poolMap[i].addr <= e.addr, End(e) <= End(poolMap[i]),
         poolMap' = ReplaceAt(poolMap, i, e), pool' = pool
  PROVE  /\ MapCut /\ NodesOf(poolMap') = NodesOf(poolMap)
         /\ Pages(poolMap') = Pages(poolMap) \ (PagesOf(poolMap[i]) \ PagesOf(e))
<1>1. /\ poolMap \in Seq(NodeBlock(NodesIn(pool))) /\ OwnNodes(poolMap)
      /\ pool \in Seq(PoolPage)
  BY PoolShape DEF NodesSound
<1>2. /\ poolMap' \in Seq(NodeBlock(NodesIn(pool))) /\ OwnNodes(poolMap')
      /\ NodesOf(poolMap') = NodesOf(poolMap)
      /\ Coalesced(poolMap')
      /\ Pages(poolMap') = Pages(poolMap) \ (PagesOf(poolMap[i]) \ PagesOf(e))
  BY <1>1, NodeShrunk
<1>3. SamePages(pool', pool)
  BY DEF SamePages
<1> QED BY <1>1, <1>2, <1>3 DEF MapCut, NodesSound

(* A cut keeps the nodes accounted for, whatever waits.                     *)
LEMMA CutKeeps ==
  ASSUME NodesSound, MapCut, other' = other, WaitingNode' = WaitingNode,
         Growing' <=> Growing, Growing => pending'.node = pending.node,
         pool # <<>>
  PROVE  NodesSound' /\ pool' # <<>>
<1>1. CountedOff' = CountedOff
  BY DEF CountedOff
<1>2. UsedNodes(pool') = NodesOf(poolMap') \cup other' \cup WaitingNode'
  <2>1. /\ NodesOf(poolMap') \subseteq NodesOf(poolMap)
        /\ UsedNodes(pool') = UsedNodes(pool) \ (NodesOf(poolMap) \ NodesOf(poolMap'))
    BY DEF MapCut
  <2>2. /\ UsedNodes(pool) = NodesOf(poolMap) \cup other \cup WaitingNode
        /\ NodesOf(poolMap) \cap other = {} /\ (NodesOf(poolMap) \cup other) \cap WaitingNode = {}
    BY DEF NodesSound
  <2> QED BY <2>1, <2>2
<1>3. /\ NodesOf(poolMap') \cap other' = {}
      /\ (NodesOf(poolMap') \cup other') \cap WaitingNode' = {}
  BY DEF MapCut, NodesSound
<1>4. Growing' => pending'.node \notin UsedNodes(pool')
  BY DEF MapCut, NodesSound
<1>5. OwnNodes(poolMap') /\ Exact(pool', CountedOff') /\ (~Growing' => Roomy(pool'))
  BY <1>1 DEF MapCut
<1>6. pool' # <<>>
  BY DEF MapCut, SamePages
<1> QED BY <1>2, <1>3, <1>4, <1>5, <1>6 DEF NodesSound

(* The block vmm_alloc takes from holds the pages it answers.               *)
LEMMA FirstFitNode ==
  ASSUME NEW N, NEW list \in Seq(NodeBlock(N)),
         NEW count \in Nat \ {0}, NEW align \in Nat \ {0},
         Fitting(list, count, align) # {}
  PROVE  LET i     == FirstFit(list, count, align)
             start == RoundUp(list[i].addr, align)
         IN  /\ i \in 1 .. Len(list)
             /\ start \in Nat
             /\ list[i].addr <= start
             /\ start + count <= End(list[i])
<1> DEFINE i == FirstFit(list, count, align)
<1>1. Len(list) \in Nat /\ Fitting(list, count, align) \in SUBSET (1 .. Len(list))
  BY DEF Fitting
<1>2. i \in Fitting(list, count, align)
  BY <1>1, FirstPosition DEF FirstFit
<1> HIDE DEF i
<1>3. i \in 1 .. Len(list) /\ Fits(list[i], count, align)
  BY <1>2 DEF Fitting
<1>4. list[i].addr \in Nat
  <2>1. list[i] \in NodeBlock(N)
    BY <1>3
  <2> QED BY <2>1, PlainBlockOf
<1> QED BY <1>3, <1>4, RoundUpBound DEF Fits, i

(* A block that keeps its front, or its end.                                *)
Sized(b, size) == [b EXCEPT !.size = size]
Moved(b, addr, size) == [b EXCEPT !.addr = addr, !.size = size]

LEMMA FrontKept ==
  ASSUME NEW N, NEW b \in NodeBlock(N), NEW start \in Nat,
         b.addr < start, start <= End(b)
  PROVE  LET e == Sized(b, start - b.addr) IN
         /\ e \in NodeBlock(N) /\ e.node = b.node /\ e.size > 0
         /\ b.addr <= e.addr /\ End(e) <= End(b)
         /\ PagesOf(b) \ PagesOf(e) = start .. (End(b) - 1)
<1> DEFINE m == start - b.addr
           e == Sized(b, m)
<1>1. b.addr \in Nat /\ b.size \in Nat /\ b.type \in {0} /\ b.node \in N /\ End(b) \in Nat
      /\ End(b) = b.addr + b.size
  BY DEF NodeBlock, End
<1>2. m \in Nat /\ m > 0 /\ b.addr + m = start
  BY <1>1
<1> HIDE DEF m
<1>3. e = [addr |-> b.addr, size |-> m, type |-> b.type, node |-> b.node]
  BY DEF NodeBlock, Sized
<1>4. e \in NodeBlock(N)
  BY <1>1, <1>2, <1>3 DEF NodeBlock
<1>5. e.addr = b.addr /\ e.size = m /\ e.node = b.node
  BY <1>3
<1> HIDE DEF e
<1>6. End(e) = start
  BY <1>2, <1>5 DEF End
<1>7. PagesOf(b) \ PagesOf(e) = start .. (End(b) - 1)
  <2>1. PagesOf(e) = b.addr .. (start - 1) /\ PagesOf(b) = b.addr .. (End(b) - 1)
    BY <1>5, <1>6 DEF PagesOf
  <2> QED BY <1>1, <2>1
<1>8. b.addr <= e.addr /\ End(e) <= End(b) /\ e.size > 0
  BY <1>1, <1>2, <1>5, <1>6
<1> QED BY <1>4, <1>5, <1>7, <1>8 DEF e, m

LEMMA BackKept ==
  ASSUME NEW N, NEW b \in NodeBlock(N), NEW stop \in Nat,
         b.addr <= stop, stop < End(b)
  PROVE  LET e == Moved(b, stop, End(b) - stop) IN
         /\ e \in NodeBlock(N) /\ e.node = b.node /\ e.size > 0
         /\ b.addr <= e.addr /\ End(e) <= End(b)
         /\ PagesOf(b) \ PagesOf(e) = b.addr .. (stop - 1)
<1> DEFINE m == End(b) - stop
           c == [b EXCEPT !.addr = stop]
           e == Moved(b, stop, m)
<1>1. b.addr \in Nat /\ b.size \in Nat /\ b.type \in {0} /\ b.node \in N /\ End(b) \in Nat
      /\ End(b) = b.addr + b.size
  BY DEF NodeBlock, End
<1>2. m \in Nat /\ m > 0 /\ stop + m = End(b)
  BY <1>1
<1> HIDE DEF m
<1>3. e = [addr |-> stop, size |-> m, type |-> b.type, node |-> b.node]
  <2>1. e = [c EXCEPT !.size = m]
    BY DEF Moved
  <2>2. c = [addr |-> stop, size |-> b.size, type |-> b.type, node |-> b.node]
    BY DEF NodeBlock
  <2> HIDE DEF e, c
  <2> QED BY <2>1, <2>2
<1>4. e \in NodeBlock(N)
  BY <1>1, <1>2, <1>3 DEF NodeBlock
<1>5. e.addr = stop /\ e.size = m /\ e.node = b.node
  BY <1>3
<1> HIDE DEF e
<1>6. End(e) = End(b)
  BY <1>2, <1>5 DEF End
<1>7. PagesOf(b) \ PagesOf(e) = b.addr .. (stop - 1)
  <2>1. PagesOf(e) = stop .. (End(b) - 1) /\ PagesOf(b) = b.addr .. (End(b) - 1)
    BY <1>5, <1>6 DEF PagesOf
  <2> QED BY <1>1, <2>1
<1>8. b.addr <= e.addr /\ End(e) <= End(b) /\ e.size > 0
  BY <1>1, <1>2, <1>5, <1>6
<1> QED BY <1>4, <1>5, <1>7, <1>8 DEF e, m

(* A run inside a block: the ends of both, and the run that is all of it.   *)
LEMMA RunInside ==
  ASSUME NEW N, NEW b \in NodeBlock(N), NEW start \in Nat, NEW count \in Nat \ {0},
         b.addr <= start, start + count <= End(b)
  PROVE  /\ b.addr \in Nat /\ End(b) \in Nat /\ start + count \in Nat
         /\ start .. (start + count - 1) \subseteq PagesOf(b)
         /\ start .. (start + count - 1) \subseteq Nat
         /\ start \in start .. (start + count - 1)
         /\ start + count - 1 \in start .. (start + count - 1)
         /\ start = b.addr /\ start + count = End(b) => PagesOf(b) = start .. (start + count - 1)
<1>1. b.addr \in Nat /\ b.size \in Nat
  BY DEF NodeBlock
<1> DEFINE stop == End(b)
<1>2. stop \in Nat /\ PagesOf(b) = b.addr .. (stop - 1)
  BY <1>1 DEF PagesOf, End
<1> HIDE DEF stop
<1>3. start + count <= stop
  BY DEF stop
<1>4. start .. (start + count - 1) \subseteq PagesOf(b)
  BY <1>1, <1>2, <1>3
<1>5. start = b.addr /\ start + count = stop => PagesOf(b) = start .. (start + count - 1)
  BY <1>1, <1>2
<1> QED BY <1>1, <1>2, <1>4, <1>5 DEF stop

-----------------------------------------------------------------------------
(* What the page allocator of the callers sees: the pages of nodes and the  *)
(* directories are held, and a block that was theirs until it is on the     *)
(* list again.                                                              *)
HeldBlock == IF pending.for \in {"split", "free"} THEN WaitingPages ELSE {}

LEMMA HeldOnes ==
  /\ HeldPages = poolHeld \cup PagesIn(pool) \cup NewPage \cup tables \cup HeldBlock
  /\ HeldPages' = poolHeld' \cup PagesIn(pool') \cup NewPage' \cup tables' \cup HeldBlock'
<1>1. HeldPages = poolHeld \cup PagesIn(pool) \cup NewPage \cup tables \cup HeldBlock
  BY DEF HeldPages, PoolPages, PagesIn, NewPage, HeldBlock
<1>2. HeldPages' = poolHeld' \cup PagesIn(pool') \cup NewPage' \cup tables' \cup HeldBlock'
  BY DEF HeldPages, PoolPages, PagesIn, NewPage, HeldBlock
<1> QED BY <1>1, <1>2

(* The pages in use are pages of the machine, and of its regions so far.    *)
LEMMA InPoolMachine ==
  ASSUME PoolTypeOK
  PROVE  PoolManaged \subseteq PoolMachine
<1>1. poolRegion \in 1 .. Len(PoolRegions) + 1 /\ Len(PoolRegions) \in Nat
  BY PoolShape, PoolAssumption
<1>2. 1 .. poolRegion - 1 \subseteq 1 .. Len(PoolRegions)
  BY <1>1
<1> QED BY <1>2 DEF PoolManaged, PoolMachine

(* An idle step cuts pages that nothing needs a node for: they go to their  *)
(* caller.                                                                  *)
LEMMA AllocAtEndKeeps ==
  ASSUME PoolInv, NEW count \in PoolCounts, NEW align \in PoolAlignments,
         AllocAtEnd(count, align)
  PROVE  PoolInv' /\ AbstractPool!Next
<1> DEFINE i == FirstFit(poolMap, count, align)
           b == poolMap[i]
           start == RoundUp(b.addr, align)
           run == start .. (start + count - 1)
           left == start - b.addr
           right == End(b) - (start + count)
           N == NodesIn(pool)
<1>1. /\ Ready /\ Fitting(poolMap, count, align) # {}
      /\ left = 0 \/ right = 0
      /\ IF left = 0 /\ right = 0
         THEN poolMap' = DeleteLink(poolMap, i) /\ pool' = Release(pool, {b.node})
         ELSE /\ poolMap' = IF left # 0
                            THEN [poolMap EXCEPT ![i].size = left]
                            ELSE [poolMap EXCEPT ![i].addr = start + count, ![i].size = right]
              /\ pool' = pool
      /\ poolHeld' = poolHeld \cup run
      /\ tables' = tables /\ other' = other /\ pending' = pending /\ poolRegion' = poolRegion
  BY DEF AllocAtEnd
<1>2. /\ PoolTypeOK /\ NodesSound /\ NothingBefore /\ PageObtained /\ PanicHonest
      /\ PagesApart /\ PagesManaged /\ Coalesced(poolMap)
  BY DEF PoolInv, PagesApart
<1>3. /\ poolMap \in Seq(NodeBlock(N)) /\ count \in Nat \ {0} /\ align \in Nat \ {0}
  BY <1>2, PoolShape, PoolAssumption
<1>4. /\ i \in 1 .. Len(poolMap) /\ start \in Nat /\ b.addr <= start /\ start + count <= End(b)
  BY <1>1, <1>3, FirstFitNode
<1>5. b \in NodeBlock(N) /\ PagesOf(b) \subseteq Pages(poolMap)
  BY <1>3, <1>4 DEF Pages
<1>6. /\ b.addr \in Nat /\ End(b) \in Nat /\ start + count \in Nat
      /\ run \subseteq PagesOf(b) /\ run \subseteq Nat
      /\ start \in run /\ start + count - 1 \in run
      /\ start = b.addr /\ start + count = End(b) => PagesOf(b) = run
  <2> HIDE DEF b, start
  <2> QED BY <1>3, <1>4, <1>5, RunInside
<1> DEFINE stop == start + count
<1> HIDE DEF i, start, N, b, run
<1>7. run = start .. (stop - 1)
  BY <1>3, <1>4 DEF stop, run
<1>8. b.addr \in Nat /\ End(b) \in Nat /\ start \in Nat /\ stop \in Nat
      /\ b.addr <= start /\ start < stop /\ stop <= End(b)
  BY <1>3, <1>4, <1>6
<1> HIDE DEF stop
<1>9. MapCut /\ Pages(poolMap') = Pages(poolMap) \ run
  <2>1. CASE left = 0 /\ right = 0
    <3>1. MapCut /\ Pages(poolMap') = Pages(poolMap) \ PagesOf(poolMap[i])
      BY <1>1, <1>2, <1>4, <2>1, DropCuts DEF b
    <3>2. start = b.addr /\ stop = End(b)
      BY <1>8, <2>1 DEF stop
    <3> QED BY <1>6, <3>1, <3>2 DEF b, stop
  <2>2. CASE left # 0 /\ right = 0
    <3> DEFINE e == Sized(b, start - b.addr)
    <3>1. b.addr < start /\ stop = End(b) /\ start <= End(b)
      BY <1>8, <2>2 DEF stop
    <3>2. /\ e \in NodeBlock(N) /\ e.node = b.node /\ e.size > 0
          /\ b.addr <= e.addr /\ End(e) <= End(b)
          /\ PagesOf(b) \ PagesOf(e) = start .. (End(b) - 1)
      BY <1>4, <1>5, <3>1, FrontKept
    <3>3. poolMap' = ReplaceAt(poolMap, i, e) /\ pool' = pool
      BY <1>1, <2>2 DEF ReplaceAt, Sized, b
    <3> HIDE DEF e
    <3>4. MapCut /\ Pages(poolMap') = Pages(poolMap) \ (PagesOf(b) \ PagesOf(e))
      BY <1>2, <1>4, <3>2, <3>3, ShrinkCuts DEF N, b
    <3>5. PagesOf(b) \ PagesOf(e) = run
      BY <1>7, <3>1, <3>2
    <3> QED BY <3>4, <3>5
  <2>3. CASE left = 0 /\ right # 0
    <3> DEFINE e == Moved(b, stop, End(b) - stop)
    <3>1. start = b.addr /\ stop < End(b) /\ b.addr <= stop
      BY <1>8, <2>3 DEF stop
    <3>2. /\ e \in NodeBlock(N) /\ e.node = b.node /\ e.size > 0
          /\ b.addr <= e.addr /\ End(e) <= End(b)
          /\ PagesOf(b) \ PagesOf(e) = b.addr .. (stop - 1)
      BY <1>8, <1>5, <3>1, BackKept
    <3>3. poolMap' = ReplaceAt(poolMap, i, e) /\ pool' = pool
      BY <1>1, <2>3 DEF ReplaceAt, Moved, b, stop
    <3> HIDE DEF e
    <3>4. MapCut /\ Pages(poolMap') = Pages(poolMap) \ (PagesOf(b) \ PagesOf(e))
      BY <1>2, <1>4, <3>2, <3>3, ShrinkCuts DEF N, b
    <3>5. PagesOf(b) \ PagesOf(e) = run
      BY <1>7, <3>1, <3>2
    <3> QED BY <3>4, <3>5
  <2> QED BY <1>1, <2>1, <2>2, <2>3
<1>10. run \subseteq Pages(poolMap) /\ run \subseteq Nat /\ start \in run
      /\ start + count - 1 \in run
  BY <1>5, <1>6
<1>11. Idle /\ Idle' /\ pool # <<>>
  <2>1. Idle /\ Idle'
    BY <1>1 DEF Ready, Idle
  <2>2. poolMap # <<>>
    BY <1>4
  <2> QED BY <1>2, <2>1, <2>2 DEF NothingBefore
<1> HIDE DEF left, right
<1>12. /\ ~Waiting /\ ~Growing /\ WaitingNode = {} /\ WaitingPages = {} /\ NewPage = {}
       /\ HeldBlock = {}
       /\ ~Waiting' /\ ~Growing' /\ WaitingNode' = {} /\ WaitingPages' = {} /\ NewPage' = {}
       /\ HeldBlock' = {}
  BY <1>11 DEF Idle, Waiting, Growing, WaitingNode, WaitingPages, NewPage, HeldBlock
<1>13. NodesSound' /\ pool' # <<>>
  BY <1>1, <1>2, <1>9, <1>11, <1>12, CutKeeps
<1>14. /\ pool' \in Seq(PoolPage) /\ SamePages(pool', pool) /\ Coalesced(poolMap')
       /\ poolMap' \in Seq(NodeBlock(NodesIn(pool'))) /\ NodesIn(pool') = NodesIn(pool)
       /\ PagesIn(pool') = PagesIn(pool)
  BY <1>9, SameNodes DEF MapCut
<1>15. PoolTypeOK'
  <2>1. pending' \in {Nothing, Panic} \cup Requests'
    <3>1. Requests' = Requests
      BY <1>14 DEF Requests, Node, NodesIn
    <3> QED BY <1>1, <1>2, <3>1 DEF PoolTypeOK, Requests
  <2> QED BY <1>1, <1>2, <1>10, <1>14, <2>1, PoolShape, PoolShapeAgain
<1>16. NothingBefore' /\ PageObtained' /\ PanicHonest'
  <2>1. pending' # Panic
    BY <1>11 DEF Idle, Panic
  <2> QED BY <1>12, <1>13, <2>1 DEF NothingBefore, PageObtained, PanicHonest, Stopped
<1>17. PagesApart'
  <2>1. Disjoint(Pages(poolMap'), poolHeld', WaitingPages', PagesIn(pool), NewPage', tables')
    BY <1>1, <1>2, <1>9, <1>10, <1>12 DEF PagesApart, Disjoint
  <2> QED BY <1>2, <1>14, <2>1, PagesStayApart
<1>18. PagesManaged'
  <2>1. PoolManaged' = PoolManaged
    BY <1>1 DEF PoolManaged
  <2> QED BY <1>1, <1>2, <1>9, <1>10, <1>12, <1>14, <2>1 DEF PagesManaged
<1>19. AbstractPool!Next
  <2>1. /\ Pages(poolMap') = Pages(poolMap) \ run
        /\ HeldPages' = HeldPages \cup run
    BY <1>1, <1>9, <1>12, <1>14, HeldOnes
  <2>2. AbstractPool!Take(start, start + count - 1)
    BY <1>10, <2>1 DEF AbstractPool!Take, run
  <2>3. start \in PoolMachine /\ start + count - 1 \in PoolMachine
    BY <1>2, <1>10, InPoolMachine DEF PagesManaged
  <2> QED BY <2>2, <2>3 DEF AbstractPool!Next
<1> QED BY <1>13, <1>15, <1>16, <1>17, <1>18, <1>19 DEF PoolInv

(* ... pages out of the middle of a block leave a block behind that waits   *)
(* for its node, and is the caller's until it has it.                       *)
LEMMA AllocInsideKeeps ==
  ASSUME PoolInv, NEW count \in PoolCounts, NEW align \in PoolAlignments,
         AllocInside(count, align)
  PROVE  PoolInv' /\ AbstractPool!Next
<1> DEFINE i == FirstFit(poolMap, count, align)
           b == poolMap[i]
           start == RoundUp(b.addr, align)
           run == start .. (start + count - 1)
           left == start - b.addr
           right == End(b) - (start + count)
           stop == start + count
           last == End(b) - 1
           rest == PoolBlock(start + count, right)
           e == Sized(b, left)
           N == NodesIn(pool)
<1>1. /\ Ready /\ Fitting(poolMap, count, align) # {}
      /\ left # 0 /\ right # 0
      /\ poolMap' = [poolMap EXCEPT ![i].size = left]
      /\ poolHeld' = poolHeld \cup run
      /\ Request(pool, "split", rest)
      /\ tables' = tables /\ other' = other /\ poolRegion' = poolRegion
  BY DEF AllocInside
<1>2. /\ PoolTypeOK /\ NodesSound /\ NothingBefore /\ PageObtained /\ PanicHonest
      /\ PagesApart /\ PagesManaged /\ Coalesced(poolMap)
  BY DEF PoolInv, PagesApart
<1>3. /\ poolMap \in Seq(NodeBlock(N)) /\ count \in Nat \ {0} /\ align \in Nat \ {0}
      /\ pool \in Seq(PoolPage) /\ OwnNodes(poolMap)
  BY <1>2, PoolShape, PoolAssumption DEF NodesSound
<1>4. /\ i \in 1 .. Len(poolMap) /\ start \in Nat /\ b.addr <= start /\ start + count <= End(b)
  BY <1>1, <1>3, FirstFitNode
<1>5. b \in NodeBlock(N) /\ PagesOf(b) \subseteq Pages(poolMap)
  BY <1>3, <1>4 DEF Pages
<1>6. poolMap' = ReplaceAt(poolMap, i, e)
  BY <1>1 DEF ReplaceAt, Sized
<1>7. /\ b.addr \in Nat /\ End(b) \in Nat /\ start + count \in Nat
      /\ run \subseteq PagesOf(b) /\ run \subseteq Nat
  <2> HIDE DEF b, start
  <2> QED BY <1>3, <1>4, <1>5, RunInside
<1> HIDE DEF i, start, N, b
<1>8. /\ b.addr < start /\ start < stop /\ start <= End(b) /\ stop <= last
      /\ last \in Nat /\ stop \in Nat
  <2>1. b.addr \in Nat /\ End(b) \in Nat /\ start \in Nat /\ count \in Nat \ {0}
    BY <1>3, <1>4, <1>7
  <2>2. left # 0 /\ right # 0 /\ b.addr <= start /\ start + count <= End(b)
    BY <1>1, <1>4
  <2> QED BY <2>1, <2>2
<1>9. /\ e \in NodeBlock(N) /\ e.node = b.node /\ e.size > 0
      /\ b.addr <= e.addr /\ End(e) <= End(b)
      /\ PagesOf(b) \ PagesOf(e) = start .. last
  BY <1>4, <1>5, <1>8, FrontKept
<1> HIDE DEF e
<1>10. /\ poolMap' \in Seq(NodeBlock(N)) /\ OwnNodes(poolMap')
       /\ NodesOf(poolMap') = NodesOf(poolMap) /\ Coalesced(poolMap')
       /\ Pages(poolMap') = Pages(poolMap) \ (start .. last)
  BY <1>2, <1>3, <1>4, <1>6, <1>9, NodeShrunk DEF b
<1>11. /\ rest \in Block({0}) /\ rest.size > 0 /\ PagesOf(rest) = stop .. last
  <2>1. right \in Nat /\ right > 0 /\ stop + right = End(b) /\ stop \in Nat
    <3>1. b.addr \in Nat /\ End(b) \in Nat /\ start \in Nat /\ count \in Nat \ {0}
      BY <1>3, <1>4, <1>7
    <3>2. right # 0 /\ start + count <= End(b)
      BY <1>1, <1>4
    <3> QED BY <3>1, <3>2
  <2> DEFINE end == End(b)
  <2> HIDE DEF right, stop, end
  <2>2. rest = [addr |-> stop, size |-> right, type |-> 0]
    BY DEF rest, PoolBlock, stop
  <2>3. rest.addr = stop /\ rest.size = right /\ rest \in Block({0})
    BY <2>1, <2>2 DEF Block
  <2> HIDE DEF rest
  <2>4. PagesOf(rest) = stop .. (end - 1)
    BY <2>1, <2>3 DEF PagesOf, End, end
  <2> QED BY <2>1, <2>3, <2>4 DEF end
<1> DEFINE cut == start .. last
<1>12. /\ run \cup PagesOf(rest) = cut /\ run \cap PagesOf(rest) = {}
       /\ cut \subseteq Pages(poolMap) /\ start \in cut /\ last \in cut /\ run \subseteq Nat
  <2>1. start \in Nat /\ count \in Nat /\ last \in Nat /\ stop <= last /\ count > 0
    BY <1>3, <1>4, <1>8
  <2> HIDE DEF last
  <2>2. run \cup (stop .. last) = cut /\ run \cap (stop .. last) = {}
        /\ start \in cut /\ last \in cut
    BY <2>1
  <2>3. cut \subseteq Pages(poolMap)
    BY <1>5, <1>9
  <2> QED BY <1>7, <1>11, <2>2, <2>3
<1> HIDE DEF rest, left, right, run, stop, cut, last
<1>13. Idle /\ pool # <<>> /\ ~Waiting /\ ~Growing /\ CountedOff = 0
       /\ WaitingNode = {} /\ WaitingPages = {} /\ NewPage = {} /\ HeldBlock = {}
  <2>1. Idle
    BY <1>1 DEF Ready
  <2>2. poolMap # <<>>
    BY <1>3, <1>4
  <2> QED BY <1>2, <2>1, <2>2, IdleNothing DEF NothingBefore, HeldBlock
<1>14. /\ PoolTypeOK' /\ NodesSound' /\ NothingBefore' /\ PageObtained' /\ PanicHonest'
       /\ SamePages(pool', pool)
       /\ WaitingPages' = PagesOf(rest) /\ NewPage' = {} /\ pending'.for = "split"
  <2>1. /\ Exact(pool, 0) /\ Roomy(pool)
        /\ UsedNodes(pool) = NodesOf(poolMap') \cup other'
        /\ NodesOf(poolMap') \cap other' = {}
    BY <1>1, <1>2, <1>10, <1>13 DEF NodesSound
  <2>2. /\ poolMap' \in Seq(NodeBlock(NodesIn(pool))) /\ other' \in SUBSET NodesIn(pool)
        /\ poolHeld' \in SUBSET Nat /\ tables' \in SUBSET Nat
        /\ poolRegion' \in 1 .. Len(PoolRegions) + 1
    BY <1>1, <1>2, <1>10, <1>12, PoolShape DEF N
  <2>3. "split" \in {"region", "split", "free", "other"} /\ pool \in Seq(PoolPage)
    BY <1>3
  <2> QED BY <1>1, <1>10, <1>11, <2>1, <2>2, <2>3, RequestKeeps
<1>15. PagesIn(pool') = PagesIn(pool) /\ HeldBlock' = PagesOf(rest)
  BY <1>14, SameNodes DEF HeldBlock
<1>16. PagesApart'
  <2>1. Disjoint(Pages(poolMap'), poolHeld', WaitingPages', PagesIn(pool), NewPage', tables')
    BY <1>1, <1>2, <1>10, <1>12, <1>13, <1>14 DEF PagesApart, Disjoint, cut
  <2> QED BY <1>2, <1>10, <1>14, <2>1, PagesStayApart
<1>17. PagesManaged'
  <2>1. PoolManaged' = PoolManaged
    BY <1>1 DEF PoolManaged
  <2>2. Pages(poolMap') \subseteq Pages(poolMap) /\ PagesOf(rest) \subseteq Pages(poolMap)
        /\ run \subseteq Pages(poolMap)
    BY <1>10, <1>12
  <2>3. Pages(poolMap) \cup poolHeld \cup PagesIn(pool) \cup tables \subseteq PoolManaged
    BY <1>2 DEF PagesManaged
  <2>4. Pages(poolMap') \cup (poolHeld \cup run) \cup PagesOf(rest) \cup PagesIn(pool)
          \cup {} \cup tables \subseteq PoolManaged
    BY <2>2, <2>3
  <2> QED BY <1>1, <1>14, <1>15, <2>1, <2>4 DEF PagesManaged
<1>18. AbstractPool!Next
  <2>1. /\ Pages(poolMap') = Pages(poolMap) \ cut
        /\ HeldPages' = HeldPages \cup cut
    BY <1>1, <1>10, <1>12, <1>13, <1>14, <1>15, HeldOnes DEF cut
  <2>2. AbstractPool!Take(start, last)
    BY <1>12, <2>1 DEF AbstractPool!Take, cut
  <2>3. start \in PoolMachine /\ last \in PoolMachine
    BY <1>2, <1>12, InPoolMachine DEF PagesManaged
  <2> QED BY <2>2, <2>3 DEF AbstractPool!Next
<1> QED BY <1>14, <1>16, <1>17, <1>18 DEF PoolInv

(* vmm_free: the pages stay held until the block is on the list. *)
LEMMA PoolFreeKeeps ==
  ASSUME PoolInv, NEW addr \in poolHeld, NEW count \in PoolCounts, PoolFree(addr, count)
  PROVE  PoolInv' /\ UNCHANGED AbstractPool!vars
<1> DEFINE run == addr .. (addr + count - 1)
           blk == PoolBlock(addr, count)
<1>1. /\ Ready /\ run \subseteq poolHeld
      /\ poolHeld' = poolHeld \ run
      /\ Request(pool, "free", blk)
      /\ poolMap' = poolMap /\ tables' = tables /\ other' = other /\ poolRegion' = poolRegion
  BY DEF PoolFree
<1>2. /\ PoolTypeOK /\ NodesSound /\ NothingBefore /\ PagesApart /\ PagesManaged
      /\ Coalesced(poolMap)
  BY DEF PoolInv, PagesApart
<1>3. /\ poolMap \in Seq(NodeBlock(NodesIn(pool))) /\ pool \in Seq(PoolPage)
      /\ count \in Nat \ {0} /\ addr \in Nat
      /\ poolHeld \in SUBSET Nat /\ tables \in SUBSET Nat /\ other \in SUBSET NodesIn(pool)
      /\ poolRegion \in 1 .. Len(PoolRegions) + 1
  BY <1>2, PoolShape, PoolAssumption
<1>4. blk \in Block({0}) /\ blk.size > 0 /\ PagesOf(blk) = run
  BY <1>3 DEF PoolBlock, Block, PagesOf, End
<1>5. pool # <<>>
  BY <1>2 DEF NothingBefore
<1>6. /\ ~Waiting /\ ~Growing /\ CountedOff = 0
      /\ WaitingNode = {} /\ WaitingPages = {} /\ NewPage = {} /\ HeldBlock = {}
  BY <1>1, IdleNothing DEF Ready, HeldBlock
<1> HIDE DEF run, blk
<1>7. /\ PoolTypeOK' /\ NodesSound' /\ NothingBefore' /\ PageObtained' /\ PanicHonest'
      /\ SamePages(pool', pool)
      /\ WaitingPages' = PagesOf(blk) /\ NewPage' = {} /\ pending'.for = "free"
  <2>1. /\ Exact(pool, 0) /\ Roomy(pool) /\ OwnNodes(poolMap')
        /\ UsedNodes(pool) = NodesOf(poolMap') \cup other'
        /\ NodesOf(poolMap') \cap other' = {}
    BY <1>1, <1>2, <1>5, <1>6 DEF NodesSound
  <2>2. /\ poolMap' \in Seq(NodeBlock(NodesIn(pool))) /\ other' \in SUBSET NodesIn(pool)
        /\ poolHeld' \in SUBSET Nat /\ tables' \in SUBSET Nat
        /\ poolRegion' \in 1 .. Len(PoolRegions) + 1
    BY <1>1, <1>3
  <2>3. "free" \in {"region", "split", "free", "other"} /\ pool \in Seq(PoolPage)
    BY <1>3
  <2> QED BY <1>1, <1>4, <2>1, <2>2, <2>3, RequestKeeps
<1>8. PagesIn(pool') = PagesIn(pool) /\ HeldBlock' = PagesOf(blk)
  BY <1>7, SameNodes DEF HeldBlock
<1>9. PagesApart'
  <2>1. Disjoint(Pages(poolMap'), poolHeld', WaitingPages', PagesIn(pool), NewPage', tables')
    BY <1>1, <1>2, <1>4, <1>6, <1>7 DEF PagesApart, Disjoint
  <2> QED BY <1>1, <1>2, <1>7, <2>1, PagesStayApart
<1>10. PagesManaged'
  <2>1. PoolManaged' = PoolManaged
    BY <1>1 DEF PoolManaged
  <2> QED BY <1>1, <1>2, <1>4, <1>6, <1>7, <1>8, <2>1 DEF PagesManaged
<1>11. UNCHANGED AbstractPool!vars
  <2>1. HeldPages' = HeldPages
    BY <1>1, <1>4, <1>6, <1>7, <1>8, HeldOnes
  <2> QED BY <1>1, <2>1 DEF AbstractPool!vars
<1> QED BY <1>7, <1>9, <1>10, <1>11 DEF PoolInv

-----------------------------------------------------------------------------
(* While the pool grows: how far the request has come, ...                  *)
Goes(request, page, wants) == [request EXCEPT !.page = page, !.wants = wants]

SameRequest(s, r, page, wants) ==
  /\ s \in Requests /\ s.for = r.for /\ s.blk = r.blk /\ s.node = r.node
  /\ s.page = page /\ s.wants = wants

LEMMA RequestGoes ==
  ASSUME NEW r \in Requests, NEW page \in Nat,
         NEW wants \in {"page", "directory", "link", "nothing", "memory"}
  PROVE  SameRequest(Goes(r, page, wants), r, page, wants)
<1> DEFINE s == Goes(r, page, wants)
           t == [r EXCEPT !.page = page]
<1>1. t = [for |-> r.for, blk |-> r.blk, node |-> r.node, page |-> page, wants |-> r.wants]
  BY DEF Requests
<1>2. s = [t EXCEPT !.wants = wants]
  BY DEF Goes
<1> HIDE DEF s, t
<1>3. s = [for |-> r.for, blk |-> r.blk, node |-> r.node, page |-> page, wants |-> wants]
  BY <1>1, <1>2
<1>4. /\ r.for \in {"region", "split", "free", "other"} /\ r.blk \in Block({0})
      /\ r.node \in Node
  BY DEF Requests
<1>5. s \in Requests
  BY <1>3, <1>4 DEF Requests
<1> QED BY <1>3, <1>5 DEF s, SameRequest

LEMMA RequestTurns ==
  ASSUME NEW r \in Requests, NEW wants
  PROVE  [r EXCEPT !.wants = wants] = Goes(r, r.page, wants)
<1> DEFINE t == [r EXCEPT !.page = r.page]
<1>1. t = r
  BY DEF Requests
<1>2. Goes(r, r.page, wants) = [t EXCEPT !.wants = wants]
  BY DEF Goes
<1> QED BY <1>1, <1>2

(* ... and the page it takes from the head of the list.                     *)
LEMMA HeadTaken ==
  ASSUME PoolTypeOK, NodesSound, Coalesced(poolMap), poolMap # <<>>, TakeHead
  PROVE  /\ MapCut
         /\ poolMap[1].addr \in Nat /\ poolMap[1].addr \in Pages(poolMap)
         /\ Pages(poolMap') = Pages(poolMap) \ {poolMap[1].addr}
<1> DEFINE b == poolMap[1]
           N == NodesIn(pool)
           stop == b.addr + 1
           e == Moved(b, stop, End(b) - stop)
<1>1. poolMap \in Seq(NodeBlock(N))
  BY PoolShape
<1>2. 1 \in 1 .. Len(poolMap) /\ b \in NodeBlock(N)
  BY <1>1
<1>3. b.addr \in Nat /\ b.size \in Nat /\ b.size > 0
  BY <1>2, PlainBlockOf DEF Coalesced
<1>4. PagesOf(b) \subseteq Pages(poolMap) /\ b.addr \in PagesOf(b)
  BY <1>2, <1>3 DEF Pages, PagesOf, End
<1>5. CASE b.size = 1
  <2>1. MapCut /\ Pages(poolMap') = Pages(poolMap) \ PagesOf(poolMap[1])
    BY <1>2, <1>5, DropCuts DEF TakeHead
  <2>2. PagesOf(b) = {b.addr}
    BY <1>3, <1>5 DEF PagesOf, End
  <2> QED BY <1>3, <1>4, <2>1, <2>2
<1>6. CASE b.size # 1
  <2>1. stop \in Nat /\ b.addr <= stop /\ stop < End(b) /\ End(b) - stop = b.size - 1
    BY <1>3, <1>6 DEF End
  <2>2. /\ poolMap' = [poolMap EXCEPT ![1].addr = b.addr + 1, ![1].size = b.size - 1]
        /\ pool' = pool
    <3>1. /\ poolMap' = [poolMap EXCEPT ![1].addr = @ + 1, ![1].size = @ - 1]
          /\ pool' = pool
      BY <1>6 DEF TakeHead
    <3> QED BY <1>2, <3>1 DEF NodeBlock
  <2>3. poolMap' = ReplaceAt(poolMap, 1, e)
    BY <1>2, <2>1, <2>2 DEF ReplaceAt, Moved
  <2> HIDE DEF stop
  <2>4. /\ e \in NodeBlock(N) /\ e.node = b.node /\ e.size > 0
        /\ b.addr <= e.addr /\ End(e) <= End(b)
        /\ PagesOf(b) \ PagesOf(e) = b.addr .. (stop - 1)
    <3> HIDE DEF b, N
    <3> QED BY <1>2, <2>1, BackKept
  <2> HIDE DEF e
  <2>5. MapCut /\ Pages(poolMap') = Pages(poolMap) \ (PagesOf(poolMap[1]) \ PagesOf(e))
    BY <1>2, <2>2, <2>3, <2>4, ShrinkCuts
  <2>6. b.addr .. (stop - 1) = {b.addr}
    BY <1>3 DEF stop
  <2> QED BY <1>3, <1>4, <2>4, <2>5, <2>6
<1> QED BY <1>5, <1>6

(* Page 0 is no page of the pool: setup_memory takes none below LowLimit.   *)
LEMMA NoPageZero ==
  ASSUME PoolTypeOK
  PROVE  0 \notin PoolManaged
<1>1. SUFFICES ASSUME NEW i \in 1 .. poolRegion - 1, PoolRegions[i].addr >= PoolLowLimit,
                      0 \in PagesOf(PoolRegions[i])
               PROVE  FALSE
  BY DEF PoolManaged
<1>2. poolRegion \in 1 .. Len(PoolRegions) + 1 /\ Len(PoolRegions) \in Nat
      /\ PoolLowLimit \in Nat \ {0}
  BY PoolShape, PoolAssumption
<1>3. i \in 1 .. Len(PoolRegions)
  BY <1>2
<1>4. PoolRegions[i].addr \in Nat
  <2> DEFINE Region == [addr : Nat, size : Nat \ {0}, free : BOOLEAN]
  <2>1. PoolRegions \in Seq(Region)
    BY PoolAssumption
  <2> HIDE DEF Region
  <2>2. PoolRegions[i] \in Region
    BY <1>3, <2>1
  <2> QED BY <2>2 DEF Region
<1>5. PoolRegions[i].addr <= 0
  BY <1>1 DEF PagesOf
<1> QED BY <1>1, <1>2, <1>4, <1>5

(* The page of nodes and the directory come off the head of the list: the   *)
(* nested allocation takes a page as any other does.                        *)
LEMMA GetKeeps ==
  ASSUME PoolInv, GetPage \/ GetDirectory
  PROVE  PoolInv' /\ AbstractPool!Next
<1> DEFINE h == poolMap[1].addr
<1>1. /\ Waiting /\ pending.wants \in {"page", "directory"} /\ poolMap # <<>> /\ TakeHead
      /\ poolHeld' = poolHeld /\ other' = other /\ poolRegion' = poolRegion
      /\ \/ /\ pending.wants = "page" /\ tables' = tables
            /\ \E next \in {"directory", "link"} :
                 pending' = [pending EXCEPT !.page = h, !.wants = next]
         \/ /\ pending.wants = "directory" /\ tables' = tables \cup {h}
            /\ pending' = [pending EXCEPT !.wants = "link"]
  BY DEF GetPage, GetDirectory
<1>2. /\ PoolTypeOK /\ NodesSound /\ NothingBefore /\ PageObtained
      /\ PagesApart /\ PagesManaged /\ Coalesced(poolMap)
  BY DEF PoolInv, PagesApart
<1>3. /\ MapCut /\ h \in Nat /\ h \in Pages(poolMap)
      /\ Pages(poolMap') = Pages(poolMap) \ {h}
  BY <1>1, <1>2, HeadTaken
<1>4. /\ pending \in Requests /\ pending.page \in Nat
      /\ WaitingPages = PagesOf(pending.blk)
      /\ pending.for \in {"region", "split", "free", "other"}
  BY <1>1, <1>2, WaitingRequest
<1> HIDE DEF h
<1>5. h # 0
  BY <1>2, <1>3, NoPageZero DEF PagesManaged
<1>6. PICK page \in Nat, next \in {"directory", "link"} :
        /\ pending' = Goes(pending, page, next)
        /\ page # 0
        /\ \/ pending.wants = "page" /\ page = h /\ tables' = tables
           \/ pending.wants = "directory" /\ page = pending.page /\ tables' = tables \cup {h}
  <2>1. CASE pending.wants = "page"
    <3>1. PICK next \in {"directory", "link"} :
            pending' = [pending EXCEPT !.page = h, !.wants = next] /\ tables' = tables
      BY <1>1, <2>1
    <3>2. pending' = Goes(pending, h, next)
      BY <3>1 DEF Goes
    <3> QED BY <1>3, <1>5, <2>1, <3>1, <3>2
  <2>2. CASE pending.wants = "directory"
    <3>1. tables' = tables \cup {h} /\ pending' = [pending EXCEPT !.wants = "link"]
      BY <1>1, <2>2
    <3>2. pending' = Goes(pending, pending.page, "link")
      BY <1>4, <3>1, RequestTurns
    <3>3. pending.page # 0
      BY <1>1, <1>2, <2>2 DEF PageObtained
    <3> QED BY <1>4, <2>2, <3>1, <3>2, <3>3
  <2> QED BY <1>1, <2>1, <2>2
<1>7. next \in {"page", "directory", "link", "nothing", "memory"}
  BY <1>6
<1>8. /\ pending' \in Requests /\ pending'.for = pending.for /\ pending'.blk = pending.blk
      /\ pending'.node = pending.node /\ pending'.page = page /\ pending'.wants = next
  <2>1. SameRequest(Goes(pending, page, next), pending, page, next)
    BY <1>4, <1>7, RequestGoes
  <2>2. SameRequest(pending', pending, page, next)
    BY <1>6, <2>1
  <2> QED BY <2>2 DEF SameRequest
<1>9. Growing /\ Waiting' /\ Growing' /\ pool # <<>>
  <2>1. Growing
    BY <1>1 DEF Growing
  <2>2. Waiting' /\ Growing'
    BY <1>4, <1>6, <1>8 DEF Waiting, Growing
  <2>3. pool # <<>>
    BY <1>1, <1>2 DEF NothingBefore
  <2> QED BY <2>1, <2>2, <2>3
<1>10. /\ WaitingNode = {} /\ WaitingNode' = {}
       /\ WaitingPages' = WaitingPages /\ HeldBlock' = HeldBlock
       /\ NewPage' = {page}
       /\ NewPage = IF pending.wants = "page" THEN {} ELSE {pending.page}
  <2>1. WaitingNode = {} /\ WaitingNode' = {}
    BY <1>9 DEF WaitingNode
  <2>2. WaitingPages' = WaitingPages
    BY <1>4, <1>8, <1>9 DEF WaitingPages
  <2>3. HeldBlock' = HeldBlock
    BY <1>8, <2>2 DEF HeldBlock
  <2>4. NewPage' = {page}
    BY <1>6, <1>8, <1>9 DEF NewPage
  <2>5. NewPage = IF pending.wants = "page" THEN {} ELSE {pending.page}
    BY <1>1, <1>2, <1>9 DEF NewPage, PageObtained
  <2> QED BY <2>1, <2>2, <2>3, <2>4, <2>5
<1>11. NodesSound' /\ pool' # <<>>
  BY <1>1, <1>2, <1>3, <1>8, <1>9, <1>10, CutKeeps
<1>12. /\ pool' \in Seq(PoolPage) /\ SamePages(pool', pool) /\ Coalesced(poolMap')
       /\ poolMap' \in Seq(NodeBlock(NodesIn(pool'))) /\ NodesIn(pool') = NodesIn(pool)
       /\ PagesIn(pool') = PagesIn(pool)
  BY <1>3, SameNodes DEF MapCut
<1>13. PoolTypeOK'
  <2>1. pending' \in {Nothing, Panic} \cup Requests'
    <3>1. Requests' = Requests
      BY <1>12 DEF Requests, Node, NodesIn
    <3> QED BY <1>8, <3>1
  <2>2. /\ poolHeld \in SUBSET Nat /\ tables \in SUBSET Nat /\ other \in SUBSET NodesIn(pool)
        /\ poolRegion \in 1 .. Len(PoolRegions) + 1
    BY <1>2, PoolShape
  <2>3. tables' \in SUBSET Nat
    BY <1>3, <1>6, <2>2
  <2> QED BY <1>1, <1>12, <2>1, <2>2, <2>3, PoolShapeAgain
<1>14. NothingBefore' /\ PageObtained' /\ PanicHonest'
  <2>1. NothingBefore'
    BY <1>11 DEF NothingBefore
  <2>2. PageObtained'
    BY <1>1, <1>2, <1>6, <1>8 DEF PageObtained
  <2>3. pending' # Panic /\ next # "memory"
    BY <1>4, <1>6, <1>8 DEF Panic
  <2>4. PanicHonest'
    BY <1>8, <2>3 DEF PanicHonest, Stopped
  <2> QED BY <2>1, <2>2, <2>4
<1>15. PagesApart'
  <2>1. Disjoint(Pages(poolMap), poolHeld, WaitingPages, PagesIn(pool), NewPage, tables)
    BY <1>2 DEF PagesApart
  <2>2. Disjoint(Pages(poolMap'), poolHeld', WaitingPages', PagesIn(pool), NewPage', tables')
    <3>1. CASE pending.wants = "page"
      <4>1. NewPage = {} /\ NewPage' = {h} /\ tables' = tables
        BY <1>6, <1>10, <3>1
      <4> QED BY <1>1, <1>3, <1>10, <2>1, <4>1 DEF Disjoint
    <3>2. CASE pending.wants = "directory"
      <4>1. NewPage' = NewPage /\ tables' = tables \cup {h}
        BY <1>6, <1>10, <3>2
      <4> QED BY <1>1, <1>3, <1>10, <2>1, <4>1 DEF Disjoint
    <3> QED BY <1>1, <3>1, <3>2
  <2> QED BY <1>2, <1>12, <2>2, PagesStayApart
<1>16. HeldPages' = HeldPages \cup {h}
  <2>1. NewPage' \cup tables' = NewPage \cup tables \cup {h}
    BY <1>1, <1>6, <1>10
  <2> QED BY <1>1, <1>10, <1>12, <2>1, HeldOnes
<1>17. PagesManaged'
  <2>1. PoolManaged' = PoolManaged
    BY <1>1 DEF PoolManaged
  <2>2. NewPage' \cup tables' = NewPage \cup tables \cup {h}
    BY <1>1, <1>6, <1>10
  <2> QED BY <1>1, <1>2, <1>3, <1>10, <1>12, <2>1, <2>2 DEF PagesManaged
<1>18. AbstractPool!Next
  <2>1. h .. h = {h}
    BY <1>3
  <2>2. AbstractPool!Take(h, h)
    BY <1>3, <1>16, <2>1 DEF AbstractPool!Take
  <2>3. h \in PoolMachine
    BY <1>2, <1>3, InPoolMachine DEF PagesManaged
  <2> QED BY <2>2, <2>3 DEF AbstractPool!Next
<1> QED BY <1>11, <1>13, <1>14, <1>15, <1>17, <1>18 DEF PoolInv

(* The page is linked behind the others, and the slot marked as used. *)
LEMMA LinkPageKeeps ==
  ASSUME PoolInv, LinkPage
  PROVE  PoolInv' /\ UNCHANGED AbstractPool!vars
<1> DEFINE page == pending.page
           node == pending.node
           p == Validate(pool, node)
<1>1. /\ Waiting /\ pending.wants = "link"
      /\ pool' = Append(p, NodePage(page))
      /\ pending' = [pending EXCEPT !.wants = "nothing"]
      /\ poolMap' = poolMap /\ poolHeld' = poolHeld /\ tables' = tables /\ other' = other
      /\ poolRegion' = poolRegion
  BY DEF LinkPage
<1>2. /\ PoolTypeOK /\ NodesSound /\ NothingBefore /\ PageObtained
      /\ PagesApart /\ PagesManaged /\ Coalesced(poolMap)
  BY DEF PoolInv, PagesApart
<1>3. /\ pending \in Requests /\ page \in Nat /\ node \in NodesIn(pool)
      /\ WaitingPages = PagesOf(pending.blk)
      /\ pending.for \in {"region", "split", "free", "other"}
  BY <1>1, <1>2, WaitingRequest
<1>4. /\ pool \in Seq(PoolPage) /\ poolMap \in Seq(NodeBlock(NodesIn(pool)))
      /\ poolHeld \in SUBSET Nat /\ tables \in SUBSET Nat /\ other \in SUBSET NodesIn(pool)
      /\ poolRegion \in 1 .. Len(PoolRegions) + 1
  BY <1>2, PoolShape
<1>5. /\ Growing /\ page # 0 /\ NewPage = {page} /\ WaitingNode = {}
      /\ CountedOff = node[1] /\ node \notin UsedNodes(pool)
  <2>1. Growing
    BY <1>1 DEF Growing
  <2>2. page # 0
    BY <1>1, <1>2 DEF PageObtained
  <2> QED BY <1>2, <2>1, <2>2 DEF NewPage, WaitingNode, CountedOff, NodesSound
<1>6. /\ p \in Seq(PoolPage) /\ SamePages(p, pool)
      /\ UsedNodes(p) = UsedNodes(pool) \cup {node} /\ Exact(p, 0)
  BY <1>2, <1>3, <1>4, <1>5, ValidateCounts DEF NodesSound
<1> HIDE DEF page, node, p
<1>7. /\ pool' \in Seq(PoolPage) /\ Len(pool') = Len(p) + 1
      /\ \A k \in 1 .. Len(p) : pool'[k] = p[k]
      /\ pool'[Len(p) + 1] = NodePage(page)
      /\ NodesIn(p) \subseteq NodesIn(pool')
      /\ UsedNodes(pool') = UsedNodes(p)
      /\ Exact(pool', 0) /\ Roomy(pool')
  BY <1>1, <1>3, <1>6, AppendPage
<1>8. NodesIn(p) = NodesIn(pool) /\ PagesIn(p) = PagesIn(pool)
      /\ \A j, k \in 1 .. Len(p) : p[j].page = p[k].page => j = k
  BY <1>2, <1>6, SameNodes DEF PagesApart
<1>9. pending' = Goes(pending, page, "nothing")
  BY <1>1, <1>3, RequestTurns DEF page
<1>10. /\ pending' \in Requests /\ pending'.for = pending.for /\ pending'.blk = pending.blk
       /\ pending'.node = node /\ pending'.page = page /\ pending'.wants = "nothing"
  <2>1. "nothing" \in {"page", "directory", "link", "nothing", "memory"}
    OBVIOUS
  <2>2. SameRequest(Goes(pending, page, "nothing"), pending, page, "nothing")
    BY <1>3, <2>1, RequestGoes
  <2>3. SameRequest(pending', pending, page, "nothing")
    BY <1>9, <2>2
  <2> QED BY <2>3 DEF SameRequest, node
<1>11. /\ Waiting' /\ ~Growing' /\ WaitingNode' = {node} /\ NewPage' = {} /\ CountedOff' = 0
       /\ WaitingPages' = WaitingPages /\ HeldBlock' = HeldBlock
  <2>1. Waiting' /\ ~Growing'
    BY <1>3, <1>10 DEF Waiting, Growing
  <2>2. WaitingNode' = {node} /\ NewPage' = {} /\ CountedOff' = 0
    BY <1>10, <2>1 DEF WaitingNode, NewPage, CountedOff
  <2>3. WaitingPages' = WaitingPages
    BY <1>3, <1>10, <2>1 DEF WaitingPages
  <2> QED BY <1>10, <2>1, <2>2, <2>3 DEF HeldBlock
<1>12. NodesSound'
  <2>1. UsedNodes(pool') = NodesOf(poolMap') \cup other' \cup WaitingNode'
    BY <1>1, <1>2, <1>5, <1>6, <1>7, <1>11 DEF NodesSound
  <2>2. (NodesOf(poolMap') \cup other') \cap WaitingNode' = {}
    BY <1>1, <1>2, <1>5, <1>11 DEF NodesSound
  <2> QED BY <1>1, <1>2, <1>7, <1>11, <2>1, <2>2 DEF NodesSound
<1>13. NodesIn(pool) \subseteq NodesIn(pool')
  BY <1>7, <1>8
<1>14. PoolTypeOK'
  <2>1. Requests \subseteq Requests'
    <3>1. Node \subseteq Node'
      BY <1>13 DEF Node, NodesIn
    <3> QED BY <3>1 DEF Requests
  <2>2. poolMap' \in Seq(NodeBlock(NodesIn(pool')))
    <3>1. NodeBlock(NodesIn(pool)) \subseteq NodeBlock(NodesIn(pool'))
      BY <1>13 DEF NodeBlock
    <3> QED BY <1>1, <1>4, <3>1
  <2>3. pending' \in {Nothing, Panic} \cup Requests'
    BY <1>10, <2>1
  <2> QED BY <1>1, <1>4, <1>7, <1>13, <2>2, <2>3, PoolShapeAgain
<1>15. NothingBefore' /\ PageObtained' /\ PanicHonest'
  <2>1. pool' # <<>>
    BY <1>7 DEF Roomy
  <2>2. NothingBefore'
    BY <2>1 DEF NothingBefore
  <2>3. PageObtained'
    BY <1>1, <1>2, <1>10 DEF PageObtained
  <2>4. pending' # Panic
    BY <1>3, <1>10 DEF Panic
  <2>5. PanicHonest'
    BY <1>10, <2>4 DEF PanicHonest, Stopped
  <2> QED BY <2>2, <2>3, <2>5
<1>16. PagesIn(pool') = PagesIn(pool) \cup {page}
  <2>1. Len(p) \in Nat /\ NodePage(page).page = page
    BY <1>6 DEF NodePage
  <2>2. \A k \in 1 .. Len(p) + 1 : k \in 1 .. Len(p) \/ k = Len(p) + 1
    BY <2>1
  <2>3. Len(p) + 1 \in 1 .. Len(p) + 1 /\ 1 .. Len(p) \subseteq 1 .. Len(p) + 1
    BY <2>1
  <2>4. PagesIn(pool') = PagesIn(p) \cup {page}
    BY <1>7, <2>1, <2>2, <2>3 DEF PagesIn
  <2> QED BY <1>8, <2>4
<1>17. PagesApart'
  <2>1. Disjoint(Pages(poolMap), poolHeld, WaitingPages, PagesIn(pool), NewPage, tables)
    BY <1>2 DEF PagesApart
  <2>2. Disjoint(Pages(poolMap'), poolHeld', WaitingPages', PagesIn(pool'), NewPage', tables')
    BY <1>1, <1>5, <1>11, <1>16, <2>1 DEF Disjoint
  <2>3. ASSUME NEW j \in 1 .. Len(pool'), NEW k \in 1 .. Len(pool'),
               pool'[j].page = pool'[k].page
        PROVE  j = k
    <3>1. Len(p) \in Nat /\ NodePage(page).page = page
      BY <1>6 DEF NodePage
    <3>2. /\ j \in 1 .. Len(p) \/ j = Len(p) + 1
          /\ k \in 1 .. Len(p) \/ k = Len(p) + 1
      BY <1>7, <3>1
    <3>3. \A l \in 1 .. Len(p) : p[l].page # page
      BY <1>5, <1>8, <2>1 DEF Disjoint, PagesIn
    <3> QED BY <1>7, <1>8, <2>3, <3>1, <3>2, <3>3
  <2> QED BY <1>1, <1>2, <2>2, <2>3 DEF PagesApart
<1>18. PagesManaged'
  <2>1. PoolManaged' = PoolManaged
    BY <1>1 DEF PoolManaged
  <2> QED BY <1>1, <1>2, <1>5, <1>11, <1>16, <2>1 DEF PagesManaged
<1>19. UNCHANGED AbstractPool!vars
  <2>1. HeldPages' = HeldPages
    BY <1>1, <1>5, <1>11, <1>16, HeldOnes
  <2> QED BY <1>1, <2>1 DEF AbstractPool!vars
<1> QED BY <1>12, <1>14, <1>15, <1>17, <1>18, <1>19 DEF PoolInv

(* The block is put on the list, and the nodes it makes superfluous go      *)
(* back: pages a caller had are free again, or those of a region are new.   *)
LEMMA InsertKeeps ==
  ASSUME PoolInv, Insert
  PROVE  PoolInv' /\ AbstractPool!Next
<1> DEFINE N == NodesIn(pool)
           node == pending.node
           plain == pending.blk
           blk == In(node, plain)
           nodes == {b.node : b \in FreedByInsert(poolMap, blk)}
<1>1. /\ pending.for \in {"region", "split", "free"} /\ pending.wants = "nothing"
      /\ poolMap' = InsertLink(poolMap, blk) /\ pool' = Release(pool, nodes)
      /\ pending' = Nothing
      /\ poolHeld' = poolHeld /\ tables' = tables /\ other' = other /\ poolRegion' = poolRegion
  BY DEF Insert
<1>2. /\ PoolTypeOK /\ NodesSound /\ NothingBefore /\ PageObtained
      /\ PagesApart /\ PagesManaged /\ Coalesced(poolMap)
  BY DEF PoolInv, PagesApart
<1>3. Waiting /\ ~Growing /\ pool # <<>>
  <2>1. Waiting /\ ~Growing
    BY <1>1 DEF Waiting, Growing
  <2>2. pending \notin {Nothing, Panic}
    BY <1>1 DEF Nothing, Panic
  <2> QED BY <1>2, <2>1, <2>2 DEF NothingBefore
<1>4. plain \in Block({0}) /\ node \in N /\ WaitingPages = PagesOf(plain)
  BY <1>2, <1>3, WaitingRequest
<1>5. /\ WaitingNode = {node} /\ NewPage = {} /\ CountedOff = 0 /\ plain.size > 0
  <2>1. plain.size > 0
    BY <1>1, <1>2, <1>3 DEF PageObtained
  <2> QED BY <1>3, <2>1 DEF WaitingNode, NewPage, CountedOff
<1>6. HeldBlock = IF pending.for = "region" THEN {} ELSE PagesOf(plain)
  BY <1>1, <1>4 DEF HeldBlock
<1> HIDE DEF node, plain
<1>7. /\ poolMap \in Seq(NodeBlock(N)) /\ OwnNodes(poolMap) /\ pool \in Seq(PoolPage)
      /\ poolHeld \in SUBSET Nat /\ tables \in SUBSET Nat /\ other \in SUBSET N
      /\ poolRegion \in 1 .. Len(PoolRegions) + 1
  BY <1>2, PoolShape DEF NodesSound
<1>8. /\ plain.addr \in Nat /\ plain.size \in Nat
      /\ blk \in NodeBlock(N) /\ blk.node = node /\ blk.size = plain.size
      /\ PagesOf(blk) = PagesOf(plain)
  BY <1>4 DEF In, Block, NodeBlock, PagesOf, End
<1> HIDE DEF N, blk
<1>9. /\ node \notin NodesOf(poolMap) \cup other
      /\ UsedNodes(pool) = NodesOf(poolMap) \cup other \cup {node}
      /\ NodesOf(poolMap) \cap other = {}
  BY <1>2, <1>5 DEF NodesSound
<1>10. Disjoint(Pages(poolMap), poolHeld, PagesOf(plain), PagesIn(pool), {}, tables)
  BY <1>2, <1>4, <1>5 DEF PagesApart
<1>11. /\ poolMap' \in Seq(NodeBlock(N)) /\ NodesSettled(poolMap', poolMap, blk)
       /\ Coalesced(poolMap')
       /\ Pages(poolMap') = Pages(poolMap) \cup PagesOf(plain)
  <2>1. PagesOf(blk) \cap Pages(poolMap) = {}
    BY <1>8, <1>10 DEF Disjoint
  <2>2. blk.node \notin NodesOf(poolMap) /\ blk.size > 0
    BY <1>5, <1>8, <1>9
  <2> QED BY <1>1, <1>2, <1>7, <1>8, <2>1, <2>2, NodeInserted
<1>12. /\ OwnNodes(poolMap') /\ nodes \subseteq NodesOf(poolMap) \cup {node}
       /\ NodesOf(poolMap') = (NodesOf(poolMap) \cup {node}) \ nodes
  BY <1>8, <1>11 DEF NodesSettled
<1> HIDE DEF nodes
<1>13. /\ pool' \in Seq(PoolPage) /\ SamePages(pool', pool)
       /\ NodesIn(pool') = NodesIn(pool) /\ PagesIn(pool') = PagesIn(pool)
       /\ UsedNodes(pool') = UsedNodes(pool) \ nodes
       /\ Exact(pool', 0) /\ Roomy(pool')
  <2>1. nodes \in SUBSET UsedNodes(pool)
    BY <1>9, <1>12
  <2> QED BY <1>1, <1>2, <1>3, <1>5, <2>1, ReleaseKeeps
<1>14. /\ ~Waiting' /\ ~Growing' /\ CountedOff' = 0 /\ ~Stopped'
       /\ WaitingNode' = {} /\ WaitingPages' = {} /\ NewPage' = {}
       /\ PageObtained' /\ HeldBlock' = {}
  BY <1>1, IdleAgain DEF HeldBlock
<1>15. NodesSound'
  <2>1. UsedNodes(pool') = NodesOf(poolMap') \cup other'
    BY <1>1, <1>9, <1>12, <1>13
  <2>2. NodesOf(poolMap') \cap other' = {}
    BY <1>1, <1>9, <1>12
  <2> QED BY <1>12, <1>13, <1>14, <2>1, <2>2 DEF NodesSound
<1>16. PoolTypeOK'
  <2>1. /\ poolMap' \in Seq(NodeBlock(NodesIn(pool'))) /\ other' \in SUBSET NodesIn(pool')
        /\ pending' \in {Nothing, Panic} \cup Requests'
    BY <1>1, <1>7, <1>11, <1>13 DEF N
  <2> QED BY <1>1, <1>7, <1>13, <2>1, PoolShapeAgain
<1>17. NothingBefore' /\ PanicHonest'
  BY <1>13, <1>14 DEF NothingBefore, PanicHonest, Roomy
<1>18. PagesApart'
  <2>1. Disjoint(Pages(poolMap'), poolHeld', WaitingPages', PagesIn(pool), NewPage', tables')
    BY <1>1, <1>10, <1>11, <1>14 DEF Disjoint
  <2> QED BY <1>2, <1>11, <1>13, <2>1, PagesStayApart
<1>19. PagesManaged'
  <2>1. PoolManaged' = PoolManaged
    BY <1>1 DEF PoolManaged
  <2> QED BY <1>1, <1>2, <1>4, <1>11, <1>13, <1>14, <2>1 DEF PagesManaged
<1>20. AbstractPool!Next
  <2> DEFINE first == plain.addr
             last == plain.addr + plain.size - 1
  <2>1. PagesOf(plain) = first .. last /\ first \in first .. last /\ last \in first .. last
    BY <1>5, <1>8 DEF PagesOf, End
  <2> HIDE DEF first, last
  <2>2. first \in PoolMachine /\ last \in PoolMachine
    BY <1>2, <1>4, <2>1, InPoolMachine DEF PagesManaged
  <2>3. CASE pending.for = "region"
    <3>1. HeldPages' = HeldPages
      BY <1>1, <1>5, <1>6, <1>13, <1>14, <2>3, HeldOnes
    <3>2. PagesOf(plain) \cap (Pages(poolMap) \cup HeldPages) = {}
      BY <1>5, <1>6, <1>10, <2>3, HeldOnes DEF Disjoint
    <3>3. AbstractPool!Add(first, last, {})
      BY <1>11, <2>1, <3>1, <3>2 DEF AbstractPool!Add
    <3> QED BY <2>2, <3>3 DEF AbstractPool!Next
  <2>4. CASE pending.for # "region"
    <3>1. HeldBlock = PagesOf(plain)
      BY <1>6, <2>4
    <3>2. PagesOf(plain) \subseteq HeldPages
      BY <3>1, HeldOnes
    <3>3. HeldPages' = HeldPages \ PagesOf(plain)
      BY <1>1, <1>5, <1>10, <1>13, <1>14, <3>1, HeldOnes DEF Disjoint
    <3>4. AbstractPool!Give(first, last)
      BY <1>11, <2>1, <3>2, <3>3 DEF AbstractPool!Give
    <3> QED BY <2>2, <3>4 DEF AbstractPool!Next
  <2> QED BY <2>3, <2>4
<1> QED BY <1>14, <1>15, <1>16, <1>17, <1>18, <1>19, <1>20 DEF PoolInv

-----------------------------------------------------------------------------
(* A step of another list's node moves no page.  It asks for one, ...       *)
LEMMA OtherTakesKeeps ==
  ASSUME PoolInv, OtherTakes
  PROVE  PoolInv' /\ UNCHANGED AbstractPool!vars
<1> DEFINE blk == PoolBlock(0, 0)
<1>1. /\ Ready /\ Request(pool, "other", blk)
      /\ poolMap' = poolMap /\ poolHeld' = poolHeld /\ tables' = tables /\ other' = other
      /\ poolRegion' = poolRegion
  BY DEF OtherTakes
<1>2. /\ PoolTypeOK /\ NodesSound /\ NothingBefore /\ PagesApart /\ PagesManaged
      /\ Coalesced(poolMap)
  BY DEF PoolInv, PagesApart
<1>3. /\ poolMap \in Seq(NodeBlock(NodesIn(pool))) /\ pool \in Seq(PoolPage)
      /\ poolHeld \in SUBSET Nat /\ tables \in SUBSET Nat /\ other \in SUBSET NodesIn(pool)
      /\ poolRegion \in 1 .. Len(PoolRegions) + 1
  BY <1>2, PoolShape
<1>4. blk \in Block({0}) /\ PagesOf(blk) = {}
  BY DEF PoolBlock, Block, PagesOf, End
<1>5. /\ ~Waiting /\ ~Growing /\ CountedOff = 0
      /\ WaitingNode = {} /\ WaitingPages = {} /\ NewPage = {} /\ HeldBlock = {}
  BY <1>1, IdleNothing DEF Ready, HeldBlock
<1> HIDE DEF blk
<1>6. CASE pool # <<>>
  <2>1. /\ PoolTypeOK' /\ NodesSound' /\ NothingBefore' /\ PageObtained' /\ PanicHonest'
        /\ SamePages(pool', pool)
        /\ WaitingPages' = PagesOf(blk) /\ NewPage' = {} /\ pending'.for = "other"
    <3>1. /\ Exact(pool, 0) /\ Roomy(pool) /\ OwnNodes(poolMap')
          /\ UsedNodes(pool) = NodesOf(poolMap') \cup other'
          /\ NodesOf(poolMap') \cap other' = {}
      BY <1>1, <1>2, <1>5, <1>6 DEF NodesSound
    <3>2. /\ poolMap' \in Seq(NodeBlock(NodesIn(pool))) /\ other' \in SUBSET NodesIn(pool)
          /\ poolHeld' \in SUBSET Nat /\ tables' \in SUBSET Nat
          /\ poolRegion' \in 1 .. Len(PoolRegions) + 1
      BY <1>1, <1>3
    <3>3. "other" \in {"region", "split", "free", "other"} /\ pool \in Seq(PoolPage)
      BY <1>3
    <3> QED BY <1>1, <1>4, <3>1, <3>2, <3>3, RequestKeeps
  <2>2. PagesIn(pool') = PagesIn(pool) /\ HeldBlock' = {}
    BY <2>1, SameNodes DEF HeldBlock
  <2>3. PagesApart'
    <3>1. Disjoint(Pages(poolMap'), poolHeld', WaitingPages', PagesIn(pool), NewPage', tables')
      BY <1>1, <1>2, <1>4, <1>5, <2>1 DEF PagesApart, Disjoint
    <3> QED BY <1>1, <1>2, <2>1, <3>1, PagesStayApart
  <2>4. PagesManaged'
    <3>1. PoolManaged' = PoolManaged
      BY <1>1 DEF PoolManaged
    <3> QED BY <1>1, <1>2, <1>4, <1>5, <2>1, <2>2, <3>1 DEF PagesManaged
  <2>5. UNCHANGED AbstractPool!vars
    <3>1. HeldPages' = HeldPages
      BY <1>1, <1>5, <2>1, <2>2, HeldOnes
    <3> QED BY <1>1, <3>1 DEF AbstractPool!vars
  <2> QED BY <2>1, <2>3, <2>4, <2>5 DEF PoolInv
<1>7. CASE pool = <<>>
  <2>1. WithRoom(pool) = {}
    BY <1>7 DEF WithRoom
  <2>2. pool' = pool /\ pending' = Panic /\ poolMap = <<>>
    BY <1>1, <1>2, <1>7, <2>1 DEF Request, NothingBefore
  <2>3. ~Waiting' /\ pending'.for = "panic"
    BY <2>2 DEF Waiting, Panic
  <2>4. ~Growing' /\ WaitingNode' = {} /\ WaitingPages' = {} /\ NewPage' = {} /\ CountedOff' = 0
    BY <2>3 DEF Growing, WaitingNode, WaitingPages, NewPage, CountedOff
  <2>5. HeldBlock' = {} /\ PoolManaged' = PoolManaged /\ SamePages(pool', pool)
    BY <1>1, <2>2, <2>3 DEF HeldBlock, PoolManaged, SamePages
  <2>6. PoolTypeOK'
    BY <1>1, <1>3, <2>2, PoolShapeAgain
  <2>7. NodesSound' /\ NothingBefore' /\ PageObtained' /\ PanicHonest'
    BY <1>1, <1>2, <1>5, <2>2, <2>3, <2>4 DEF NodesSound, NothingBefore, PageObtained, PanicHonest
  <2>8. PagesApart' /\ PagesManaged'
    BY <1>1, <1>2, <1>5, <2>2, <2>4, <2>5 DEF PagesApart, PagesManaged, PagesIn
  <2>9. UNCHANGED AbstractPool!vars
    <3>1. HeldPages' = HeldPages
      BY <1>1, <1>5, <2>2, <2>4, <2>5, HeldOnes
    <3> QED BY <1>1, <3>1 DEF AbstractPool!vars
  <2> QED BY <2>6, <2>7, <2>8, <2>9 DEF PoolInv
<1> QED BY <1>6, <1>7

(* ... keeps it, ...                                                        *)
LEMMA OtherKeepsKeeps ==
  ASSUME PoolInv, OtherKeeps
  PROVE  PoolInv' /\ UNCHANGED AbstractPool!vars
<1> DEFINE node == pending.node
<1>1. /\ pending.for = "other" /\ pending.wants = "nothing"
      /\ other' = other \cup {node} /\ pending' = Nothing
      /\ poolMap' = poolMap /\ poolHeld' = poolHeld /\ pool' = pool /\ tables' = tables
      /\ poolRegion' = poolRegion
  BY DEF OtherKeeps
<1>2. /\ PoolTypeOK /\ NodesSound /\ NothingBefore /\ PagesApart /\ PagesManaged
      /\ Coalesced(poolMap)
  BY DEF PoolInv, PagesApart
<1>3. Waiting /\ ~Growing /\ pool # <<>>
  <2>1. Waiting /\ ~Growing
    BY <1>1 DEF Waiting, Growing
  <2>2. pending \notin {Nothing, Panic}
    BY <1>1 DEF Nothing, Panic
  <2> QED BY <1>2, <2>1, <2>2 DEF NothingBefore
<1>4. node \in NodesIn(pool)
  BY <1>2, <1>3, WaitingRequest
<1>5. WaitingNode = {node} /\ NewPage = {} /\ CountedOff = 0 /\ HeldBlock = {}
  BY <1>1, <1>3 DEF WaitingNode, NewPage, CountedOff, HeldBlock
<1> HIDE DEF node
<1>6. /\ poolMap \in Seq(NodeBlock(NodesIn(pool))) /\ pool \in Seq(PoolPage)
      /\ poolHeld \in SUBSET Nat /\ tables \in SUBSET Nat /\ other \in SUBSET NodesIn(pool)
      /\ poolRegion \in 1 .. Len(PoolRegions) + 1
  BY <1>2, PoolShape
<1>7. /\ ~Waiting' /\ ~Growing' /\ CountedOff' = 0 /\ ~Stopped'
      /\ WaitingNode' = {} /\ WaitingPages' = {} /\ NewPage' = {}
      /\ PageObtained' /\ HeldBlock' = {}
  BY <1>1, IdleAgain DEF HeldBlock
<1>8. PoolTypeOK'
  <2>1. other' \in SUBSET NodesIn(pool')
    BY <1>1, <1>4, <1>6
  <2> QED BY <1>1, <1>6, <2>1, PoolShapeAgain
<1>9. NodesSound'
  BY <1>1, <1>2, <1>3, <1>5, <1>7 DEF NodesSound
<1>10. NothingBefore' /\ PanicHonest'
  BY <1>1, <1>3, <1>7 DEF NothingBefore, PanicHonest
<1>11. SamePages(pool', pool) /\ PagesIn(pool') = PagesIn(pool) /\ PoolManaged' = PoolManaged
  BY <1>1 DEF SamePages, PagesIn, PoolManaged
<1>12. PagesApart'
  <2>1. Disjoint(Pages(poolMap'), poolHeld', WaitingPages', PagesIn(pool), NewPage', tables')
    BY <1>1, <1>2, <1>5, <1>7 DEF PagesApart, Disjoint
  <2> QED BY <1>1, <1>2, <1>11, <2>1, PagesStayApart
<1>13. PagesManaged'
  BY <1>1, <1>2, <1>5, <1>7, <1>11 DEF PagesManaged
<1>14. UNCHANGED AbstractPool!vars
  <2>1. HeldPages' = HeldPages
    BY <1>1, <1>5, <1>7, <1>11, HeldOnes
  <2> QED BY <1>1, <2>1 DEF AbstractPool!vars
<1> QED BY <1>7, <1>8, <1>9, <1>10, <1>12, <1>13, <1>14 DEF PoolInv

(* ... and gives it back.                                                   *)
LEMMA OtherReturnsKeeps ==
  ASSUME PoolInv, NEW node \in other, OtherReturns(node)
  PROVE  PoolInv' /\ UNCHANGED AbstractPool!vars
<1>1. /\ Ready /\ pool' = Release(pool, {node}) /\ other' = other \ {node}
      /\ poolMap' = poolMap /\ poolHeld' = poolHeld /\ tables' = tables
      /\ pending' = pending /\ poolRegion' = poolRegion
  BY DEF OtherReturns
<1>2. /\ PoolTypeOK /\ NodesSound /\ NothingBefore /\ PageObtained /\ PanicHonest
      /\ PagesApart /\ PagesManaged /\ Coalesced(poolMap)
  BY DEF PoolInv, PagesApart
<1>3. /\ poolMap \in Seq(NodeBlock(NodesIn(pool))) /\ pool \in Seq(PoolPage)
      /\ poolHeld \in SUBSET Nat /\ tables \in SUBSET Nat /\ other \in SUBSET NodesIn(pool)
      /\ poolRegion \in 1 .. Len(PoolRegions) + 1
  BY <1>2, PoolShape
<1>4. pool # <<>>
  BY <1>2 DEF NothingBefore
<1>5. Idle /\ Idle'
  BY <1>1 DEF Ready, Idle
<1>6. /\ ~Growing /\ CountedOff = 0
      /\ WaitingNode = {} /\ WaitingPages = {} /\ NewPage = {} /\ HeldBlock = {}
  BY <1>5, IdleNothing DEF HeldBlock
<1>7. /\ ~Waiting' /\ ~Growing' /\ CountedOff' = 0
      /\ WaitingNode' = {} /\ WaitingPages' = {} /\ NewPage' = {} /\ HeldBlock' = {}
  BY <1>5 DEF Idle, Waiting, Growing, CountedOff, WaitingNode, WaitingPages, NewPage, HeldBlock
<1>8. {node} \in SUBSET UsedNodes(pool)
  BY <1>2 DEF NodesSound
<1>9. /\ pool' \in Seq(PoolPage) /\ SamePages(pool', pool)
      /\ NodesIn(pool') = NodesIn(pool) /\ PagesIn(pool') = PagesIn(pool)
      /\ UsedNodes(pool') = UsedNodes(pool) \ {node}
      /\ Exact(pool', 0) /\ Roomy(pool')
  BY <1>1, <1>2, <1>4, <1>6, <1>8, ReleaseKeeps
<1>10. PoolTypeOK'
  <2>1. pending' \in {Nothing, Panic} \cup Requests'
    <3>1. Requests' = Requests
      BY <1>9 DEF Requests, Node, NodesIn
    <3> QED BY <1>1, <1>2, <3>1 DEF PoolTypeOK, Requests
  <2>2. other' \in SUBSET NodesIn(pool') /\ poolMap' \in Seq(NodeBlock(NodesIn(pool')))
    BY <1>1, <1>3, <1>9
  <2> QED BY <1>1, <1>3, <1>9, <2>1, <2>2, PoolShapeAgain
<1>11. NodesSound'
  <2>1. UsedNodes(pool') = NodesOf(poolMap') \cup other' /\ NodesOf(poolMap') \cap other' = {}
    BY <1>1, <1>2, <1>6, <1>9 DEF NodesSound
  <2> QED BY <1>1, <1>2, <1>7, <1>9, <2>1 DEF NodesSound
<1>12. NothingBefore' /\ PageObtained' /\ PanicHonest'
  <2>1. pending' # Panic
    BY <1>5 DEF Idle, Panic
  <2> QED BY <1>7, <1>9, <2>1 DEF NothingBefore, PageObtained, PanicHonest, Stopped, Roomy
<1>13. PagesApart'
  <2>1. Disjoint(Pages(poolMap'), poolHeld', WaitingPages', PagesIn(pool), NewPage', tables')
    BY <1>1, <1>2, <1>6, <1>7 DEF PagesApart
  <2> QED BY <1>1, <1>2, <1>9, <2>1, PagesStayApart
<1>14. PagesManaged'
  <2>1. PoolManaged' = PoolManaged
    BY <1>1 DEF PoolManaged
  <2> QED BY <1>1, <1>2, <1>6, <1>7, <1>9, <2>1 DEF PagesManaged
<1>15. UNCHANGED AbstractPool!vars
  <2>1. HeldPages' = HeldPages
    BY <1>1, <1>6, <1>7, <1>9, HeldOnes
  <2> QED BY <1>1, <2>1 DEF AbstractPool!vars
<1> QED BY <1>10, <1>11, <1>12, <1>13, <1>14, <1>15 DEF PoolInv

(* No page is left for the nodes or their directory: the kernel stops. *)
LEMMA ExhaustedKeeps ==
  ASSUME PoolInv, Exhausted
  PROVE  PoolInv' /\ UNCHANGED AbstractPool!vars
<1>1. /\ Waiting /\ pending.wants \in {"page", "directory"} /\ poolMap = <<>>
      /\ pending' = [pending EXCEPT !.wants = "memory"]
      /\ poolMap' = poolMap /\ poolHeld' = poolHeld /\ pool' = pool /\ tables' = tables
      /\ other' = other /\ poolRegion' = poolRegion
  BY DEF Exhausted
<1>2. /\ PoolTypeOK /\ NodesSound /\ NothingBefore /\ PageObtained
      /\ PagesApart /\ PagesManaged /\ Coalesced(poolMap)
  BY DEF PoolInv, PagesApart
<1>3. /\ pending \in Requests /\ pending.page \in Nat
      /\ pending.for \in {"region", "split", "free", "other"}
  BY <1>1, <1>2, WaitingRequest
<1>4. SameRequest(pending', pending, pending.page, "memory")
  <2>1. "memory" \in {"page", "directory", "link", "nothing", "memory"}
    OBVIOUS
  <2>2. SameRequest(Goes(pending, pending.page, "memory"), pending, pending.page, "memory")
    BY <1>3, <2>1, RequestGoes
  <2>3. pending' = Goes(pending, pending.page, "memory")
    BY <1>1, <1>3, RequestTurns
  <2> QED BY <2>2, <2>3
<1>5. /\ pending' \in Requests /\ pending'.for = pending.for /\ pending'.blk = pending.blk
      /\ pending'.node = pending.node /\ pending'.page = pending.page
      /\ pending'.wants = "memory"
  BY <1>4 DEF SameRequest
<1>6. Growing /\ Waiting' /\ Growing' /\ pool # <<>>
  <2>1. Growing
    BY <1>1 DEF Growing
  <2>2. Waiting' /\ Growing'
    BY <1>3, <1>5 DEF Waiting, Growing
  <2>3. pending \notin {Nothing, Panic}
    BY <1>3 DEF Nothing, Panic
  <2>4. pool # <<>>
    BY <1>2, <2>3 DEF NothingBefore
  <2> QED BY <2>1, <2>2, <2>4
<1>7. /\ WaitingNode' = WaitingNode /\ WaitingPages' = WaitingPages /\ NewPage' = NewPage
      /\ CountedOff' = CountedOff
  BY <1>1, <1>5, <1>6 DEF WaitingNode, WaitingPages, NewPage, CountedOff
<1>8. HeldBlock' = HeldBlock
  BY <1>5, <1>7 DEF HeldBlock
<1>9. PoolTypeOK'
  <2>1. pending' \in {Nothing, Panic} \cup Requests'
    <3>1. Requests' = Requests
      BY <1>1 DEF Requests, Node
    <3> QED BY <1>5, <3>1
  <2> QED BY <1>1, <1>2, <2>1, PoolShape, PoolShapeAgain
<1>10. NodesSound'
  BY <1>1, <1>2, <1>5, <1>6, <1>7 DEF NodesSound
<1>11. NothingBefore' /\ PanicHonest'
  BY <1>1, <1>6 DEF NothingBefore, PanicHonest
<1>12. PageObtained'
  BY <1>1, <1>2, <1>5 DEF PageObtained
<1>13. PagesApart' /\ PagesManaged'
  BY <1>1, <1>2, <1>7 DEF PagesApart, PagesManaged, PagesIn, PoolManaged
<1>14. UNCHANGED AbstractPool!vars
  <2>1. PagesIn(pool') = PagesIn(pool)
    BY <1>1
  <2>2. HeldPages' = HeldPages
    BY <1>1, <1>7, <1>8, <2>1, HeldOnes
  <2> QED BY <1>1, <2>2 DEF AbstractPool!vars
<1> QED BY <1>9, <1>10, <1>11, <1>12, <1>13, <1>14 DEF PoolInv

-----------------------------------------------------------------------------
(* A block that begins behind another one shares no page with it.           *)
LEMMA BehindApart ==
  ASSUME NEW a, NEW b, a.addr \in Nat, a.size \in Nat, b.addr \in Nat, b.size \in Nat,
         End(a) <= b.addr
  PROVE  PagesOf(b) \cap PagesOf(a) = {}
BY DEF PagesOf, End

(* The pages of the region setup_memory turns to are not managed yet, and   *)
(* they are, when it is a free one, once it has been passed.                *)
LEMMA PoolRegionNext ==
  ASSUME PoolTypeOK, poolRegion <= Len(PoolRegions)
  PROVE  LET r == PoolRegions[poolRegion] IN
         /\ r.addr \in Nat /\ r.size \in Nat \ {0}
         /\ r.free /\ r.addr >= PoolLowLimit => r.size >= 2
         /\ PagesOf(r) \cap PoolManaged = {}
         /\ poolRegion \in Nat /\ poolRegion >= 1
         /\ poolRegion + 1 \in 1 .. Len(PoolRegions) + 1
         /\ PagesOf(r) \subseteq PoolMachine
<1>1. /\ poolRegion \in Nat /\ Len(PoolRegions) \in Nat /\ poolRegion >= 1
      /\ poolRegion \in 1 .. Len(PoolRegions) /\ poolRegion + 1 \in 1 .. Len(PoolRegions) + 1
  <2>1. poolRegion \in 1 .. Len(PoolRegions) + 1 /\ Len(PoolRegions) \in Nat
    BY PoolShape, PoolAssumption
  <2> QED BY <2>1
<1>2. \A i \in 1 .. Len(PoolRegions) :
        PoolRegions[i].addr \in Nat /\ PoolRegions[i].size \in Nat \ {0}
  <2> DEFINE Region == [addr : Nat, size : Nat \ {0}, free : BOOLEAN]
  <2>1. PoolRegions \in Seq(Region)
    BY PoolAssumption
  <2> HIDE DEF Region
  <2>2. \A i \in 1 .. Len(PoolRegions) : PoolRegions[i] \in Region
    BY <2>1
  <2> QED BY <2>2 DEF Region
<1>3. ASSUME NEW i \in 1 .. poolRegion - 1
      PROVE  PagesOf(PoolRegions[poolRegion]) \cap PagesOf(PoolRegions[i]) = {}
  <2> DEFINE a == PoolRegions[i]
             b == PoolRegions[poolRegion]
  <2>1. i \in 1 .. Len(PoolRegions) /\ i < poolRegion
    BY <1>1
  <2>2. End(a) <= b.addr
    BY <1>1, <2>1, PoolAssumption
  <2>3. a.addr \in Nat /\ a.size \in Nat /\ b.addr \in Nat /\ b.size \in Nat
    BY <1>1, <1>2, <2>1
  <2> HIDE DEF a, b
  <2>4. PagesOf(b) \cap PagesOf(a) = {}
    BY <2>2, <2>3, BehindApart
  <2> QED BY <2>4 DEF a, b
<1>4. PagesOf(PoolRegions[poolRegion]) \cap PoolManaged = {}
  BY <1>3 DEF PoolManaged
<1>5. /\ PoolRegions[poolRegion].free /\ PoolRegions[poolRegion].addr >= PoolLowLimit
           => PoolRegions[poolRegion].size >= 2
      /\ PagesOf(PoolRegions[poolRegion]) \subseteq PoolMachine
  BY <1>1, PoolAssumption DEF PoolMachine
<1> QED BY <1>1, <1>2, <1>4, <1>5

LEMMA PoolManagedGrows ==
  ASSUME PoolTypeOK, poolRegion <= Len(PoolRegions), poolRegion' = poolRegion + 1
  PROVE  PoolManaged' = IF PoolRegions[poolRegion].free
                             /\ PoolRegions[poolRegion].addr >= PoolLowLimit
                        THEN PoolManaged \cup PagesOf(PoolRegions[poolRegion])
                        ELSE PoolManaged
<1>1. poolRegion \in Nat /\ poolRegion >= 1
  BY PoolRegionNext
<1>2. 1 .. poolRegion' - 1 = (1 .. poolRegion - 1) \cup {poolRegion}
  BY <1>1
<1> DEFINE Given(j) == PoolRegions[j].free /\ PoolRegions[j].addr >= PoolLowLimit
<1>3. PoolManaged' = UNION {PagesOf(PoolRegions[i]) : i \in {j \in 1 .. poolRegion' - 1 : Given(j)}}
  BY DEF PoolManaged
<1>4. PoolManaged = UNION {PagesOf(PoolRegions[i]) : i \in {j \in 1 .. poolRegion - 1 : Given(j)}}
  BY DEF PoolManaged
<1> HIDE DEF Given
<1>5. CASE Given(poolRegion)
  <2>1. {j \in 1 .. poolRegion' - 1 : Given(j)}
          = {j \in 1 .. poolRegion - 1 : Given(j)} \cup {poolRegion}
    BY <1>2, <1>5
  <2>2. PoolManaged' = PoolManaged \cup PagesOf(PoolRegions[poolRegion])
    BY <1>3, <1>4, <2>1
  <2> QED BY <1>5, <2>2 DEF Given
<1>6. CASE ~Given(poolRegion)
  <2>1. {j \in 1 .. poolRegion' - 1 : Given(j)} = {j \in 1 .. poolRegion - 1 : Given(j)}
    BY <1>2, <1>6
  <2> QED BY <1>3, <1>4, <1>6, <2>1 DEF Given
<1> QED BY <1>5, <1>6

(* A region that is not used changes nothing, ...                           *)
LEMMA PoolSkipRegionKeeps ==
  ASSUME PoolInv, PoolSkipRegion
  PROVE  PoolInv' /\ UNCHANGED AbstractPool!vars
<1>1. /\ Idle /\ poolRegion <= Len(PoolRegions)
      /\ ~PoolRegions[poolRegion].free \/ PoolRegions[poolRegion].addr < PoolLowLimit
      /\ poolRegion' = poolRegion + 1
      /\ poolMap' = poolMap /\ poolHeld' = poolHeld /\ pool' = pool /\ tables' = tables
      /\ other' = other /\ pending' = pending
  BY DEF PoolSkipRegion
<1>2. /\ PoolTypeOK /\ NodesSound /\ NothingBefore /\ PageObtained /\ PanicHonest
      /\ PagesApart /\ PagesManaged
  BY DEF PoolInv
<1>3. poolRegion + 1 \in 1 .. Len(PoolRegions) + 1 /\ PoolRegions[poolRegion].addr \in Nat
  BY <1>1, <1>2, PoolRegionNext
<1>4. PoolManaged' = PoolManaged
  <2>1. ~(PoolRegions[poolRegion].free /\ PoolRegions[poolRegion].addr >= PoolLowLimit)
    <3>1. PoolLowLimit \in Nat
      BY PoolAssumption
    <3> QED BY <1>1, <1>3, <3>1
  <2> QED BY <1>1, <1>2, <2>1, PoolManagedGrows
<1>5. PoolTypeOK'
  <2>1. Requests' = Requests
    BY <1>1 DEF Requests, Node
  <2>2. pending' \in {Nothing, Panic} \cup Requests'
    BY <1>1, <1>2, <2>1 DEF PoolTypeOK, Requests
  <2> QED BY <1>1, <1>2, <1>3, <2>2, PoolShape, PoolShapeAgain
<1>6. /\ Waiting' = Waiting /\ Growing' = Growing /\ Stopped' = Stopped
      /\ WaitingNode' = WaitingNode /\ WaitingPages' = WaitingPages /\ NewPage' = NewPage
      /\ CountedOff' = CountedOff /\ HeldBlock' = HeldBlock
  BY <1>1 DEF Waiting, Growing, Stopped, WaitingNode, WaitingPages, NewPage, CountedOff, HeldBlock
<1>7. NodesSound' /\ NothingBefore' /\ PageObtained' /\ PanicHonest'
  BY <1>1, <1>2, <1>6 DEF NodesSound, NothingBefore, PageObtained, PanicHonest
<1>8. PagesIn(pool') = PagesIn(pool)
  BY <1>1
<1>9. PagesApart' /\ PagesManaged'
  BY <1>1, <1>2, <1>4, <1>6, <1>8 DEF PagesApart, PagesManaged
<1>10. UNCHANGED AbstractPool!vars
  <2>1. HeldPages' = HeldPages
    BY <1>1, <1>6, <1>8, HeldOnes
  <2> QED BY <1>1, <2>1 DEF AbstractPool!vars
<1> QED BY <1>5, <1>7, <1>9, <1>10 DEF PoolInv

(* ... one that is waits for its node, the first of them with the page of   *)
(* nodes taken out of it, which is held from then on.                       *)
LEMMA PoolAddRegionKeeps ==
  ASSUME PoolInv, PoolAddRegion
  PROVE  PoolInv' /\ [AbstractPool!Next]_(AbstractPool!vars)
<1> DEFINE r == PoolRegions[poolRegion]
           first == r.addr
           size == r.size
           p == IF pool = <<>> THEN <<NodePage(first)>> ELSE pool
           blk == IF pool = <<>> THEN PoolBlock(first + 1, size - 1) ELSE PoolBlock(first, size)
           kept == IF pool = <<>> THEN {first} ELSE {}
<1>1. /\ Idle /\ poolRegion <= Len(PoolRegions) /\ r.free /\ r.addr >= PoolLowLimit
      /\ Request(p, "region", blk)
      /\ poolRegion' = poolRegion + 1
      /\ poolMap' = poolMap /\ poolHeld' = poolHeld /\ tables' = tables /\ other' = other
  BY DEF PoolAddRegion
<1>2. /\ PoolTypeOK /\ NodesSound /\ NothingBefore /\ PagesApart /\ PagesManaged
      /\ Coalesced(poolMap)
  BY DEF PoolInv, PagesApart
<1>3. /\ first \in Nat /\ size \in Nat /\ size >= 2
      /\ PagesOf(r) \cap PoolManaged = {} /\ PagesOf(r) \subseteq PoolMachine
      /\ poolRegion' \in 1 .. Len(PoolRegions) + 1
  BY <1>1, <1>2, PoolRegionNext
<1>4. PoolManaged' = PoolManaged \cup PagesOf(r)
  BY <1>1, <1>2, PoolManagedGrows
<1>5. /\ ~Waiting /\ ~Growing /\ CountedOff = 0
      /\ WaitingNode = {} /\ WaitingPages = {} /\ NewPage = {} /\ HeldBlock = {}
  BY <1>1, IdleNothing DEF HeldBlock
<1>6. PagesOf(r) = first .. ((first + size) - 1)
  BY DEF PagesOf, End
<1> HIDE DEF r, first, size
<1>7. /\ blk \in Block({0}) /\ blk.size > 0
      /\ PagesOf(blk) = PagesOf(r) \ kept /\ kept \subseteq PagesOf(r)
      /\ first \in PagesOf(r)
  <2>1. CASE pool = <<>>
    <3>1. blk = [addr |-> first + 1, size |-> size - 1, type |-> 0] /\ kept = {first}
      BY <2>1 DEF PoolBlock
    <3>2. first + 1 \in Nat /\ size - 1 \in Nat /\ size - 1 > 0
          /\ (first + 1) + (size - 1) = first + size
      BY <1>3
    <3>3. blk.addr = first + 1 /\ blk.size = size - 1 /\ blk \in Block({0})
      BY <3>1, <3>2 DEF Block
    <3> HIDE DEF blk
    <3>4. PagesOf(blk) = (first + 1) .. ((first + size) - 1)
      BY <3>2, <3>3 DEF PagesOf, End
    <3> QED BY <1>3, <1>6, <3>1, <3>2, <3>3, <3>4
  <2>2. CASE pool # <<>>
    <3>1. blk = [addr |-> first, size |-> size, type |-> 0] /\ kept = {}
      BY <2>2 DEF PoolBlock
    <3>2. blk.addr = first /\ blk.size = size /\ blk \in Block({0})
      BY <1>3, <3>1 DEF Block
    <3> HIDE DEF blk
    <3>3. PagesOf(blk) = first .. ((first + size) - 1)
      BY <3>2 DEF PagesOf, End
    <3> QED BY <1>3, <1>6, <3>1, <3>2, <3>3
  <2> QED BY <2>1, <2>2
<1>8. /\ poolMap \in Seq(NodeBlock(NodesIn(pool))) /\ pool \in Seq(PoolPage)
      /\ poolHeld \in SUBSET Nat /\ tables \in SUBSET Nat /\ other \in SUBSET NodesIn(pool)
  BY <1>2, PoolShape
<1>9. /\ p \in Seq(PoolPage) /\ Exact(p, 0) /\ Roomy(p) /\ OwnNodes(poolMap)
      /\ poolMap \in Seq(NodeBlock(NodesIn(p))) /\ other \in SUBSET NodesIn(p)
      /\ NodesOf(poolMap) \cap other = {}
      /\ UsedNodes(p) = NodesOf(poolMap) \cup other
      /\ PagesIn(p) = PagesIn(pool) \cup kept
      /\ \A j, k \in 1 .. Len(p) : p[j].page = p[k].page => j = k
  <2>1. CASE pool = <<>>
    <3>1. p = <<NodePage(first)>> /\ kept = {first}
      BY <2>1
    <3>2. NodePage(first) \in PoolPage /\ NodePage(first).page = first
      BY <1>3, FreshPage DEF NodePage
    <3>3. p \in Seq(PoolPage) /\ Exact(p, 0) /\ Roomy(p) /\ UsedNodes(p) = {}
      BY <1>3, <3>1, <3>2, FreshPage
    <3>4. poolMap = <<>> /\ other = {}
      BY <1>2, <2>1 DEF NothingBefore
    <3>5. NodesOf(poolMap) = {} /\ OwnNodes(poolMap)
      BY <3>4 DEF NodesOf, OwnNodes
    <3>6. PagesIn(pool) = {}
      BY <2>1 DEF PagesIn
    <3>7. Len(p) = 1 /\ p[1] = NodePage(first)
      BY <3>1
    <3>8. PagesIn(p) = {first} /\ \A j, k \in 1 .. Len(p) : p[j].page = p[k].page => j = k
      BY <3>2, <3>7 DEF PagesIn
    <3>9. poolMap \in Seq(NodeBlock(NodesIn(p)))
      BY <3>4
    <3> HIDE DEF p
    <3> QED BY <3>1, <3>3, <3>4, <3>5, <3>6, <3>8, <3>9
  <2>2. CASE pool # <<>>
    <3>1. p = pool /\ kept = {}
      BY <2>2
    <3> HIDE DEF p, kept
    <3> QED BY <1>2, <1>5, <1>8, <2>2, <3>1 DEF NodesSound, PagesApart
  <2> QED BY <2>1, <2>2
<1> HIDE DEF p, blk
<1>10. /\ PoolTypeOK' /\ NodesSound' /\ NothingBefore' /\ PageObtained' /\ PanicHonest'
       /\ SamePages(pool', p)
       /\ WaitingPages' = PagesOf(blk) /\ NewPage' = {} /\ pending'.for = "region"
  <2>1. /\ poolMap' \in Seq(NodeBlock(NodesIn(p))) /\ OwnNodes(poolMap')
        /\ other' \in SUBSET NodesIn(p) /\ NodesOf(poolMap') \cap other' = {}
        /\ UsedNodes(p) = NodesOf(poolMap') \cup other'
        /\ poolHeld' \in SUBSET Nat /\ tables' \in SUBSET Nat
    BY <1>1, <1>8, <1>9
  <2>2. "region" \in {"region", "split", "free", "other"}
    OBVIOUS
  <2> QED BY <1>1, <1>3, <1>7, <1>9, <2>1, <2>2, RequestKeeps
<1>11. /\ PagesIn(pool') = PagesIn(pool) \cup kept /\ HeldBlock' = {}
       /\ \A j, k \in 1 .. Len(pool') : pool'[j].page = pool'[k].page => j = k
  BY <1>9, <1>10, SameNodes DEF HeldBlock
<1> HIDE DEF kept
<1>12. /\ Disjoint(Pages(poolMap), poolHeld, {}, PagesIn(pool), {}, tables)
       /\ Pages(poolMap) \cup poolHeld \cup PagesIn(pool) \cup tables \subseteq PoolManaged
  BY <1>2, <1>5 DEF PagesApart, PagesManaged
<1>13. PagesApart'
  <2>1. Disjoint(Pages(poolMap'), poolHeld', WaitingPages', PagesIn(pool'), NewPage', tables')
    <3>1. Disjoint(Pages(poolMap), poolHeld, PagesOf(r) \ kept, PagesIn(pool) \cup kept, {}, tables)
      BY <1>3, <1>7, <1>12 DEF Disjoint
    <3> QED BY <1>1, <1>7, <1>10, <1>11, <3>1
  <2> QED BY <1>1, <1>2, <1>11, <2>1 DEF PagesApart
<1>14. PagesManaged'
  BY <1>1, <1>4, <1>7, <1>10, <1>11, <1>12 DEF PagesManaged
<1>15. HeldPages' = HeldPages \cup kept
  BY <1>1, <1>5, <1>10, <1>11, HeldOnes
<1>16. [AbstractPool!Next]_(AbstractPool!vars)
  <2>1. CASE pool = <<>>
    <3>1. kept = {first} /\ first .. first = {first}
      BY <1>3, <2>1 DEF kept
    <3>2. HeldPages = poolHeld \cup PagesIn(pool) \cup tables
      BY <1>5, HeldOnes
    <3>3. {first} \cap (Pages(poolMap) \cup HeldPages) = {}
      BY <1>3, <1>7, <1>12, <3>2
    <3>4. AbstractPool!Add(first, first, {first})
      BY <1>1, <1>15, <3>1, <3>3 DEF AbstractPool!Add
    <3>5. first \in PoolMachine
      BY <1>3, <1>7
    <3> QED BY <3>4, <3>5 DEF AbstractPool!Next
  <2>2. CASE pool # <<>>
    <3>1. HeldPages' = HeldPages
      BY <1>15, <2>2 DEF kept
    <3> QED BY <1>1, <3>1 DEF AbstractPool!vars
  <2> QED BY <2>1, <2>2
<1> QED BY <1>10, <1>13, <1>14, <1>16 DEF PoolInv

-----------------------------------------------------------------------------
LEMMA PoolStarts == PoolInit => PoolInv
<1> SUFFICES ASSUME PoolInit PROVE PoolInv
  OBVIOUS
<1>1. /\ poolMap = <<>> /\ poolHeld = {} /\ pool = <<>> /\ tables = {} /\ other = {}
      /\ pending = Nothing /\ poolRegion = 1
  BY DEF PoolInit
<1>2. pending.for = "nothing" /\ pending # Panic
  BY <1>1 DEF Nothing, Panic
<1>3. /\ ~Waiting /\ ~Growing /\ ~Stopped /\ CountedOff = 0
      /\ WaitingNode = {} /\ WaitingPages = {} /\ NewPage = {}
  BY <1>2 DEF Waiting, Growing, Stopped, CountedOff, WaitingNode, WaitingPages, NewPage
<1>4. PoolTypeOK
  <2>1. poolRegion \in 1 .. Len(PoolRegions) + 1
    <3>1. Len(PoolRegions) \in Nat
      BY PoolAssumption
    <3> QED BY <1>1, <3>1
  <2> QED BY <1>1, <2>1 DEF PoolTypeOK
<1>5. /\ NodesOf(poolMap) = {} /\ OwnNodes(poolMap) /\ UsedNodes(pool) = {} /\ Exact(pool, 0)
      /\ PagesIn(pool) = {} /\ Pages(poolMap) = {} /\ Coalesced(poolMap)
  BY <1>1 DEF NodesOf, OwnNodes, UsedNodes, NodesIn, Exact, PagesIn, Pages, Coalesced
<1>6. NodesSound
  BY <1>1, <1>3, <1>5 DEF NodesSound
<1>7. NothingBefore /\ PageObtained /\ PanicHonest
  BY <1>1, <1>3 DEF NothingBefore, PageObtained, PanicHonest
<1>8. PagesApart /\ PagesManaged
  BY <1>1, <1>3, <1>5 DEF PagesApart, PagesManaged, Disjoint
<1> QED BY <1>4, <1>6, <1>7, <1>8 DEF PoolInv

(* Every step keeps the invariant, and is one of the page allocator or      *)
(* changes nothing of it.                                                   *)
LEMMA PoolNextKeeps ==
  ASSUME PoolInv, [PoolNext]_poolVars
  PROVE  PoolInv' /\ [AbstractPool!Next]_(AbstractPool!vars)
<1>1. CASE PoolSkipRegion
  BY <1>1, PoolSkipRegionKeeps
<1>2. CASE PoolAddRegion
  BY <1>2, PoolAddRegionKeeps
<1>3. ASSUME NEW count \in PoolCounts, NEW align \in PoolAlignments, AllocAtEnd(count, align)
      PROVE  PoolInv' /\ [AbstractPool!Next]_(AbstractPool!vars)
  BY <1>3, AllocAtEndKeeps
<1>4. ASSUME NEW count \in PoolCounts, NEW align \in PoolAlignments, AllocInside(count, align)
      PROVE  PoolInv' /\ [AbstractPool!Next]_(AbstractPool!vars)
  BY <1>4, AllocInsideKeeps
<1>5. ASSUME NEW addr \in poolHeld, NEW count \in PoolCounts, PoolFree(addr, count)
      PROVE  PoolInv' /\ [AbstractPool!Next]_(AbstractPool!vars)
  BY <1>5, PoolFreeKeeps
<1>6. CASE OtherTakes
  BY <1>6, OtherTakesKeeps
<1>7. ASSUME NEW node \in other, OtherReturns(node)
      PROVE  PoolInv' /\ [AbstractPool!Next]_(AbstractPool!vars)
  BY <1>7, OtherReturnsKeeps
<1>8. CASE Exhausted
  BY <1>8, ExhaustedKeeps
<1>9. CASE GetPage \/ GetDirectory
  BY <1>9, GetKeeps
<1>10. CASE LinkPage
  BY <1>10, LinkPageKeeps
<1>11. CASE Insert
  BY <1>11, InsertKeeps
<1>12. CASE OtherKeeps
  BY <1>12, OtherKeepsKeeps
<1>13. CASE UNCHANGED poolVars
  <2>1. /\ poolMap' = poolMap /\ poolHeld' = poolHeld /\ pool' = pool /\ tables' = tables
        /\ other' = other /\ pending' = pending /\ poolRegion' = poolRegion
    BY <1>13 DEF poolVars
  <2>2. /\ Waiting' = Waiting /\ Growing' = Growing /\ Stopped' = Stopped
        /\ WaitingNode' = WaitingNode /\ WaitingPages' = WaitingPages /\ NewPage' = NewPage
        /\ CountedOff' = CountedOff /\ HeldBlock' = HeldBlock
    BY <2>1 DEF Waiting, Growing, Stopped, WaitingNode, WaitingPages, NewPage, CountedOff,
                HeldBlock
  <2>3. PoolTypeOK'
    BY <2>1 DEF PoolInv, PoolTypeOK, Node
  <2>4. NodesSound' /\ NothingBefore' /\ PageObtained' /\ PanicHonest'
    BY <2>1, <2>2 DEF PoolInv, NodesSound, NothingBefore, PageObtained, PanicHonest
  <2>5. PagesApart' /\ PagesManaged'
    <3>1. PagesIn(pool') = PagesIn(pool) /\ PoolManaged' = PoolManaged
      BY <2>1 DEF PagesIn, PoolManaged
    <3> QED BY <2>1, <2>2, <3>1 DEF PoolInv, PagesApart, PagesManaged
  <2>6. HeldPages' = HeldPages
    BY <2>1, <2>2, HeldOnes
  <2> QED BY <2>1, <2>3, <2>4, <2>5, <2>6 DEF PoolInv, AbstractPool!vars
<1> QED BY <1>1, <1>2, <1>3, <1>4, <1>5, <1>6, <1>7, <1>8, <1>9, <1>10, <1>11, <1>12, <1>13,
           Zenon DEF PoolNext

LEMMA PoolInvHolds == PoolSpec => []PoolInv
<1>1. PoolInv /\ [PoolNext]_poolVars => PoolInv'
  BY PoolNextKeeps
<1> QED BY PoolStarts, <1>1, PTL DEF PoolSpec

(* As many values as positions, when no two positions share one. *)
LEMMA DistinctCount ==
  ASSUME NEW n \in Nat, NEW F, NEW S, F \in [1 .. n -> S],
         \A i, j \in 1 .. n : F[i] = F[j] => i = j,
         \A s \in S : \E i \in 1 .. n : F[i] = s
  PROVE  IsFiniteSet(S) /\ Cardinality(S) = n
<1>1. F \in Bijection(1 .. n, S)
  BY DEF Bijection, Injection, Surjection, IsInjective
<1>2. IsFiniteSet(1 .. n) /\ Cardinality(1 .. n) = n
  <2>1. 1 \in Int /\ n \in Int
    OBVIOUS
  <2>2. IsFiniteSet(1 .. n) /\ Cardinality(1 .. n) = IF 1 > n THEN 0 ELSE n - 1 + 1
    BY <2>1, FS_Interval
  <2> QED BY <2>2
<1>3. ExistsBijection(1 .. n, S)
  BY <1>1 DEF ExistsBijection
<1> QED BY <1>2, <1>3, FS_Bijection

LEMMA PoolInvSound == PoolInv => PoolSound
<1> SUFFICES ASSUME PoolInv PROVE PoolSound
  OBVIOUS
<1>1. /\ PoolTypeOK /\ NodesSound /\ NothingBefore /\ PageObtained /\ PanicHonest
      /\ PagesApart /\ PagesManaged
  BY DEF PoolInv
<1>2. /\ pool \in Seq(PoolPage) /\ poolMap \in Seq(NodeBlock(NodesIn(pool)))
      /\ Len(pool) \in Nat /\ Len(poolMap) \in Nat
  BY <1>1, PoolShape
<1>3. ListNodes = NodesOf(poolMap) /\ ValidNodes = UsedNodes(pool)
  BY DEF ListNodes, NodesOf, ValidNodes, UsedNodes, Node, NodesIn
<1>4. Cardinality(ListNodes) = Len(poolMap)
  <2> DEFINE F == [i \in 1 .. Len(poolMap) |-> poolMap[i].node]
  <2>1. F \in [1 .. Len(poolMap) -> ListNodes]
    BY DEF ListNodes
  <2>2. \A i, j \in 1 .. Len(poolMap) : F[i] = F[j] => i = j
    BY <1>1 DEF NodesSound, OwnNodes
  <2>3. \A s \in ListNodes : \E i \in 1 .. Len(poolMap) : F[i] = s
    BY DEF ListNodes
  <2> HIDE DEF F
  <2> QED BY <1>2, <2>1, <2>2, <2>3, DistinctCount
<1>5. NodesAccounted
  BY <1>1, <1>3, <1>4 DEF NodesSound, NodesAccounted
<1>6. CountsExact
  <2>1. SUFFICES ASSUME NEW k \in 1 .. Len(pool)
                 PROVE  k = CountedOff <=> Growing /\ pending.node[1] = k
    BY <1>1 DEF CountsExact, NodesSound, Exact
  <2>2. k # 0
    BY <1>2
  <2> QED BY <2>2 DEF CountedOff
<1>7. PoolPages = PagesIn(pool) \cup NewPage
  BY DEF PoolPages, PagesIn, NewPage
<1>8. IsFiniteSet(PagesIn(pool)) /\ Cardinality(PagesIn(pool)) = Len(pool)
  <2> DEFINE F == [k \in 1 .. Len(pool) |-> pool[k].page]
  <2>1. F \in [1 .. Len(pool) -> PagesIn(pool)]
    BY DEF PagesIn
  <2>2. \A i, j \in 1 .. Len(pool) : F[i] = F[j] => i = j
    BY <1>1 DEF PagesApart
  <2>3. \A s \in PagesIn(pool) : \E i \in 1 .. Len(pool) : F[i] = s
    BY DEF PagesIn
  <2> HIDE DEF F
  <2> QED BY <1>2, <2>1, <2>2, <2>3, DistinctCount
<1>9. Disjoint(Pages(poolMap), poolHeld, WaitingPages, PagesIn(pool), NewPage, tables)
  BY <1>1 DEF PagesApart
<1>10. Cardinality(PoolPages)
         = Len(pool) + (IF Growing /\ pending.page # 0 THEN 1 ELSE 0)
  <2>1. CASE Growing /\ pending.page # 0
    <3>1. NewPage = {pending.page}
      BY <2>1 DEF NewPage
    <3>2. pending.page \notin PagesIn(pool)
      BY <1>9, <3>1 DEF Disjoint
    <3>3. PoolPages = PagesIn(pool) \cup {pending.page}
      BY <1>7, <3>1
    <3>4. Cardinality(PoolPages) = Len(pool) + 1
      BY <1>8, <3>2, <3>3, FS_AddElement
    <3> QED BY <2>1, <3>4
  <2>2. CASE ~(Growing /\ pending.page # 0)
    <3>1. NewPage = {}
      BY <2>2 DEF NewPage
    <3>2. PoolPages = PagesIn(pool)
      BY <1>7, <3>1
    <3> QED BY <1>2, <1>8, <2>2, <3>2
  <2> QED BY <2>1, <2>2
<1>11. PagesAccounted
  <2>1. Coalesced(poolMap)
    BY <1>1 DEF PagesApart
  <2> QED BY <1>7, <1>9, <1>10, <2>1 DEF PagesAccounted, Disjoint
<1> QED BY <1>1, <1>5, <1>6, <1>11 DEF PoolSound

(* Through merging, carving, growing and the nested allocations, whatever   *)
(* the regions, the requests and the number of slots of a page: no node is  *)
(* lost or given out twice, the trailers count the free slots, every page   *)
(* has one use, and the kernel stops only when no page is free.             *)
THEOREM PoolStaysSound == PoolSpec => []PoolSound
BY PoolInvHolds, PoolInvSound, PTL

(* The allocator with its nodes, and what it takes from itself for them,    *)
(* implements the page allocator of its callers.                            *)
THEOREM PoolImplements == PoolSpec => PoolImplementsPageAllocator
<1>1. PoolInit => AbstractPool!Init
  <2>1. SUFFICES ASSUME PoolInit PROVE Pages(poolMap) = {} /\ HeldPages = {}
    BY DEF AbstractPool!Init
  <2>2. /\ poolMap = <<>> /\ poolHeld = {} /\ pool = <<>> /\ tables = {}
        /\ pending.for = "nothing"
    BY <2>1 DEF PoolInit, Nothing
  <2>3. PagesIn(pool) = {} /\ NewPage = {} /\ HeldBlock = {} /\ Pages(poolMap) = {}
    BY <2>2 DEF PagesIn, NewPage, HeldBlock, Growing, Waiting, Pages
  <2> QED BY <2>2, <2>3, HeldOnes
<1>2. PoolInv /\ [PoolNext]_poolVars => [AbstractPool!Next]_(AbstractPool!vars)
  BY PoolNextKeeps
<1> QED BY PoolInvHolds, <1>1, <1>2, PTL
        DEF PoolSpec, PoolImplementsPageAllocator, AbstractPool!Spec
=============================================================================
