--------------------------- MODULE ProcessMemoryProofs ---------------------------
(***************************************************************************)
(* The memory of a process.  Its address space, for any range, any page    *)
(* counts, any frames and any reach of a page table: the list of typed     *)
(* blocks covers the range and is merged, no frame is lost or used twice,  *)
(* a refusal is honest, and every step is one of AddressSpace or changes   *)
(* nothing there.  Its heap, which is the kernel's too, for any requests,  *)
(* any size of the pages and of the heap: the blocks lie one behind the    *)
(* other, no two callers share a word, free space is in as few pieces as   *)
(* it can be, and the pages that are given back are those, and all those,  *)
(* that hold nothing but free space.                                       *)
(***************************************************************************)
EXTENDS VirtualMemory, Heap, BlockListProofs, FiniteSetTheorems

Types == {FREE, RESERVE, COMMIT}
List == Seq(Block(Types))

(* Nothing is left of a block of size 0.                                    *)
PutBack(list, blk) == IF blk.size > 0 THEN InsertLink(list, blk) ELSE list

(* What a piece put back, or nothing, does to the pages of the list.        *)
LEMMA PutBackTakes ==
  ASSUME NEW list \in List, NEW blk \in Block(Types), Coalesced(list),
         PagesOf(blk) \cap Pages(list) = {}
  PROVE  PutBack(list, blk) \in List /\ Took(PutBack(list, blk), list, blk)
<1>1. CASE blk.size > 0
  <2>1. CanTake(list, blk) /\ list \in Seq(Block(Types))
    BY <1>1 DEF CanTake, List
  <2>2. InsertLink(list, blk) \in Seq(Block(Types)) /\ Took(InsertLink(list, blk), list, blk)
    BY <2>1, InsertLinkTakes
  <2> QED BY <1>1, <2>2 DEF PutBack, List
<1>2. CASE ~(blk.size > 0)
  <2>1. PagesOf(blk) = {}
    BY <1>2 DEF PagesOf, End, Block
  <2> QED BY <1>2, <2>1 DEF PutBack, Took
<1> QED BY <1>1, <1>2

(* A block whose pages no block of the list holds may be put back.          *)
LEMMA NotHeld ==
  ASSUME NEW list \in List, NEW blk \in Block(Types),
         \A p \in PagesOf(blk) : \A t \in Types : ~Holds(list, p, t)
  PROVE  PagesOf(blk) \cap Pages(list) = {}
<1>1. PagesOf(blk) \subseteq Nat
  BY DEF PagesOf, End, Block
<1>2. \A p \in Nat : p \in Pages(list) <=> \E t \in Types : Holds(list, p, t)
  BY PagesHeld DEF List
<1> QED BY <1>1, <1>2

(* What vmm_alloc and vmm_free make of a block: its pages start up to       *)
(* start + count - 1 change their type, no other page does, and the list    *)
(* is merged again.                                                         *)
THEOREM RetypeChanges ==
  ASSUME NEW list \in List, Coalesced(list), NEW i \in 1 .. Len(list),
         NEW start \in Nat, NEW count \in Nat \ {0}, NEW type \in Types,
         list[i].addr <= start, start + count <= End(list[i])
  PROVE  LET r == Retype(list, i, start, count, type) IN
         /\ r \in List
         /\ Coalesced(r)
         /\ \A p \in Nat : \A t \in Types :
              Holds(r, p, t) <=> IF p \in start .. (start + count - 1) THEN t = type
                                 ELSE Holds(list, p, t)
<1> DEFINE node  == list[i]
           left  == Region(node.addr, start - node.addr, node.type)
           mid   == Region(start, count, type)
           right == Region(start + count, End(node) - start - count, node.type)
           rest  == DeleteLink(list, i)
           lower == PutBack(rest, left)
           upper == InsertLink(lower, mid)
           r     == PutBack(upper, right)
           run   == start .. (start + count - 1)
<1>1. node \in Block(Types)
  BY DEF List
<1>2. node.addr \in Nat /\ node.size \in Nat /\ node.type \in Types /\ End(node) \in Nat
  BY <1>1 DEF Block, End
<1>3. /\ left \in Block(Types) /\ left.type = node.type /\ left.size = start - node.addr
      /\ PagesOf(left) = node.addr .. (start - 1)
  <2>1. PICK a \in Nat, z \in Nat : a = node.addr /\ z = start - a
    BY <1>2
  <2>2. a + z = start /\ z = start - node.addr
    BY <2>1
  <2>3. /\ left = [addr |-> a, size |-> z, type |-> node.type]
    BY <2>1 DEF Region
  <2> HIDE DEF left
  <2>4. left.addr = a /\ left.size = z /\ left.type = node.type /\ left \in Block(Types)
    BY <1>2, <2>1, <2>3 DEF Block
  <2>5. End(left) = start
    BY <2>2, <2>4 DEF End
  <2> QED BY <2>1, <2>2, <2>4, <2>5 DEF PagesOf
<1>4. /\ mid \in Block(Types) /\ mid.type = type /\ mid.size = count
      /\ PagesOf(mid) = run
  BY <1>2 DEF Region, Block, PagesOf, End
<1>5. /\ right \in Block(Types) /\ right.type = node.type
      /\ right.size = End(node) - start - count
      /\ PagesOf(right) = (start + count) .. (End(node) - 1)
  BY <1>2 DEF Region, Block, PagesOf, End
<1>6. Retype(list, i, start, count, type) = r
  BY DEF Retype, PutBack
<1>7. PagesOf(node) = node.addr .. (End(node) - 1)
  BY DEF PagesOf
<1>8. /\ PagesOf(node) = PagesOf(left) \cup run \cup PagesOf(right)
      /\ PagesOf(left) \cap run = {} /\ PagesOf(left) \cap PagesOf(right) = {}
      /\ run \cap PagesOf(right) = {} /\ PagesOf(node) \subseteq Nat
  <2> DEFINE a == node.addr
             z == End(node)
  <2>1. /\ a \in Nat /\ z \in Nat /\ a <= start /\ start + count <= z
        /\ PagesOf(node) = a .. (z - 1) /\ PagesOf(left) = a .. (start - 1)
        /\ PagesOf(right) = (start + count) .. (z - 1)
    BY <1>2, <1>3, <1>5, <1>7
  <2> HIDE DEF a, z, node, left, right
  <2>2. PagesOf(node) \subseteq Nat
    BY <2>1
  <2>3. PagesOf(node) \subseteq PagesOf(left) \cup run \cup PagesOf(right)
    BY <2>1
  <2>4. PagesOf(left) \cup run \cup PagesOf(right) \subseteq PagesOf(node)
    BY <2>1
  <2>5. PagesOf(left) \cap run = {} /\ PagesOf(left) \cap PagesOf(right) = {}
        /\ run \cap PagesOf(right) = {}
    BY <2>1
  <2> QED BY <2>2, <2>3, <2>4, <2>5
<1>9. \A p \in PagesOf(node) : \A t \in Types : Holds(list, p, t) <=> t = node.type
  <2>1. \A p \in PagesOf(node) : Holds(list, p, node.type)
    BY DEF Holds
  <2>2. ASSUME NEW p \in PagesOf(node), NEW t \in Types, Holds(list, p, t)
        PROVE  t = node.type
    <3>1. PICK j \in 1 .. Len(list) : p \in PagesOf(list[j]) /\ list[j].type = t
      BY <2>2 DEF Holds
    <3>2. j = i
      BY <3>1, OneBlockHolds DEF List
    <3> QED BY <3>1, <3>2
  <2> QED BY <2>1, <2>2
<1> HIDE DEF node, left, mid, right
<1>10. /\ rest \in List /\ Coalesced(rest)
       /\ \A p \in Nat : \A t : Holds(rest, p, t) <=> Holds(list, p, t) /\ p \notin PagesOf(node)
  BY DeleteLinkDrops DEF List, node
<1> HIDE DEF rest, run
<1>11. lower \in List /\ Took(lower, rest, left)
  <2>1. \A p \in PagesOf(left) : \A t \in Types : ~Holds(rest, p, t)
    BY <1>8, <1>10
  <2> QED BY <1>3, <1>10, <2>1, NotHeld, PutBackTakes
<1> HIDE DEF lower
<1>12. upper \in List /\ Took(upper, lower, mid)
  <2>1. \A p \in PagesOf(mid) : \A t \in Types : ~Holds(lower, p, t)
    BY <1>4, <1>8, <1>10, <1>11 DEF Took
  <2>2. CanTake(lower, mid)
    BY <1>4, <1>11, <2>1, NotHeld DEF CanTake, Took
  <2> QED BY <1>4, <1>11, <2>2, InsertLinkTakes DEF List
<1> HIDE DEF upper
<1>13. r \in List /\ Took(r, upper, right)
  <2>1. \A p \in PagesOf(right) : \A t \in Types : ~Holds(upper, p, t)
    BY <1>4, <1>8, <1>10, <1>11, <1>12 DEF Took
  <2> QED BY <1>5, <1>12, <2>1, NotHeld, PutBackTakes DEF Took
<1> HIDE DEF r
<1>14. ASSUME NEW p \in Nat, NEW t \in Types
       PROVE  Holds(r, p, t) <=> IF p \in run THEN t = type ELSE Holds(list, p, t)
  <2>1. /\ Holds(lower, p, t) <=> Holds(rest, p, t) \/ (p \in PagesOf(left) /\ t = node.type)
        /\ Holds(upper, p, t) <=> Holds(lower, p, t) \/ (p \in run /\ t = type)
        /\ Holds(r, p, t) <=> Holds(upper, p, t) \/ (p \in PagesOf(right) /\ t = node.type)
    BY <1>3, <1>4, <1>5, <1>11, <1>12, <1>13 DEF Took
  <2>2. Holds(rest, p, t) <=> Holds(list, p, t) /\ p \notin PagesOf(node)
    BY <1>10
  <2>3. p \in PagesOf(node) => (Holds(list, p, t) <=> t = node.type)
    BY <1>9
  <2> QED BY <1>8, <2>1, <2>2, <2>3
<1> QED BY <1>6, <1>13, <1>14 DEF Took, run

-----------------------------------------------------------------------------
(* The arguments of a function with a given value, ... *)
Where(S, f, v) == {x \in S : f[x] = v}

(* ... and what their number says.                                          *)
LEMMA CountOf ==
  ASSUME NEW S, IsFiniteSet(S), NEW f, NEW v
  PROVE  LET n == Cardinality(Where(S, f, v)) IN
         /\ n \in Nat
         /\ n = 0 <=> \A x \in S : f[x] # v
         /\ n = 1 <=> \E x \in S : f[x] = v /\ \A y \in S : f[y] = v => x = y
<1> DEFINE A == {x \in S : f[x] = v}
<1>0. A = Where(S, f, v)
  BY DEF Where
<1>1. IsFiniteSet(A)
  BY FS_Subset
<1>2. Cardinality(A) \in Nat /\ (Cardinality(A) = 0 <=> A = {})
  BY <1>1, FS_CardinalityType, FS_EmptySet
<1>3. Cardinality(A) = 1 <=> \E x : A = {x}
  BY <1>1, FS_Singleton
<1>4. (\E x : A = {x}) <=> \E x \in S : f[x] = v /\ \A y \in S : f[y] = v => x = y
  <2>1. ASSUME NEW x, A = {x}
        PROVE  \E z \in S : f[z] = v /\ \A y \in S : f[y] = v => z = y
    BY <2>1
  <2>2. ASSUME NEW x \in S, f[x] = v, \A y \in S : f[y] = v => x = y
        PROVE  A = {x}
    BY <2>2
  <2> QED BY <2>1, <2>2
<1> QED BY <1>0, <1>2, <1>3, <1>4

(* FramesConserved without counting: no frame has two uses, every one has   *)
(* one.                                                                     *)
OneUse(f) ==
  /\ \A p, q \in Page : entry[p] = f /\ entry[q] = f => p = q
  /\ \A t, u \in Tables : table[t] = f /\ table[u] = f => t = u
  /\ \A p \in Page, t \in Tables : ~(entry[p] = f /\ table[t] = f)
  /\ \A p \in Page : entry[p] = f => f \notin free
  /\ \A t \in Tables : table[t] = f => f \notin free

Used(f) == f \in free \/ (\E p \in Page : entry[p] = f) \/ (\E t \in Tables : table[t] = f)

OneUseEach == \A f \in Frames : OneUse(f) /\ Used(f)

LEMMA PagesFinite == IsFiniteSet(Page) /\ IsFiniteSet(Tables)
<1> DEFINE f == [p \in Page |-> p \div TableSpan]
<1>1. IsFiniteSet(Page)
  BY FS_Interval, RangeAssumption DEF Page
<1>2. f \in Surjection(Page, Tables)
  BY DEF Surjection, Tables
<1>3. IsFiniteSet(Tables)
  BY <1>1, <1>2, FS_Surjection
<1> QED BY <1>1, <1>3

LEMMA FramesCounted == FramesConserved <=> OneUseEach
<1> SUFFICES ASSUME NEW f \in Frames
             PROVE  (Cardinality({p \in Page : entry[p] = f})
                       + Cardinality({t \in Tables : table[t] = f})
                       + (IF f \in free THEN 1 ELSE 0) = 1) <=> OneUse(f) /\ Used(f)
  BY DEF FramesConserved, OneUseEach
<1> DEFINE a == Cardinality(Where(Page, entry, f))
           b == Cardinality(Where(Tables, table, f))
           one(S, g) == \E x \in S : g[x] = f /\ \A y \in S : g[y] = f => x = y
<1>0. a = Cardinality({p \in Page : entry[p] = f}) /\ b = Cardinality({t \in Tables : table[t] = f})
  BY Zenon DEF Where
<1>1. a \in Nat /\ (a = 0 <=> \A p \in Page : entry[p] # f) /\ (a = 1 <=> one(Page, entry))
  BY PagesFinite, CountOf
<1>2. b \in Nat /\ (b = 0 <=> \A t \in Tables : table[t] # f) /\ (b = 1 <=> one(Tables, table))
  BY PagesFinite, CountOf
<1> HIDE DEF a, b
<1>3. CASE f \in free
  <2>1. a + b + 1 = 1 <=> a = 0 /\ b = 0
    BY <1>1, <1>2
  <2> QED BY <1>0, <1>1, <1>2, <1>3, <2>1 DEF OneUse, Used
<1>4. CASE f \notin free
  <2>1. a + b + 0 = 1 <=> (a = 1 /\ b = 0) \/ (a = 0 /\ b = 1)
    BY <1>1, <1>2
  <2>2. OneUse(f) /\ Used(f) <=> (a = 1 /\ b = 0) \/ (a = 0 /\ b = 1)
    BY <1>1, <1>2, <1>4 DEF OneUse, Used
  <2> QED BY <1>0, <1>4, <2>1, <2>2
<1> QED BY <1>3, <1>4

(* alloc_physical_memory answers a free frame, or 0 when there is none.     *)
LEMMA LowestIsFree ==
  ASSUME NEW frames \in SUBSET Nat
  PROVE  IF frames = {} THEN Lowest(frames) = 0 ELSE Lowest(frames) \in frames
BY LeastNumber DEF Lowest

-----------------------------------------------------------------------------
(* The inductive invariant; that a refusal is honest follows from it.       *)
SpaceInv == TypeOK /\ Tiled /\ OneUseEach

(* The type of every page, as Abstract has it.                              *)
KindOf(list) ==
  [p \in Page |-> CHOOSE type \in {FREE, RESERVE, COMMIT} : Holds(list, p, type)]

(* On a list that covers the range every page has one type.                 *)
LEMMA OneType ==
  ASSUME NEW list \in List, Coalesced(list), Pages(list) = Page, NEW p \in Page
  PROVE  /\ p \in Nat
         /\ KindOf(list)[p] \in Types
         /\ \A t \in Types : Holds(list, p, t) <=> KindOf(list)[p] = t
<1>1. p \in Nat /\ \E t \in Types : Holds(list, p, t)
  BY PagesHeld DEF List
<1>2. ASSUME NEW t \in Types, NEW u \in Types, Holds(list, p, t), Holds(list, p, u)
      PROVE  t = u
  <2>1. PICK i \in 1 .. Len(list) : p \in PagesOf(list[i]) /\ list[i].type = t
    BY <1>2 DEF Holds
  <2>2. PICK j \in 1 .. Len(list) : p \in PagesOf(list[j]) /\ list[j].type = u
    BY <1>2 DEF Holds
  <2>3. i = j
    BY <2>1, <2>2, OneBlockHolds DEF List
  <2> QED BY <2>1, <2>2, <2>3
<1>3. KindOf(list)[p] \in Types /\ Holds(list, p, KindOf(list)[p])
  <2>1. KindOf(list)[p] = CHOOSE t \in Types : Holds(list, p, t)
    BY DEF KindOf, Types
  <2> QED BY <1>1, <2>1
<1> QED BY <1>1, <1>2, <1>3

(* A list that holds every page of the range, and only those, covers it.    *)
LEMMA TiledByHolds ==
  ASSUME NEW list \in List, NEW new \in List, Coalesced(new), Pages(list) = Page,
         \A p \in Nat : (\E t \in Types : Holds(new, p, t)) <=> (\E t \in Types : Holds(list, p, t))
  PROVE  Pages(new) = Page
<1>1. /\ Pages(list) \subseteq Nat
      /\ \A p \in Nat : p \in Pages(list) <=> \E t \in Types : Holds(list, p, t)
  BY PagesHeld DEF List
<1>2. /\ Pages(new) \subseteq Nat
      /\ \A p \in Nat : p \in Pages(new) <=> \E t \in Types : Holds(new, p, t)
  BY PagesHeld DEF List
<1> QED BY <1>1, <1>2

LEMMA BlockInRange ==
  ASSUME TypeOK, Tiled, NEW i \in 1 .. Len(vmma)
  PROVE  /\ vmma[i] \in Block(Types) /\ vmma[i].type \in Types
         /\ vmma[i].addr \in Nat /\ vmma[i].size \in Nat \ {0} /\ End(vmma[i]) \in Nat
         /\ PagesOf(vmma[i]) \subseteq Page
         /\ \A p \in PagesOf(vmma[i]) : Holds(vmma, p, vmma[i].type)
<1>1. vmma[i] \in Block(Types) /\ vmma[i].size > 0
  BY DEF TypeOK, Tiled, Types, Coalesced
<1>2. PagesOf(vmma[i]) \subseteq Page
  BY DEF Tiled, Pages
<1>3. \A p \in PagesOf(vmma[i]) : Holds(vmma, p, vmma[i].type)
  BY DEF Holds
<1> QED BY <1>1, <1>2, <1>3 DEF Block, End

(* count pages from start on become of a type, in a list that stays one.    *)
RunBecomes(i, start, count, type) ==
  LET run == start .. (start + count - 1) IN
  /\ vmma' \in List /\ Coalesced(vmma') /\ Pages(vmma') = Page
  /\ run \subseteq Page /\ start \in Page /\ start + count - 1 \in Page
  /\ \A p \in run : KindOf(vmma)[p] = vmma[i].type
  /\ KindOf(vmma') = [p \in Page |-> IF p \in run THEN type ELSE KindOf(vmma)[p]]

(* What a run of pages becomes when one block holds it.                     *)
LEMMA RunRetyped ==
  ASSUME TypeOK, Tiled, NEW i \in 1 .. Len(vmma), NEW start \in Nat,
         NEW count \in Nat \ {0}, NEW type \in Types,
         vmma[i].addr <= start, start + count <= End(vmma[i]),
         vmma' = Retype(vmma, i, start, count, type)
  PROVE  RunBecomes(i, start, count, type)
<1> DEFINE run == start .. (start + count - 1)
<1>1. vmma \in List /\ Coalesced(vmma) /\ Pages(vmma) = Page
  BY DEF TypeOK, Tiled, List, Types
<1>2. /\ vmma' \in List /\ Coalesced(vmma')
      /\ \A p \in Nat : \A t \in Types :
              Holds(vmma', p, t) <=> IF p \in run THEN t = type ELSE Holds(vmma, p, t)
  BY <1>1, RetypeChanges
<1>3. run \subseteq PagesOf(vmma[i]) /\ start \in run /\ start + count - 1 \in run
  <2>1. PICK a \in Nat, e \in Nat : a = vmma[i].addr /\ e = End(vmma[i])
    BY BlockInRange
  <2>2. a <= start /\ start + count <= e
    BY <2>1
  <2>3. run \subseteq a .. (e - 1)
    BY <2>2
  <2>4. PagesOf(vmma[i]) = a .. (e - 1)
    BY <2>1 DEF PagesOf
  <2> QED BY <2>3, <2>4
<1> HIDE DEF run
<1>4. run \subseteq Page /\ \A p \in run : Holds(vmma, p, vmma[i].type)
  BY <1>3, BlockInRange
<1>5. \A p \in Nat : (\E t \in Types : Holds(vmma', p, t)) <=> (\E t \in Types : Holds(vmma, p, t))
  BY <1>2, <1>4, BlockInRange
<1>6. Pages(vmma') = Page
  BY <1>1, <1>2, <1>5, TiledByHolds
<1>7. \A p \in run : KindOf(vmma)[p] = vmma[i].type
  BY <1>1, <1>4, OneType, BlockInRange
<1>8. \A p \in Page : KindOf(vmma')[p] = IF p \in run THEN type ELSE KindOf(vmma)[p]
  <2> SUFFICES ASSUME NEW p \in Page
               PROVE  KindOf(vmma')[p] = IF p \in run THEN type ELSE KindOf(vmma)[p]
    OBVIOUS
  <2>1. /\ p \in Nat /\ KindOf(vmma)[p] \in Types
        /\ \A t \in Types : Holds(vmma, p, t) <=> KindOf(vmma)[p] = t
    BY <1>1, OneType
  <2>2. \A t \in Types : Holds(vmma', p, t) <=> KindOf(vmma')[p] = t
    BY <1>2, <1>6, OneType
  <2> QED BY <1>2, <2>1, <2>2
<1>9. KindOf(vmma') = [p \in Page |-> KindOf(vmma')[p]]
  BY DEF KindOf
<1> QED BY <1>2, <1>3, <1>4, <1>6, <1>7, <1>8, <1>9 DEF run, RunBecomes

-----------------------------------------------------------------------------
(* The pages with memory behind them, as Abstract has them.                 *)
Backed == {p \in Page : entry[p] # Absent}

(* A run of pages of one type that becomes of another is a step of Abstract. *)
LEMMA ChangeStep ==
  ASSUME NEW first \in Page, NEW last \in Page, first <= last, NEW old, NEW new,
         <<old, new>> \in Abstract!Changes,
         first .. last \subseteq Page,
         \A p \in first .. last : KindOf(vmma)[p] = old,
         KindOf(vmma') = [p \in Page |-> IF p \in first .. last THEN new ELSE KindOf(vmma)[p]],
         Backed' = IF old = COMMIT THEN Backed \ (first .. last) ELSE Backed
  PROVE  Abstract!Next
<1> DEFINE change == <<old, new>>
           step(a, b, c) == a <= b /\ Abstract!Change(a, b, c)
<1>1. change[1] = old /\ change[2] = new /\ change \in Abstract!Changes
  OBVIOUS
<1> HIDE DEF change
<1>2. Abstract!Change(first, last, change)
  <2>1. KindOf(vmma') = [p \in Page |-> IF p \in first .. last THEN change[2] ELSE KindOf(vmma)[p]]
    BY <1>1
  <2>2. \A p \in first .. last : KindOf(vmma)[p] = change[1]
    BY <1>1
  <2>3. Backed' = IF change[1] = 2 THEN Backed \ (first .. last) ELSE Backed
    BY <1>1 DEF COMMIT
  <2> QED BY <2>1, <2>2, <2>3, Zenon DEF Abstract!Change, KindOf, Backed
<1>3. step(first, last, change)
  BY <1>2
<1> HIDE DEF step
<1>4. \E a, b \in Page, c \in Abstract!Changes : step(a, b, c)
  BY <1>1, <1>3
<1> QED BY <1>4 DEF step, Abstract!Next

(* virtual_alloc gives the first block that fits new types for the pages it *)
(* answers, and for no others.                                              *)
LEMMA PlaceKeeps ==
  ASSUME SpaceInv, NEW call \in {"RESERVE", "COMMIT", "COMMITXF"}, NEW hint \in Page,
         NEW count \in Counts, Place(call, hint, count)
  PROVE  SpaceInv' /\ Abstract!Next
<1> DEFINE fits  == Candidates(vmma, call, hint, count)
           i     == Min(fits)
           start == From(vmma[i], hint)
           run   == start .. (start + count - 1)
           type  == Stored(call, vmma[i].type)
<1>1. TypeOK /\ Tiled /\ OneUseEach /\ count \in Nat \ {0} /\ hint \in Nat
  BY RangeAssumption DEF SpaceInv, Page
<1>2. fits # {} /\ vmma' = Retype(vmma, i, start, count, type)
  BY DEF Place
<1>3. i \in fits
  <2>1. fits \in SUBSET Nat
    BY DEF Candidates
  <2> HIDE DEF fits
  <2> QED BY <1>2, <2>1, LeastNumber
<1>4. /\ i \in 1 .. Len(vmma) /\ vmma[i].type = Wanted(call)
      /\ start + count <= End(vmma[i])
  BY <1>3 DEF Candidates
<1> HIDE DEF i, fits
<1>5. start \in Nat /\ vmma[i].addr <= start
  BY <1>1, <1>4, BlockInRange DEF From
<1>6. type \in Types /\ type = Stored(call, Wanted(call))
  BY <1>4 DEF Stored, Types
<1> HIDE DEF type, start
<1>7. /\ vmma' \in List /\ Coalesced(vmma') /\ Pages(vmma') = Page
      /\ run \subseteq Page /\ start \in Page /\ start + count - 1 \in Page
      /\ \A p \in run : KindOf(vmma)[p] = Wanted(call)
      /\ KindOf(vmma') = [p \in Page |-> IF p \in run THEN type ELSE KindOf(vmma)[p]]
  <2>1. RunBecomes(i, start, count, type)
    BY <1>1, <1>2, <1>4, <1>5, <1>6, RunRetyped
  <2> QED BY <2>1, <1>4 DEF RunBecomes
<1>8. entry' = entry /\ table' = table /\ free' = free /\ status' = status
  BY DEF Place
<1>9. TypeOK' /\ Tiled' /\ OneUseEach'
  BY <1>1, <1>7, <1>8 DEF TypeOK, Tiled, OneUseEach, OneUse, Used, List, Types
<1>10. Wanted(call) # COMMIT
  BY DEF Wanted, FREE, RESERVE, COMMIT
<1>11. <<Wanted(call), type>> \in Abstract!Changes
  BY <1>6 DEF Wanted, Stored, Abstract!Changes, FREE, RESERVE, COMMIT
<1>12. Abstract!Next
  <2> DEFINE last == start + count - 1
             old  == Wanted(call)
  <2>1. last \in Page /\ start <= last
    BY <1>1, <1>5, <1>7
  <2>2. /\ start .. last \subseteq Page
        /\ \A p \in start .. last : KindOf(vmma)[p] = old
        /\ KindOf(vmma') = [p \in Page |-> IF p \in start .. last THEN type ELSE KindOf(vmma)[p]]
    BY <1>7
  <2>3. Backed' = Backed /\ old # COMMIT
    BY <1>8, <1>10 DEF Backed
  <2>4. start \in Page /\ <<old, type>> \in Abstract!Changes
    BY <1>7, <1>11
  <2> HIDE DEF last, old
  <2> QED BY <2>1, <2>2, <2>3, <2>4, ChangeStep
<1> QED BY <1>9, <1>12 DEF SpaceInv

(* vmm_uncommit frees the frames of the pages it empties, each once.        *)
LEMMA UncommitKeeps ==
  ASSUME TypeOK, OneUseEach, NEW run \in SUBSET Page, Uncommit(run), table' = table
  PROVE  /\ entry' \in [Page -> Frames \cup {0, Absent}]
         /\ free' \subseteq Frames \cup {0}
         /\ OneUseEach'
         /\ Backed' = Backed \ run
<1>1. /\ entry \in [Page -> Frames \cup {0, Absent}]
      /\ free \subseteq Frames \cup {0}
  BY DEF TypeOK
<1>2. /\ entry' = [p \in Page |-> IF p \in run THEN Absent ELSE entry[p]]
      /\ free' = free \cup ({entry[p] : p \in run} \ {Absent})
  BY DEF Uncommit
<1>3. Absent \notin Frames
  BY RangeAssumption DEF Absent
<1>4. \A f \in Frames : f \in free' <=> f \in free \/ \E p \in run : entry[p] = f
  BY <1>2, <1>3
<1>5. ASSUME NEW f \in Frames, OneUse(f), Used(f)
      PROVE  OneUse(f)' /\ Used(f)'
  <2>1. \A p \in Page : entry'[p] = f <=> entry[p] = f /\ p \notin run
    BY <1>2, <1>3
  <2> QED BY <1>4, <1>5, <2>1 DEF OneUse, Used
<1>6. OneUseEach'
  BY <1>5 DEF OneUseEach
<1>7. Backed' = Backed \ run
  BY <1>2 DEF Backed
<1>8. free' \subseteq Frames \cup {0}
  BY <1>1, <1>2
<1> QED BY <1>1, <1>2, <1>6, <1>7, <1>8

(* VMM_TYPE_UNCOMMIT and VMM_TYPE_FREE change the pages of one block, and   *)
(* take the memory from those that were committed.                          *)
LEMMA WithdrawKeeps ==
  ASSUME SpaceInv, NEW call \in {"UNCOMMIT", "FREE"}, NEW addr \in Page,
         NEW count \in Counts, Withdraw(call, addr, count)
  PROVE  SpaceInv' /\ [Abstract!Next]_(Abstract!vars)
<1> DEFINE last == addr + count - 1
           run  == addr .. last
<1>1. TypeOK /\ Tiled /\ OneUseEach /\ count \in Nat \ {0} /\ addr \in Nat
  BY RangeAssumption DEF SpaceInv, Page
<1>2. PICK i \in 1 .. Len(vmma) :
        /\ run \subseteq PagesOf(vmma[i])
        /\ vmma' = IF call = "FREE" /\ vmma[i].type = FREE THEN vmma
                   ELSE Retype(vmma, i, addr, count, Stored(call, vmma[i].type))
        /\ IF vmma[i].type = COMMIT THEN Uncommit(run) ELSE UNCHANGED <<entry, free>>
  BY DEF Withdraw
<1>3. table' = table /\ status' = status
  BY DEF Withdraw
<1> DEFINE old == vmma[i].type
           new == Stored(call, old)
<1>4. /\ old \in Types /\ new \in Types /\ run \subseteq Page
      /\ vmma[i].addr <= addr /\ addr + count <= End(vmma[i])
  <2>1. old \in Types /\ vmma[i].addr \in Nat /\ End(vmma[i]) \in Nat /\ PagesOf(vmma[i]) \subseteq Page
    BY <1>1, BlockInRange
  <2>2. addr \in run /\ addr + count - 1 \in run
    BY <1>1
  <2>3. vmma[i].addr <= addr /\ addr + count <= End(vmma[i])
    BY <1>1, <1>2, <2>1, <2>2 DEF PagesOf
  <2> QED BY <1>2, <2>1, <2>3 DEF Stored, Types
<1>5. /\ entry' \in [Page -> Frames \cup {0, Absent}] /\ free' \subseteq Frames \cup {0}
      /\ OneUseEach'
      /\ Backed' = IF old = COMMIT THEN Backed \ run ELSE Backed
  <2>1. CASE old = COMMIT
    BY <1>1, <1>2, <1>3, <1>4, <2>1, UncommitKeeps
  <2>2. CASE old # COMMIT
    <3>1. entry' = entry /\ free' = free
      BY <1>2, <2>2
    <3> QED BY <1>1, <1>3, <2>2, <3>1 DEF TypeOK, OneUseEach, OneUse, Used, Backed
  <2> QED BY <2>1, <2>2
<1>6. CASE call = "FREE" /\ old = FREE
  <2>1. vmma' = vmma
    BY <1>2, <1>6
  <2>2. TypeOK' /\ Tiled'
    BY <1>1, <1>3, <1>5, <2>1 DEF TypeOK, Tiled
  <2>3. KindOf(vmma') = KindOf(vmma) /\ Backed' = Backed
    BY <1>5, <1>6, <2>1 DEF FREE, COMMIT
  <2>4. UNCHANGED Abstract!vars
    BY <2>3 DEF Abstract!vars, KindOf, Backed
  <2> QED BY <1>5, <2>2, <2>4 DEF SpaceInv
<1>7. CASE ~(call = "FREE" /\ old = FREE)
  <2>1. vmma' = Retype(vmma, i, addr, count, new)
    BY <1>2, <1>7
  <2> HIDE DEF new
  <2>2. /\ vmma' \in List /\ Coalesced(vmma') /\ Pages(vmma') = Page
        /\ addr .. (addr + count - 1) \subseteq Page /\ addr \in Page /\ addr + count - 1 \in Page
        /\ \A p \in addr .. (addr + count - 1) : KindOf(vmma)[p] = vmma[i].type
        /\ KindOf(vmma') = [p \in Page |-> IF p \in addr .. (addr + count - 1) THEN new
                                           ELSE KindOf(vmma)[p]]
    <3>1. addr \in Nat /\ count \in Nat \ {0} /\ TypeOK /\ Tiled /\ new \in Types
      BY <1>1, <1>4
    <3>2. vmma[i].addr <= addr /\ addr + count <= End(vmma[i])
      BY <1>4
    <3> HIDE DEF old, run, last
    <3>3. RunBecomes(i, addr, count, new)
      BY <2>1, <3>1, <3>2, RunRetyped
    <3> QED BY <3>3 DEF RunBecomes
  <2>3. last \in Page /\ addr <= last
    BY <1>1, <2>2
  <2> HIDE DEF old, run, last
  <2>4. TypeOK' /\ Tiled'
    BY <1>1, <1>3, <1>5, <2>2 DEF TypeOK, Tiled, List, Types
  <2>5. CASE old = new
    <3>1. KindOf(vmma') = KindOf(vmma)
      <4>1. KindOf(vmma) = [p \in Page |-> KindOf(vmma)[p]]
        BY DEF KindOf
      <4>2. \A p \in Page : p \in addr .. (addr + count - 1) => KindOf(vmma)[p] = new
        BY <2>2, <2>5 DEF old
      <4>3. KindOf(vmma') = [p \in Page |-> KindOf(vmma)[p]]
        BY <2>2, <4>2
      <4> QED BY <4>1, <4>3
    <3>2. Backed' = Backed
      BY <1>5, <1>7, <2>5 DEF old, new, Stored, FREE, RESERVE, COMMIT
    <3>3. UNCHANGED Abstract!vars
      BY <3>1, <3>2 DEF Abstract!vars, KindOf, Backed
    <3> QED BY <1>5, <2>4, <3>3 DEF SpaceInv
  <2>6. CASE old # new
    <3>1. <<old, new>> \in Abstract!Changes
      BY <1>4, <2>6 DEF new, Stored, Types, Abstract!Changes, FREE, RESERVE, COMMIT
    <3>2. /\ addr .. last \subseteq Page
          /\ \A p \in addr .. last : KindOf(vmma)[p] = old
          /\ KindOf(vmma') = [p \in Page |-> IF p \in addr .. last THEN new ELSE KindOf(vmma)[p]]
      BY <2>2 DEF last, old
    <3>3. Backed' = IF old = COMMIT THEN Backed \ (addr .. last) ELSE Backed
      BY <1>5 DEF run
    <3>4. Abstract!Next
      BY <2>3, <3>1, <3>2, <3>3, ChangeStep
    <3> QED BY <1>5, <2>4, <3>4 DEF SpaceInv
  <2> QED BY <2>5, <2>6
<1> QED BY <1>6, <1>7

(* INT0E takes the frame of the page, and perhaps that of a table, out of   *)
(* the free ones.                                                           *)
LEMMA FaultKeeps ==
  ASSUME SpaceInv, NEW p \in Page, Fault(p)
  PROVE  SpaceInv' /\ Abstract!Next
<1> DEFINE frame == Lowest(free)
           rest  == free \ {frame}
           t     == p \div TableSpan
           next  == Lowest(rest)
<1>1. TypeOK /\ Tiled /\ OneUseEach
  BY DEF SpaceInv
<1>2. /\ entry \in [Page -> Frames \cup {0, Absent}]
      /\ table \in [Tables -> Frames \cup {0, Absent}]
      /\ free \subseteq Frames \cup {0} /\ free \in SUBSET Nat /\ rest \in SUBSET Nat
      /\ t \in Tables
  <2>1. t \in Tables
    BY DEF Tables
  <2>2. free \in SUBSET Nat
    BY <1>1, RangeAssumption DEF TypeOK
  <2> QED BY <1>1, <2>1, <2>2 DEF TypeOK
<1>3. /\ frame \in free \/ frame = 0
      /\ rest # {} => next \in rest
  BY <1>2, LowestIsFree
<1>4. Absent \notin Frames /\ Absent # 0 /\ 0 \notin Frames
  BY RangeAssumption DEF Absent
<1>5. /\ entry[p] = Absent
      /\ Holds(vmma, p, COMMIT)
      /\ entry' = [entry EXCEPT ![p] = frame]
      /\ vmma' = vmma /\ status' = status
  BY DEF Fault
<1>6. IF table[t] = Absent
      THEN rest # {} /\ table' = [table EXCEPT ![t] = next] /\ free' = rest \ {next}
      ELSE table' = table /\ free' = rest
  BY DEF Fault, Missing
<1> HIDE DEF frame, next, t
<1>7. TypeOK'
  <2>1. entry' \in [Page -> Frames \cup {0, Absent}]
    BY <1>2, <1>3, <1>5
  <2>2. table' \in [Tables -> Frames \cup {0, Absent}] /\ free' \subseteq Frames \cup {0}
    BY <1>2, <1>3, <1>6
  <2> QED BY <1>1, <1>5, <2>1, <2>2 DEF TypeOK
<1>8. ASSUME NEW f \in Frames
      PROVE  OneUse(f)' /\ Used(f)'
  <2>1. OneUse(f) /\ Used(f)
    BY <1>1 DEF OneUseEach
  <2>2. \A q \in Page : entry'[q] = f <=> IF q = p THEN frame = f ELSE entry[q] = f
    BY <1>2, <1>5
  <2>3. frame = f => frame \in free
    BY <1>3, <1>4
  <2>4. CASE table[t] = Absent
    <3>1. \A u \in Tables : table'[u] = f <=> IF u = t THEN next = f ELSE table[u] = f
      BY <1>2, <1>6, <2>4
    <3>2. f \in free' <=> f \in free /\ f # frame /\ f # next
      BY <1>6, <2>4
    <3>3. next \in free /\ next # frame
      BY <1>3, <1>6, <2>4
    <3>4. entry[p] # f /\ table[t] # f
      BY <1>4, <1>5, <2>4
    <3> QED BY <1>2, <2>1, <2>2, <2>3, <3>1, <3>2, <3>3, <3>4 DEF OneUse, Used
  <2>5. CASE table[t] # Absent
    <3>1. table' = table /\ (f \in free' <=> f \in free /\ f # frame)
      BY <1>6, <2>5
    <3>2. entry[p] # f
      BY <1>4, <1>5
    <3> QED BY <1>2, <2>1, <2>2, <2>3, <3>1, <3>2 DEF OneUse, Used
  <2> QED BY <2>4, <2>5
<1>9. Tiled' /\ OneUseEach'
  BY <1>1, <1>5, <1>8 DEF Tiled, OneUseEach
<1>10. Abstract!Back(p)
  <2>1. KindOf(vmma)[p] = 2
    BY <1>1, <1>5, OneType DEF TypeOK, Tiled, List, Types, COMMIT
  <2>2. Backed' = Backed \cup {p}
    BY <1>2, <1>3, <1>4, <1>5 DEF Backed
  <2>3. KindOf(vmma') = KindOf(vmma)
    BY <1>5
  <2> QED BY <2>1, <2>2, <2>3 DEF Abstract!Back, KindOf, Backed
<1> QED BY <1>7, <1>9, <1>10 DEF SpaceInv, Abstract!Next

(* What stops the kernel, or fails, changes nothing a process sees.         *)
LEMMA StandstillKeeps ==
  ASSUME SpaceInv, status' \in {"running", "panic", "wild"} \cup {status},
         UNCHANGED <<vmma, entry, table, free>>
  PROVE  SpaceInv' /\ UNCHANGED Abstract!vars
<1>1. vmma' = vmma /\ entry' = entry /\ table' = table /\ free' = free
  OBVIOUS
<1>2. SpaceInv'
  BY <1>1 DEF SpaceInv, TypeOK, Tiled, OneUseEach, OneUse, Used
<1> QED BY <1>1, <1>2 DEF Abstract!vars

-----------------------------------------------------------------------------
(* One block of the whole range, nothing mapped, every frame free.          *)
LEMMA SpaceInvInit == Init => SpaceInv /\ Abstract!Init
<1> SUFFICES ASSUME Init PROVE SpaceInv /\ Abstract!Init
  OBVIOUS
<1> DEFINE whole == Region(FirstPage, LastPage - FirstPage + 1, FREE)
<1>1. /\ whole \in Block(Types) /\ whole.size > 0 /\ whole.type = FREE
      /\ PagesOf(whole) = Page
  BY RangeAssumption DEF Region, Block, Types, PagesOf, End, Page
<1>2. vmma = <<whole>> /\ entry = [p \in Page |-> Absent] /\ table = [t \in Tables |-> Absent]
      /\ free = Frames /\ status = "running"
  BY DEF Init
<1> HIDE DEF whole
<1>3. vmma \in List /\ Len(vmma) = 1 /\ vmma[1] = whole
  BY <1>1, <1>2 DEF List
<1>4. Coalesced(vmma) /\ Pages(vmma) = Page
  BY <1>1, <1>3 DEF Coalesced, Pages
<1>5. TypeOK /\ Tiled
  BY <1>2, <1>3, <1>4 DEF TypeOK, Tiled, List, Types
<1>6. OneUseEach
  BY <1>2, RangeAssumption DEF OneUseEach, OneUse, Used, Absent
<1>7. KindOf(vmma) = [p \in Page |-> 0]
  <2>1. ASSUME NEW p \in Page PROVE KindOf(vmma)[p] = 0
    <3>1. Holds(vmma, p, FREE)
      BY <1>1, <1>3 DEF Holds
    <3> QED BY <1>3, <1>4, <3>1, OneType DEF Types, FREE
  <2>2. KindOf(vmma) = [p \in Page |-> KindOf(vmma)[p]]
    BY DEF KindOf
  <2> QED BY <2>1, <2>2
<1>8. Backed = {}
  BY <1>2 DEF Backed
<1> QED BY <1>5, <1>6, <1>7, <1>8 DEF SpaceInv, Abstract!Init, KindOf, Backed

LEMMA SpaceInvNext ==
  ASSUME SpaceInv, [Next]_vars
  PROVE  SpaceInv' /\ [Abstract!Next]_(Abstract!vars)
<1>1. ASSUME NEW call \in {"RESERVE", "COMMIT", "COMMITXF"}, NEW hint \in Page,
             NEW count \in Counts, Place(call, hint, count)
      PROVE  SpaceInv' /\ [Abstract!Next]_(Abstract!vars)
  BY <1>1, PlaceKeeps
<1>2. ASSUME NEW call \in {"RESERVE", "COMMIT", "COMMITXF"}, NEW hint \in Page,
             NEW count \in Counts, PlaceFails(call, hint, count)
      PROVE  SpaceInv' /\ [Abstract!Next]_(Abstract!vars)
  <2>1. UNCHANGED vars
    BY <1>2 DEF PlaceFails
  <2> QED BY <2>1, StandstillKeeps DEF vars
<1>3. ASSUME NEW call \in {"UNCOMMIT", "FREE"}, NEW addr \in Page, NEW count \in Counts,
             Withdraw(call, addr, count)
      PROVE  SpaceInv' /\ [Abstract!Next]_(Abstract!vars)
  BY <1>3, WithdrawKeeps
<1>4. ASSUME NEW p \in Page, Fault(p)
      PROVE  SpaceInv' /\ [Abstract!Next]_(Abstract!vars)
  BY <1>4, FaultKeeps
<1>5. ASSUME NEW p \in Page, FaultWild(p) \/ Panic(p)
      PROVE  SpaceInv' /\ [Abstract!Next]_(Abstract!vars)
  <2>1. status' \in {"running", "panic", "wild"} /\ UNCHANGED <<vmma, entry, table, free>>
    BY <1>5 DEF FaultWild, Panic
  <2> QED BY <2>1, StandstillKeeps
<1>6. CASE UNCHANGED vars
  BY <1>6, StandstillKeeps DEF vars
<1> QED BY <1>1, <1>2, <1>3, <1>4, <1>5, <1>6 DEF Next

(* A run of pages of one type is never cut in two blocks, so that the first *)
(* block that fits is found when any such run is there.                     *)
LEMMA RunInOneBlock == TypeOK /\ Tiled => RefusalHonest
<1> SUFFICES ASSUME TypeOK, Tiled,
                    NEW call \in {"RESERVE", "COMMIT"}, NEW hint \in Page, NEW count \in Counts,
                    NEW addr \in hint .. LastPage,
                    \A p \in addr .. (addr + count - 1) : Holds(vmma, p, Wanted(call))
             PROVE  Candidates(vmma, call, hint, count) # {}
  BY DEF RefusalHonest
<1> DEFINE wanted == Wanted(call)
           run    == addr .. (addr + count - 1)
<1>1. hint \in Nat /\ addr \in Nat /\ hint <= addr /\ count \in Nat \ {0}
  BY RangeAssumption DEF Page
<1>2. PICK i \in 1 .. Len(vmma) : addr \in PagesOf(vmma[i]) /\ vmma[i].type = wanted
  BY <1>1 DEF Holds
<1> HIDE DEF wanted
<1>3. /\ vmma[i].addr \in Nat /\ End(vmma[i]) \in Nat
      /\ vmma[i].addr <= addr /\ addr < End(vmma[i])
  BY <1>1, <1>2, BlockInRange DEF PagesOf
<1>4. addr + count <= End(vmma[i])
  <2> SUFFICES ASSUME End(vmma[i]) < addr + count PROVE FALSE
    BY <1>1, <1>3
  <2>1. End(vmma[i]) \in run
    BY <1>1, <1>3
  <2>2. PICK j \in 1 .. Len(vmma) : End(vmma[i]) \in PagesOf(vmma[j]) /\ vmma[j].type = wanted
    BY <2>1 DEF Holds, wanted
  <2>3. /\ vmma[j].addr \in Nat /\ End(vmma[j]) \in Nat
        /\ vmma[j].addr <= End(vmma[i]) /\ End(vmma[i]) < End(vmma[j])
    BY <1>3, <2>2, BlockInRange DEF PagesOf
  <2>4. /\ i < j => \/ End(vmma[i]) < vmma[j].addr
                    \/ End(vmma[i]) = vmma[j].addr /\ vmma[i].type # vmma[j].type
        /\ j < i => \/ End(vmma[j]) < vmma[i].addr
                    \/ End(vmma[j]) = vmma[i].addr /\ vmma[j].type # vmma[i].type
    BY DEF Tiled, Coalesced
  <2>5. i # j /\ ~(i < j) /\ ~(j < i)
    BY <1>2, <1>3, <2>2, <2>3, <2>4
  <2> QED BY <2>5
<1>5. From(vmma[i], hint) + count <= End(vmma[i])
  <2>1. PICK a \in Nat, e \in Nat, f \in Nat :
          a = vmma[i].addr /\ e = End(vmma[i]) /\ f = IF a < hint THEN hint ELSE a
    BY <1>1, <1>3
  <2>2. a <= addr /\ addr + count <= e
    BY <1>3, <1>4, <2>1
  <2>3. f <= addr
    BY <1>1, <2>1, <2>2
  <2>4. f + count <= e
    BY <1>1, <2>2, <2>3
  <2>5. From(vmma[i], hint) = f
    BY <2>1 DEF From
  <2> QED BY <2>1, <2>4, <2>5
<1> QED BY <1>2, <1>5 DEF Candidates, wanted

LEMMA SpaceInvAlways == Spec => []SpaceInv
BY SpaceInvInit, SpaceInvNext, PTL DEF Spec

(* vmm_alloc, vmm_uncommit and INT0E: whatever a process asks for and       *)
(* touches, its blocks cover the range, merged; each frame it was given is  *)
(* in exactly one place; and a call is refused only for want of a run.      *)
THEOREM SpaceIsSound == Spec => []SpaceSound
<1>1. SpaceInv => SpaceSound
  BY FramesCounted, RunInOneBlock DEF SpaceInv, SpaceSound
<1> QED BY SpaceInvAlways, <1>1, PTL

(* A process may rely on AddressSpace: a call changes the pages it answers  *)
(* and no others, and only committed pages have memory behind them.         *)
THEOREM SpaceImplementsAddressSpace == Spec => ImplementsAddressSpace
<1>1. Init => Abstract!Init
  BY SpaceInvInit
<1>2. SpaceInv /\ [Next]_vars => [Abstract!Next]_(Abstract!vars)
  BY SpaceInvNext
<1> QED BY SpaceInvAlways, <1>1, <1>2, PTL DEF Spec, ImplementsAddressSpace, Abstract!Spec

-----------------------------------------------------------------------------
(* The heap.  The parts of its inductive invariant are stated of any list h *)
(* of blocks, so that the lists heap_alloc and heap_free make on the way    *)
(* have them too.                                                           *)
HeapBlock == [addr : Nat, size : Nat, using : BOOLEAN, last : BOOLEAN]

(* The parts of the invariant, of any list h of blocks that covers w words. *)
Chain(h, w) ==
  /\ h \in Seq(HeapBlock) /\ Len(h) \in Nat /\ Len(h) >= 1 /\ h[1].addr = 0
  /\ \A i, j \in 1 .. Len(h) : j = i + 1 => After(h[i]) = h[j].addr
  /\ After(h[Len(h)]) = w
  /\ \A i \in 1 .. Len(h) : h[i].last <=> i = Len(h)

Joined(h) ==
  /\ ~h[Len(h)].using
  /\ \A i \in 1 .. Len(h) : ~h[i].using => i = 1 \/ h[i - 1].using

Owned(h, own) ==
  /\ own \subseteq [addr : Nat, size : Nat]
  /\ \A b \in own : \E i \in 1 .. Len(h) :
       h[i].using /\ h[i].addr + 1 = b.addr /\ h[i].size >= b.size
  /\ \A i \in 1 .. Len(h) : h[i].using => \E b \in own : b.addr = h[i].addr + 1
  /\ \A b, c \in own : b # c => b.addr + b.size < c.addr \/ c.addr + c.size < b.addr

There(h, own, in) ==
  /\ in \subseteq Nat
  /\ \A i \in 1 .. Len(h) : h[i].addr \div PageWords \in in
  /\ \A b \in own : Touched(b.addr, b.addr + b.size) \subseteq in

Clean(h, in) ==
  \A i \in 1 .. Len(h) : ~h[i].using => Inside(h[i].addr + 1, After(h[i])) \cap in = {}

-----------------------------------------------------------------------------
LEMMA HeaderFacts ==
  ASSUME NEW b \in HeapBlock
  PROVE  /\ b.addr \in Nat /\ b.size \in Nat /\ b.using \in BOOLEAN /\ b.last \in BOOLEAN
         /\ After(b) \in Nat /\ After(b) = b.addr + 1 + b.size /\ b.addr < After(b)
BY DEF HeapBlock, After

LEMMA ChainBlock ==
  ASSUME NEW h, NEW w, Chain(h, w)
  PROVE  \A i \in 1 .. Len(h) :
           /\ h[i] \in HeapBlock /\ h[i].addr \in Nat /\ h[i].size \in Nat
           /\ h[i].using \in BOOLEAN /\ h[i].last \in BOOLEAN
           /\ After(h[i]) \in Nat /\ After(h[i]) = h[i].addr + 1 + h[i].size
           /\ h[i].addr < After(h[i])
<1> TAKE i \in 1 .. Len(h)
<1>1. h[i] \in HeapBlock
  BY DEF Chain
<1> QED BY <1>1, HeaderFacts

(* Pieces each of which begins where the one before it ends are in order.   *)
LEMMA PiecesInOrder ==
  ASSUME NEW n \in Nat, NEW from \in [1 .. n -> Nat], NEW to \in [1 .. n -> Nat],
         \A i \in 1 .. n : from[i] < to[i],
         \A i, j \in 1 .. n : j = i + 1 => to[i] = from[j]
  PROVE  \A i, j \in 1 .. n : i < j => to[i] <= from[j]
<1> SUFFICES ASSUME NEW i \in 1 .. n, NEW j \in 1 .. n, i < j, ~(to[i] <= from[j])
             PROVE  FALSE
  OBVIOUS
<1> DEFINE T == {k \in 1 .. n : i < k /\ ~(to[i] <= from[k])}
<1>0. T \in SUBSET (1 .. n) /\ j \in T
  OBVIOUS
<1> HIDE DEF T
<1>1. PICK k \in 1 .. n : k \in T /\ \A y \in T : k <= y
  <2>1. Min(T) \in T /\ \A y \in T : Min(T) <= y
    BY <1>0, FirstPosition
  <2> QED BY <1>0, <2>1
<1>2. k \in 1 .. n /\ i < k /\ ~(to[i] <= from[k])
  BY <1>1 DEF T
<1>3. PICK m \in 1 .. n : k = m + 1 /\ i <= m /\ ~(k <= m)
  <2>1. k - 1 \in 1 .. n /\ k = (k - 1) + 1 /\ i <= k - 1 /\ ~(k <= k - 1)
    BY <1>2
  <2> QED BY <2>1
<1>4. to[m] = from[k]
  BY <1>3
<1>5. i # m
  BY <1>2, <1>4
<1>6. m \in 1 .. n /\ i < m /\ m \notin T
  BY <1>1, <1>3, <1>5
<1>7. to[i] <= from[m]
  BY <1>6 DEF T
<1>8. from[m] < to[m]
  OBVIOUS
<1> QED BY <1>2, <1>4, <1>7, <1>8

(* The blocks lie one behind the other. *)
LEMMA ChainOrder ==
  ASSUME NEW h, NEW w, Chain(h, w)
  PROVE  \A i, j \in 1 .. Len(h) : i < j => After(h[i]) <= h[j].addr
<1> DEFINE n == Len(h)
           from == [i \in 1 .. n |-> h[i].addr]
           to == [i \in 1 .. n |-> After(h[i])]
<1>1. n \in Nat /\ from \in [1 .. n -> Nat] /\ to \in [1 .. n -> Nat]
  BY ChainBlock DEF Chain
<1>2. \A i \in 1 .. n : from[i] < to[i]
  BY ChainBlock
<1>3. \A i, j \in 1 .. n : j = i + 1 => to[i] = from[j]
  BY DEF Chain
<1> HIDE DEF n, from, to
<1>4. \A i, j \in 1 .. n : i < j => to[i] <= from[j]
  BY <1>1, <1>2, <1>3, PiecesInOrder
<1> QED BY <1>4 DEF n, from, to

LEMMA ChainEnd ==
  ASSUME NEW h, NEW w, Chain(h, w)
  PROVE  w \in Nat /\ \A i \in 1 .. Len(h) : After(h[i]) <= w
<1>1. Len(h) \in 1 .. Len(h) /\ After(h[Len(h)]) = w
  BY DEF Chain
<1>2. w \in Nat /\ h[Len(h)].addr <= w /\ h[Len(h)].addr \in Nat
  BY <1>1, ChainBlock
<1>3. ASSUME NEW i \in 1 .. Len(h) PROVE After(h[i]) <= w
  <2>1. CASE i < Len(h)
    <3>1. After(h[i]) <= h[Len(h)].addr /\ After(h[i]) \in Nat
      BY <1>1, <2>1, ChainOrder, ChainBlock
    <3> QED BY <3>1, <1>2
  <2>2. CASE i = Len(h)
    BY <1>1, <1>2, <2>2
  <2> QED BY <1>1, <2>1, <2>2
<1> QED BY <1>2, <1>3

LEMMA BlocksApart ==
  ASSUME NEW h, NEW w, Chain(h, w)
  PROVE  \A i, j \in 1 .. Len(h) :
           i # j => After(h[i]) <= h[j].addr \/ After(h[j]) <= h[i].addr
<1> TAKE i, j \in 1 .. Len(h)
<1>1. i < j \/ j < i \/ i = j
  OBVIOUS
<1> QED BY <1>1, ChainOrder

-----------------------------------------------------------------------------
(* What becomes of list h when its block i serves n words.                  *)
Served(h, r, i, n) ==
  /\ \A j \in 1 .. Len(h) : j # i => \E k \in 1 .. Len(r) : r[k] = h[j]
  /\ \E k \in 1 .. Len(r) : r[k].using /\ r[k].addr = h[i].addr /\ r[k].size = n
  /\ \A k \in 1 .. Len(r) :
       \/ r[k].using /\ r[k].addr = h[i].addr /\ r[k].size = n
       \/ /\ ~r[k].using /\ h[i].size > n
          /\ r[k].addr = h[i].addr + 1 + n /\ After(r[k]) = After(h[i])
       \/ \E j \in 1 .. Len(h) : j # i /\ r[k] = h[j]

BehindIs(S, s, r, i, e) ==
  /\ r \in Seq(S) /\ Len(r) = Len(s) + 1
  /\ \A j \in 1 .. Len(s) : j <= i => r[j] = s[j]
  /\ r[i + 1] = e
  /\ \A j \in 1 .. Len(s) : j > i => r[j + 1] = s[j]

LEMMA InsertedBehind ==
  ASSUME NEW S, NEW s \in Seq(S), NEW i \in 1 .. Len(s), NEW e \in S
  PROVE  BehindIs(S, s, InsertAt(s, i + 1, e), i, e)
<1>1. Len(s) \in Nat
  OBVIOUS
<1>2. PICK m \in 1 .. Len(s) + 1 : m = i + 1
  BY <1>1
<1> DEFINE r == InsertAt(s, m, e)
<1>3. /\ r \in Seq(S) /\ Len(r) = Len(s) + 1
      /\ \A j \in 1 .. m - 1 : r[j] = s[j]
      /\ r[m] = e
      /\ \A j \in m + 1 .. Len(s) + 1 : r[j] = s[j - 1]
  BY InsertAtElements
<1> HIDE DEF r
<1>4. \A j \in 1 .. Len(s) : j <= i => r[j] = s[j]
  <2> TAKE j \in 1 .. Len(s)
  <2>1. j <= i => j \in 1 .. m - 1
    BY <1>1, <1>2
  <2> QED BY <1>3, <2>1
<1>5. \A j \in 1 .. Len(s) : j > i => r[j + 1] = s[j]
  <2> TAKE j \in 1 .. Len(s)
  <2> HAVE j > i
  <2>1. j + 1 \in m + 1 .. Len(s) + 1 /\ (j + 1) - 1 = j
    BY <1>1, <1>2
  <2>2. r[j + 1] = s[(j + 1) - 1]
    BY <1>3, <2>1
  <2> QED BY <2>1, <2>2
<1>6. r = InsertAt(s, i + 1, e) /\ r[i + 1] = e
  BY <1>2, <1>3 DEF r
<1> QED BY <1>3, <1>4, <1>5, <1>6, Zenon DEF BehindIs

LEMMA SplitElements ==
  ASSUME NEW h, NEW w, Chain(h, w), NEW i \in 1 .. Len(h), NEW n \in Nat, h[i].size > n
  PROVE  LET r == Use(h, i, n) IN
         /\ r \in Seq(HeapBlock) /\ Len(r) = Len(h) + 1
         /\ \A j \in 1 .. Len(h) : j < i => r[j] = h[j]
         /\ r[i] = Header(h[i].addr, n, TRUE, FALSE)
         /\ r[i + 1] = Header(h[i].addr + 1 + n, h[i].size - n - 1, FALSE, h[i].last)
         /\ \A j \in 1 .. Len(h) : j > i => r[j + 1] = h[j]
<1> DEFINE taken == Header(h[i].addr, n, TRUE, FALSE)
           rest  == Header(h[i].addr + 1 + n, h[i].size - n - 1, FALSE, h[i].last)
           s     == [h EXCEPT ![i] = taken]
<1>1. h \in Seq(HeapBlock) /\ Len(h) \in Nat
  BY DEF Chain
<1>2. taken \in HeapBlock /\ rest \in HeapBlock
  <2>1. h[i].addr \in Nat /\ h[i].size \in Nat /\ h[i].last \in BOOLEAN
    BY ChainBlock
  <2> QED BY <2>1 DEF Header, HeapBlock
<1>3. Use(h, i, n) = InsertAt(s, i + 1, rest)
  BY DEF Use
<1> HIDE DEF taken, rest
<1>4. /\ s \in Seq(HeapBlock) /\ Len(s) = Len(h) /\ s[i] = taken
      /\ \A j \in 1 .. Len(h) : j # i => s[j] = h[j]
  BY <1>1, <1>2
<1> HIDE DEF s
<1> DEFINE r == InsertAt(s, i + 1, rest)
<1>5. BehindIs(HeapBlock, s, r, i, rest)
  BY <1>2, <1>4, InsertedBehind
<1> HIDE DEF r
<1>6. i \in 1 .. Len(h) /\ i <= i /\ \A j \in 1 .. Len(h) : j < i => j <= i /\ j # i
  BY <1>1
<1>7. r[i] = taken /\ r[i + 1] = rest /\ r \in Seq(HeapBlock) /\ Len(r) = Len(h) + 1
  BY <1>4, <1>5, <1>6 DEF BehindIs
<1>8. \A j \in 1 .. Len(h) : j < i => r[j] = h[j]
  BY <1>4, <1>5, <1>6 DEF BehindIs
<1>9. \A j \in 1 .. Len(h) : j > i => r[j + 1] = h[j]
  <2> TAKE j \in 1 .. Len(h)
  <2> HAVE j > i
  <2>1. j # i
    OBVIOUS
  <2> QED BY <1>4, <1>5, <2>1 DEF BehindIs
<1> QED BY <1>3, <1>7, <1>8, <1>9 DEF r, taken, rest

LEMMA SplitServes ==
  ASSUME NEW h, NEW w, Chain(h, w), Joined(h), NEW i \in 1 .. Len(h), ~h[i].using,
         NEW n \in Nat, h[i].size > n
  PROVE  Chain(Use(h, i, n), w) /\ Joined(Use(h, i, n)) /\ Served(h, Use(h, i, n), i, n)
<1> DEFINE r == Use(h, i, n)
<1>1. /\ r \in Seq(HeapBlock) /\ Len(r) = Len(h) + 1
      /\ \A j \in 1 .. Len(h) : j < i => r[j] = h[j]
      /\ r[i] = Header(h[i].addr, n, TRUE, FALSE)
      /\ r[i + 1] = Header(h[i].addr + 1 + n, h[i].size - n - 1, FALSE, h[i].last)
      /\ \A j \in 1 .. Len(h) : j > i => r[j + 1] = h[j]
  BY SplitElements
<1> HIDE DEF r
<1>2. /\ Len(h) \in Nat /\ Len(h) >= 1 /\ h[1].addr = 0
      /\ \A a, b \in 1 .. Len(h) : b = a + 1 => After(h[a]) = h[b].addr
      /\ After(h[Len(h)]) = w
      /\ \A a \in 1 .. Len(h) : h[a].last <=> a = Len(h)
  BY DEF Chain
<1>3. /\ h[i].addr \in Nat /\ h[i].size \in Nat /\ h[i].last \in BOOLEAN
      /\ After(h[i]) = h[i].addr + 1 + h[i].size
  BY ChainBlock
<1>4. /\ r[i].addr = h[i].addr /\ r[i].size = n /\ r[i].using /\ ~r[i].last
      /\ After(r[i]) = h[i].addr + 1 + n
  BY <1>1 DEF Header, After
<1>5. /\ r[i + 1].addr = h[i].addr + 1 + n /\ ~r[i + 1].using
      /\ (r[i + 1].last <=> h[i].last) /\ After(r[i + 1]) = After(h[i])
  <2>1. After(r[i + 1]) = (h[i].addr + 1 + n) + 1 + (h[i].size - n - 1)
    BY <1>1 DEF Header, After
  <2>2. After(r[i + 1]) = After(h[i])
    <3>1. PICK a \in Nat, z \in Nat : a = h[i].addr /\ z = h[i].size
      BY <1>3
    <3>2. (a + 1 + n) + 1 + (z - n - 1) = a + 1 + z
      OBVIOUS
    <3> QED BY <1>3, <2>1, <3>1, <3>2, Zenon
  <2>3. r[i + 1].addr = h[i].addr + 1 + n /\ ~r[i + 1].using /\ r[i + 1].last = h[i].last
    BY <1>1 DEF Header
  <2> QED BY <2>2, <2>3
<1>6. \A a \in 1 .. Len(r) :
        \/ a \in 1 .. Len(h) /\ a < i
        \/ a = i
        \/ a = i + 1
        \/ \E j \in 1 .. Len(h) : j > i /\ a = j + 1
  <2> TAKE a \in 1 .. Len(r)
  <2>1. CASE a > i + 1
    <3>1. a - 1 \in 1 .. Len(h) /\ a - 1 > i /\ a = (a - 1) + 1
      BY <1>1, <1>2, <2>1
    <3> QED BY <3>1
  <2>2. CASE ~(a > i + 1)
    BY <1>1, <1>2, <2>2
  <2> QED BY <2>1, <2>2
<1>7. ASSUME NEW a \in 1 .. Len(r), NEW b \in 1 .. Len(r), b = a + 1
      PROVE  After(r[a]) = r[b].addr
  <2>1. CASE a < i
    <3>1. a \in 1 .. Len(h) /\ b \in 1 .. Len(h) /\ r[a] = h[a]
      BY <1>1, <1>2, <1>7, <2>1
    <3>2. After(h[a]) = h[b].addr
      BY <1>2, <1>7, <3>1
    <3>3. r[b].addr = h[b].addr
      <4>1. b < i \/ b = i
        BY <1>7, <2>1, <3>1
      <4>2. CASE b < i
        BY <1>1, <3>1, <4>2
      <4>3. CASE b = i
        BY <1>4, <4>3
      <4> QED BY <4>1, <4>2, <4>3
    <3> QED BY <3>1, <3>2, <3>3
  <2>2. CASE a = i
    BY <1>4, <1>5, <1>7, <2>2
  <2>3. CASE a = i + 1
    <3>1. PICK j \in 1 .. Len(h) : j > i /\ b = j + 1
      BY <1>6, <1>7, <2>3
    <3>2. j = i + 1
      BY <1>7, <2>3, <3>1
    <3>3. After(h[i]) = h[j].addr
      BY <1>2, <3>2
    <3> QED BY <1>1, <1>5, <2>3, <3>1, <3>3
  <2>4. CASE a > i + 1
    <3>1. PICK j \in 1 .. Len(h) : j > i /\ a = j + 1
      BY <1>6, <2>4
    <3>2. PICK k \in 1 .. Len(h) : k > i /\ b = k + 1
      BY <1>6, <1>7, <2>4
    <3>3. k = j + 1
      BY <1>7, <3>1, <3>2
    <3>4. After(h[j]) = h[k].addr
      BY <1>2, <3>3
    <3> QED BY <1>1, <3>1, <3>2, <3>4
  <2> QED BY <2>1, <2>2, <2>3, <2>4
<1>8. After(r[Len(r)]) = w
  <2>1. CASE i = Len(h)
    BY <1>1, <1>2, <1>5, <2>1
  <2>2. CASE i # Len(h)
    <3>1. Len(h) \in 1 .. Len(h) /\ Len(h) > i
      BY <1>2, <2>2
    <3> QED BY <1>1, <1>2, <3>1
  <2> QED BY <2>1, <2>2
<1>9. r[1].addr = 0
  <2>1. CASE i = 1
    BY <1>2, <1>4, <2>1
  <2>2. CASE i # 1
    <3>1. 1 \in 1 .. Len(h) /\ 1 < i
      BY <1>2, <2>2
    <3> QED BY <1>1, <1>2, <3>1
  <2> QED BY <2>1, <2>2
<1>10. ASSUME NEW a \in 1 .. Len(r)
       PROVE  r[a].last <=> a = Len(r)
  <2>1. CASE a < i
    <3>1. Len(r) = Len(h) + 1 /\ Len(h) \in Nat
      BY <1>1, <1>2
    <3>2. a \in 1 .. Len(h) /\ a # Len(h) /\ a # Len(r)
      BY <2>1, <3>1
    <3> QED BY <1>1, <1>2, <2>1, <3>2
  <2>2. CASE a = i
    <3>1. a # Len(r)
      BY <1>1, <1>2, <2>2
    <3> QED BY <1>4, <2>2, <3>1
  <2>3. CASE a = i + 1
    <3>1. a = Len(r) <=> i = Len(h)
      BY <1>1, <1>2, <2>3
    <3> QED BY <1>2, <1>5, <2>3, <3>1
  <2>4. CASE a > i + 1
    <3>1. PICK j \in 1 .. Len(h) : j > i /\ a = j + 1
      BY <1>6, <2>4
    <3>2. r[a] = h[j] /\ (h[j].last <=> j = Len(h))
      BY <1>1, <1>2, <3>1
    <3>3. a = Len(r) <=> j = Len(h)
      <4>1. Len(r) = Len(h) + 1 /\ Len(h) \in Nat
        BY <1>1, <1>2
      <4> QED BY <3>1, <4>1
    <3> QED BY <3>2, <3>3
  <2> QED BY <2>1, <2>2, <2>3, <2>4
<1>11. Chain(r, w)
  <2>1. Len(r) \in Nat /\ Len(r) >= 1
    BY <1>1, <1>2
  <2> QED BY <1>1, <1>7, <1>8, <1>9, <1>10, <2>1 DEF Chain
<1>12. Joined(r)
  <2>1. ~r[Len(r)].using
    <3>1. CASE i = Len(h)
      BY <1>1, <1>5, <3>1
    <3>2. CASE i # Len(h)
      <4>1. Len(h) \in 1 .. Len(h) /\ Len(h) > i
        BY <1>2, <3>2
      <4> QED BY <1>1, <4>1 DEF Joined
    <3> QED BY <3>1, <3>2
  <2>2. ASSUME NEW a \in 1 .. Len(r), ~r[a].using, a # 1
        PROVE  r[a - 1].using
    <3>1. CASE a < i
      <4>1. a \in 1 .. Len(h) /\ a - 1 \in 1 .. Len(h) /\ a - 1 < i
        BY <1>2, <2>2, <3>1
      <4>2. r[a] = h[a] /\ r[a - 1] = h[a - 1]
        BY <1>1, <3>1, <4>1
      <4> QED BY <2>2, <4>1, <4>2 DEF Joined
    <3>2. CASE a = i
      BY <1>4, <2>2, <3>2
    <3>3. CASE a = i + 1
      BY <1>4, <3>3
    <3>4. CASE a > i + 1
      <4>1. PICK j \in 1 .. Len(h) : j > i /\ a = j + 1
        BY <1>6, <3>4
      <4>2. r[a] = h[j] /\ j # 1 /\ a - 1 = j
        BY <1>1, <4>1
      <4>3. h[j - 1].using
        BY <2>2, <4>2 DEF Joined
      <4>4. j - 1 \in 1 .. Len(h) /\ j - 1 > i
        <5>1. j - 1 # i
          BY <4>3
        <5> QED BY <1>2, <4>1, <5>1
      <4>5. r[(j - 1) + 1] = h[j - 1] /\ (j - 1) + 1 = a - 1
        BY <1>1, <4>1, <4>4
      <4> QED BY <4>3, <4>5
    <3> QED BY <3>1, <3>2, <3>3, <3>4
  <2> QED BY <2>1, <2>2 DEF Joined
<1>13. Served(h, r, i, n)
  <2>1. ASSUME NEW j \in 1 .. Len(h), j # i
        PROVE  \E k \in 1 .. Len(r) : r[k] = h[j]
    <3>1. CASE j < i
      <4>1. j \in 1 .. Len(r) /\ r[j] = h[j]
        BY <1>1, <1>2, <3>1
      <4> QED BY <4>1
    <3>2. CASE j > i
      <4>1. j + 1 \in 1 .. Len(r) /\ r[j + 1] = h[j]
        BY <1>1, <1>2, <3>2
      <4> QED BY <4>1
    <3> QED BY <2>1, <3>1, <3>2
  <2>2. i \in 1 .. Len(r)
    BY <1>1, <1>2
  <2>3. ASSUME NEW k \in 1 .. Len(r)
        PROVE  \/ r[k].using /\ r[k].addr = h[i].addr /\ r[k].size = n
               \/ /\ ~r[k].using /\ h[i].size > n
                  /\ r[k].addr = h[i].addr + 1 + n /\ After(r[k]) = After(h[i])
               \/ \E j \in 1 .. Len(h) : j # i /\ r[k] = h[j]
    <3>1. CASE k \in 1 .. Len(h) /\ k < i
      BY <1>1, <3>1
    <3>2. CASE k = i
      BY <1>4, <3>2
    <3>3. CASE k = i + 1
      BY <1>5, <3>3
    <3>4. CASE \E j \in 1 .. Len(h) : j > i /\ k = j + 1
      <4>1. PICK j \in 1 .. Len(h) : j > i /\ k = j + 1
        BY <3>4
      <4>2. r[k] = h[j] /\ j # i
        BY <1>1, <4>1
      <4> QED BY <4>2
    <3> QED BY <1>6, <3>1, <3>2, <3>3, <3>4
  <2> QED BY <1>4, <2>1, <2>2, <2>3 DEF Served
<1> QED BY <1>11, <1>12, <1>13 DEF r

LEMMA WholeServes ==
  ASSUME NEW h, NEW w, Chain(h, w), Joined(h), NEW i \in 1 .. Len(h), i # Len(h),
         NEW n \in Nat, h[i].size = n
  PROVE  Chain(Use(h, i, n), w) /\ Joined(Use(h, i, n)) /\ Served(h, Use(h, i, n), i, n)
<1> DEFINE taken == [h[i] EXCEPT !.using = TRUE]
           r == [h EXCEPT ![i] = taken]
<1>1. Use(h, i, n) = r
  <2>1. ~(h[i].size > n)
    OBVIOUS
  <2> QED BY <2>1 DEF Use
<1>2. h \in Seq(HeapBlock) /\ Len(h) \in Nat /\ h[i] \in HeapBlock
  BY DEF Chain
<1>3. /\ taken \in HeapBlock /\ taken.using /\ taken.addr = h[i].addr
      /\ taken.size = h[i].size /\ taken.last = h[i].last
  BY <1>2 DEF HeapBlock
<1> HIDE DEF taken
<1>4. /\ r \in Seq(HeapBlock) /\ Len(r) = Len(h) /\ r[i] = taken
      /\ \A j \in 1 .. Len(h) : j # i => r[j] = h[j]
  BY <1>2, <1>3
<1> HIDE DEF r
<1>5. /\ Len(h) >= 1 /\ h[1].addr = 0
      /\ \A a, b \in 1 .. Len(h) : b = a + 1 => After(h[a]) = h[b].addr
      /\ After(h[Len(h)]) = w
      /\ \A a \in 1 .. Len(h) : h[a].last <=> a = Len(h)
  BY DEF Chain
<1>6. \A a \in 1 .. Len(h) :
        /\ r[a].addr = h[a].addr /\ After(r[a]) = After(h[a]) /\ (r[a].last <=> h[a].last)
        /\ (r[a].using <=> a = i \/ h[a].using)
  <2> TAKE a \in 1 .. Len(h)
  <2>1. CASE a = i
    <3>1. After(taken) = After(h[i])
      BY <1>3 DEF After
    <3> QED BY <1>3, <1>4, <2>1, <3>1
  <2> QED BY <1>4, <2>1
<1>7. Chain(r, w)
  <2>1. 1 \in 1 .. Len(h) /\ Len(h) \in 1 .. Len(h)
    BY <1>2, <1>5
  <2> QED BY <1>2, <1>4, <1>5, <1>6, <2>1 DEF Chain
<1>8. Joined(r)
  <2>1. ~r[Len(r)].using
    <3>1. Len(h) \in 1 .. Len(h)
      BY <1>2, <1>5
    <3> QED BY <1>4, <1>6, <3>1 DEF Joined
  <2>2. ASSUME NEW a \in 1 .. Len(r), ~r[a].using, a # 1
        PROVE  r[a - 1].using
    <3>1. a \in 1 .. Len(h) /\ a - 1 \in 1 .. Len(h) /\ ~h[a].using
      BY <1>2, <1>4, <1>6, <2>2
    <3>2. h[a - 1].using
      BY <2>2, <3>1 DEF Joined
    <3> QED BY <1>6, <3>1, <3>2
  <2> QED BY <2>1, <2>2 DEF Joined
<1>9. Served(h, r, i, n)
  <2>1. \A j \in 1 .. Len(h) : j # i => \E k \in 1 .. Len(r) : r[k] = h[j]
    BY <1>4
  <2>2. r[i].using /\ r[i].addr = h[i].addr /\ r[i].size = n /\ i \in 1 .. Len(r)
    BY <1>3, <1>4
  <2>3. \A k \in 1 .. Len(r) : k # i => r[k] = h[k] /\ k \in 1 .. Len(h)
    BY <1>4
  <2> QED BY <2>1, <2>2, <2>3 DEF Served
<1> QED BY <1>1, <1>7, <1>8, <1>9

-----------------------------------------------------------------------------
(* Block i is free; the words a caller gets behind a header.                 *)
FreeBlock(h, i, a, z) == ~h[i].using /\ h[i].addr = a /\ h[i].size = z
Payload(b, a, n) == b.addr = a + 1 /\ b.size = n

LEMMA WordsApart ==
  ASSUME NEW a \in Nat, NEW y \in Nat, NEW m \in Nat, NEW b \in Nat, NEW z \in Nat, NEW n \in Nat,
         m <= y, n <= z, a + 1 + y <= b \/ b + 1 + z <= a
  PROVE  (a + 1) + m < b + 1 \/ (b + 1) + n < a + 1
OBVIOUS

LEMMA ServedOwned ==
  ASSUME NEW h, NEW w, Chain(h, w), NEW i \in 1 .. Len(h), ~h[i].using,
         NEW n \in Nat, h[i].size >= n, NEW r, NEW v, Chain(r, v), Served(h, r, i, n),
         NEW own, Owned(h, own), NEW b, b = [addr |-> h[i].addr + 1, size |-> n]
  PROVE  Owned(r, own \cup {b})
<1>1. /\ own \subseteq [addr : Nat, size : Nat]
      /\ \A c \in own : \E j \in 1 .. Len(h) :
           h[j].using /\ h[j].addr + 1 = c.addr /\ h[j].size >= c.size
      /\ \A j \in 1 .. Len(h) : h[j].using => \E c \in own : c.addr = h[j].addr + 1
      /\ \A c, d \in own : c # d => c.addr + c.size < d.addr \/ d.addr + d.size < c.addr
  BY DEF Owned
<1>2. /\ h[i].addr \in Nat /\ h[i].size \in Nat /\ After(h[i]) = h[i].addr + 1 + h[i].size
      /\ After(h[i]) \in Nat
  BY ChainBlock
<1>3. b \in [addr : Nat, size : Nat] /\ b.addr = h[i].addr + 1 /\ b.size = n
  BY <1>2
<1>4. ASSUME NEW c \in own
      PROVE  b.addr + b.size < c.addr \/ c.addr + c.size < b.addr
  <2>1. PICK j \in 1 .. Len(h) : h[j].using /\ h[j].addr + 1 = c.addr /\ h[j].size >= c.size
    BY <1>1
  <2>2. After(h[i]) <= h[j].addr \/ After(h[j]) <= h[i].addr
    BY <2>1, BlocksApart
  <2>3. /\ h[j].addr \in Nat /\ h[j].size \in Nat /\ After(h[j]) = h[j].addr + 1 + h[j].size
        /\ c.addr \in Nat /\ c.size \in Nat
    BY <1>1, ChainBlock
  <2>4. PICK ai \in Nat, zi \in Nat, aj \in Nat, zj \in Nat, cz \in Nat :
          ai = h[i].addr /\ zi = h[i].size /\ aj = h[j].addr /\ zj = h[j].size /\ cz = c.size
    BY <1>2, <2>3
  <2>5. /\ After(h[i]) = ai + 1 + zi /\ After(h[j]) = aj + 1 + zj
        /\ b.addr = ai + 1 /\ b.size = n /\ c.addr = aj + 1 /\ c.size = cz
        /\ n <= zi /\ cz <= zj
    BY <1>2, <1>3, <2>1, <2>3, <2>4
  <2>6. ai + 1 + zi <= aj \/ aj + 1 + zj <= ai
    BY <2>2, <2>4, <2>5
  <2>7. (ai + 1) + n < aj + 1 \/ (aj + 1) + cz < ai + 1
    BY <2>5, <2>6, WordsApart
  <2> QED BY <2>5, <2>7
<1>5. ASSUME NEW c \in own \cup {b}
      PROVE  \E k \in 1 .. Len(r) : r[k].using /\ r[k].addr + 1 = c.addr /\ r[k].size >= c.size
  <2>1. CASE c \in own
    <3>1. PICK j \in 1 .. Len(h) : h[j].using /\ h[j].addr + 1 = c.addr /\ h[j].size >= c.size
      BY <1>1, <2>1
    <3>2. PICK k \in 1 .. Len(r) : r[k] = h[j]
      BY <3>1 DEF Served
    <3> QED BY <3>1, <3>2
  <2>2. CASE c = b
    <3>1. PICK k \in 1 .. Len(r) : r[k].using /\ r[k].addr = h[i].addr /\ r[k].size = n
      BY DEF Served
    <3> QED BY <1>3, <2>2, <3>1
  <2> QED BY <2>1, <2>2
<1>6. ASSUME NEW k \in 1 .. Len(r), r[k].using
      PROVE  \E c \in own \cup {b} : c.addr = r[k].addr + 1
  <2>1. CASE r[k].addr = h[i].addr
    BY <1>3, <2>1
  <2>2. CASE \E j \in 1 .. Len(h) : j # i /\ r[k] = h[j]
    BY <1>1, <1>6, <2>2
  <2> QED BY <1>6, <2>1, <2>2 DEF Served
<1>7. own \cup {b} \subseteq [addr : Nat, size : Nat]
  BY <1>1, <1>3
<1>8. \A c, d \in own \cup {b} : c # d => c.addr + c.size < d.addr \/ d.addr + d.size < c.addr
  BY <1>1, <1>4
<1> QED BY <1>5, <1>6, <1>7, <1>8 DEF Owned

-----------------------------------------------------------------------------
(* Pages.                                                                   *)
PageStart(p) == p * PageWords

LEMMA PagesAscend ==
  \A p, q \in Nat :
    /\ PageStart(p) \in Nat /\ PageStart(p + 1) = PageStart(p) + PageWords
    /\ p < q => PageStart(p + 1) <= PageStart(q)
    /\ PageStart(p) < PageStart(q) => p < q
<1> TAKE p, q \in Nat
<1>1. PageWords \in Nat \ {0}
  BY HeapAssumption
<1> QED BY <1>1, SMT DEF PageStart

LEMMA PageOf ==
  \A a \in Nat : /\ a \div PageWords \in Nat
                 /\ PageStart(a \div PageWords) <= a /\ a < PageStart(a \div PageWords + 1)
<1> TAKE a \in Nat
<1>1. PageWords \in Nat \ {0}
  BY HeapAssumption
<1>2. /\ a \div PageWords \in Nat /\ (a \div PageWords) * PageWords <= a
      /\ a < (a \div PageWords) * PageWords + PageWords
  BY <1>1, SMT
<1>3. PageStart(a \div PageWords + 1) = PageStart(a \div PageWords) + PageWords
  BY <1>2, PagesAscend
<1> QED BY <1>2, <1>3 DEF PageStart

LEMMA TouchedPages ==
  ASSUME NEW a \in Nat, NEW b \in Nat
  PROVE  /\ Touched(a, b) \subseteq Nat
         /\ \A p \in Nat : p \in Touched(a, b) <=> a < PageStart(p + 1) /\ PageStart(p) < b
<1> DEFINE f == a \div PageWords
           t == b \div PageWords
<1>1. /\ f \in Nat /\ PageStart(f) <= a /\ a < PageStart(f + 1)
      /\ t \in Nat /\ PageStart(t) <= b /\ b < PageStart(t + 1)
  BY PageOf
<1>2. Touched(a, b) = {p \in f .. t : PageStart(p) < b}
  BY DEF Touched, PageStart
<1> HIDE DEF f, t
<1>3. ASSUME NEW p \in Nat
      PROVE  /\ p < f <=> PageStart(p + 1) <= a
             /\ PageStart(p) < b => p <= t
             /\ PageStart(p) \in Nat /\ PageStart(p + 1) \in Nat
  <2>1. /\ PageStart(p) \in Nat /\ PageStart(p + 1) \in Nat /\ PageStart(f) \in Nat
        /\ PageStart(f + 1) \in Nat /\ PageStart(t + 1) \in Nat
        /\ p < f => PageStart(p + 1) <= PageStart(f)
        /\ f < p + 1 => PageStart(f + 1) <= PageStart(p + 1)
        /\ PageStart(p) < PageStart(t + 1) => p < t + 1
    BY <1>1, PagesAscend
  <2> QED BY <1>1, <2>1
<1> QED BY <1>1, <1>2, <1>3

LEMMA InsidePages ==
  ASSUME NEW a \in Nat, NEW b \in Nat
  PROVE  /\ Inside(a, b) \subseteq Nat
         /\ \A p \in Nat : p \in Inside(a, b) <=> a <= PageStart(p) /\ PageStart(p + 1) <= b
<1> DEFINE f == a \div PageWords
           t == b \div PageWords
<1>1. /\ f \in Nat /\ PageStart(f) <= a /\ a < PageStart(f + 1)
      /\ t \in Nat /\ PageStart(t) <= b /\ b < PageStart(t + 1)
  BY PageOf
<1>2. Inside(a, b) = {p \in f .. t : a <= PageStart(p) /\ PageStart(p + 1) <= b}
  BY DEF Inside, PageStart
<1> HIDE DEF f, t
<1>3. ASSUME NEW p \in Nat
      PROVE  /\ a <= PageStart(p) => f <= p
             /\ PageStart(p + 1) <= b => p <= t
  <2>1. /\ PageStart(p) \in Nat /\ PageStart(p + 1) \in Nat /\ PageStart(f) \in Nat
        /\ PageStart(t + 1) \in Nat
        /\ p < f => PageStart(p + 1) <= PageStart(f)
        /\ PageStart(p) < PageStart(p + 1)
        /\ t < p => PageStart(t + 1) <= PageStart(p)
    <3>1. PageWords \in Nat \ {0}
      BY HeapAssumption
    <3> QED BY <1>1, <3>1, PagesAscend
  <2> QED BY <1>1, <2>1
<1> QED BY <1>1, <1>2, <1>3

-----------------------------------------------------------------------------
(* Two ranges of words that do not meet: the pages that have a word of one  *)
(* are not wholly in the other.                                             *)
LEMMA ApartPages ==
  ASSUME NEW a \in Nat, NEW b \in Nat, NEW c \in Nat, NEW d \in Nat, b <= c \/ d <= a
  PROVE  Touched(a, b) \cap Inside(c, d) = {}
<1> SUFFICES ASSUME NEW p \in Nat, p \in Touched(a, b), p \in Inside(c, d) PROVE FALSE
  BY TouchedPages
<1>1. /\ a < PageStart(p + 1) /\ PageStart(p) < b
      /\ c <= PageStart(p) /\ PageStart(p + 1) <= d
      /\ PageStart(p) \in Nat /\ PageStart(p + 1) \in Nat
  BY TouchedPages, InsidePages, PagesAscend
<1> QED BY <1>1

LEMMA WithinTouched ==
  ASSUME NEW a \in Nat, NEW b \in Nat, NEW c \in Nat, NEW d \in Nat, c <= a, b <= d
  PROVE  Touched(a, b) \subseteq Touched(c, d)
<1> SUFFICES ASSUME NEW p \in Nat, p \in Touched(a, b) PROVE p \in Touched(c, d)
  BY TouchedPages
<1>1. /\ a < PageStart(p + 1) /\ PageStart(p) < b
      /\ PageStart(p) \in Nat /\ PageStart(p + 1) \in Nat
  BY TouchedPages, PagesAscend
<1>2. c < PageStart(p + 1) /\ PageStart(p) < d
  BY <1>1
<1> QED BY <1>2, TouchedPages

LEMMA WithinInside ==
  ASSUME NEW a \in Nat, NEW b \in Nat, NEW c \in Nat, NEW d \in Nat, c <= a, b <= d
  PROVE  Inside(a, b) \subseteq Inside(c, d)
<1> SUFFICES ASSUME NEW p \in Nat, p \in Inside(a, b) PROVE p \in Inside(c, d)
  BY InsidePages
<1>1. /\ a <= PageStart(p) /\ PageStart(p + 1) <= b
      /\ PageStart(p) \in Nat /\ PageStart(p + 1) \in Nat
  BY InsidePages, PagesAscend
<1>2. c <= PageStart(p) /\ PageStart(p + 1) <= d
  BY <1>1
<1> QED BY <1>2, InsidePages

LEMMA PageTouched ==
  ASSUME NEW a \in Nat, NEW b \in Nat, NEW c \in Nat, a <= c, c < b
  PROVE  c \div PageWords \in Touched(a, b)
<1> DEFINE p == c \div PageWords
<1>1. p \in Nat /\ PageStart(p) <= c /\ c < PageStart(p + 1)
  BY PageOf
<1> HIDE DEF p
<1>2. PageStart(p) \in Nat /\ PageStart(p + 1) \in Nat
  BY <1>1, PagesAscend
<1>3. a < PageStart(p + 1) /\ PageStart(p) < b
  BY <1>1, <1>2
<1>4. p \in Touched(a, b)
  BY <1>1, <1>3, TouchedPages
<1> QED BY <1>4 DEF p

(* The words written when n of z words behind header a are used: the next   *)
(* header is one of them when the block is split.                           *)
Written(a, z, n) == a + 1 + n + (IF z > n THEN 1 ELSE 0)

LEMMA WordsServed ==
  ASSUME NEW a \in Nat, NEW z \in Nat, NEW n \in Nat, n <= z
  PROVE  /\ Written(a, z, n) \in Nat /\ Written(a, z, n) <= a + 1 + z
         /\ a + 1 + n <= Written(a, z, n) /\ a < Written(a, z, n)
         /\ z > n => Written(a, z, n) = (a + 1 + n) + 1
<1>1. CASE z > n
  BY <1>1 DEF Written
<1>2. CASE ~(z > n)
  BY <1>2 DEF Written
<1> QED BY <1>1, <1>2

(* A process gets the pages it writes; others stay as they are.             *)
LEMMA ServedThere ==
  ASSUME NEW h, NEW w, Chain(h, w), NEW i \in 1 .. Len(h), NEW a \in Nat, NEW z \in Nat,
         FreeBlock(h, i, a, z), NEW n \in Nat, n <= z,
         NEW r, NEW v, Chain(r, v), Served(h, r, i, n),
         NEW own, NEW b, Payload(b, a, n), NEW in, There(h, own, in), Clean(h, in)
  PROVE  LET more == in \cup Touched(a, Written(a, z, n))
         IN  There(r, own \cup {b}, more) /\ Clean(r, more)
<1>1. /\ in \subseteq Nat
      /\ \A j \in 1 .. Len(h) : h[j].addr \div PageWords \in in
      /\ \A c \in own : Touched(c.addr, c.addr + c.size) \subseteq in
  BY DEF There
<1>2. After(h[i]) = a + 1 + z
  BY ChainBlock DEF FreeBlock
<1> DEFINE payload == a + 1
           rest    == a + 1 + n
           end     == Written(a, z, n)
           after   == a + 1 + z
<1>3. payload \in Nat /\ rest \in Nat /\ end \in Nat /\ after \in Nat
  BY WordsServed
<1>4. /\ a <= payload /\ rest <= end /\ a < end /\ end <= after /\ a <= rest
      /\ z > n => end = rest + 1 /\ rest < end /\ payload <= end
  <2>1. /\ end \in Nat /\ end <= after /\ rest <= end /\ a < end
        /\ z > n => end = rest + 1
    BY WordsServed
  <2> HIDE DEF end
  <2> QED BY <2>1
<1>11. /\ payload = a + 1 /\ rest = a + 1 + n /\ rest = payload + n /\ end = Written(a, z, n)
       /\ after = After(h[i])
  BY <1>2
<1> HIDE DEF payload, rest, end, after
<1> DEFINE new == Touched(a, end)
<1>5. new \subseteq Nat
  BY <1>3, TouchedPages
<1> HIDE DEF new
<1>6. ASSUME NEW k \in 1 .. Len(r) PROVE r[k].addr \div PageWords \in in \cup new
  <2>1. CASE r[k].addr = a
    <3>1. h[i].addr \div PageWords \in in
      BY <1>1
    <3> QED BY <2>1, <3>1 DEF FreeBlock
  <2>2. CASE z > n /\ r[k].addr = rest
    <3>1. rest \div PageWords \in Touched(a, end)
      BY <1>3, <1>4, <2>2, PageTouched
    <3> QED BY <2>2, <3>1 DEF new
  <2>3. CASE \E j \in 1 .. Len(h) : j # i /\ r[k] = h[j]
    BY <1>1, <2>3
  <2> QED BY <1>11, <2>1, <2>2, <2>3 DEF Served, FreeBlock
<1>7. ASSUME NEW c \in own \cup {b} PROVE Touched(c.addr, c.addr + c.size) \subseteq in \cup new
  <2>1. CASE c \in own
    BY <1>1, <2>1
  <2>2. CASE c = b
    <3>1. c.addr = payload /\ c.addr + c.size = rest
      BY <1>11, <2>2 DEF Payload
    <3>2. Touched(payload, rest) \subseteq Touched(a, end)
      BY <1>3, <1>4, WithinTouched
    <3> QED BY <3>1, <3>2 DEF new
  <2> QED BY <2>1, <2>2
<1>8. ASSUME NEW k \in 1 .. Len(r), ~r[k].using
      PROVE  Inside(r[k].addr + 1, After(r[k])) \cap (in \cup new) = {}
  <2>1. CASE z > n /\ r[k].addr = rest /\ After(r[k]) = after
    <3>1. r[k].addr + 1 = end
      BY <1>4, <2>1
    <3>2. Inside(end, after) \subseteq Inside(payload, after)
      <4>1. after <= after
        BY <1>3
      <4> QED BY <1>3, <1>4, <2>1, <4>1, WithinInside
    <3>3. Inside(payload, after) \cap in = {}
      BY <1>11 DEF Clean, FreeBlock
    <3>4. Touched(a, end) \cap Inside(end, after) = {}
      <4>1. end <= end
        BY <1>3
      <4> QED BY <1>3, <4>1, ApartPages
    <3> QED BY <2>1, <3>1, <3>2, <3>3, <3>4 DEF new
  <2>2. CASE \E j \in 1 .. Len(h) : j # i /\ r[k] = h[j]
    <3>1. PICK j \in 1 .. Len(h) : j # i /\ r[k] = h[j]
      BY <2>2
    <3>2. Inside(h[j].addr + 1, After(h[j])) \cap in = {}
      BY <1>8, <3>1 DEF Clean
    <3>3. PICK c \in Nat, d \in Nat : c = h[j].addr /\ d = After(h[j])
      BY ChainBlock
    <3>4. after <= c \/ d <= a
      <4>1. After(h[i]) <= h[j].addr \/ After(h[j]) <= h[i].addr
        BY <3>1, BlocksApart
      <4> QED BY <1>11, <3>3, <4>1 DEF FreeBlock
    <3>5. end <= c + 1 \/ d <= a
      BY <1>3, <1>4, <3>4
    <3>6. Touched(a, end) \cap Inside(c + 1, d) = {}
      <4>1. c + 1 \in Nat
        OBVIOUS
      <4> QED BY <1>3, <3>5, <4>1, ApartPages
    <3>7. Inside(r[k].addr + 1, After(r[k])) = Inside(c + 1, d)
      BY <3>1, <3>3
    <3> QED BY <3>1, <3>2, <3>6, <3>7 DEF new
  <2>3. \/ r[k].using
        \/ h[i].size > n /\ r[k].addr = h[i].addr + 1 + n /\ After(r[k]) = After(h[i])
        \/ \E j \in 1 .. Len(h) : j # i /\ r[k] = h[j]
    BY DEF Served
  <2> QED BY <1>8, <1>11, <2>1, <2>2, <2>3 DEF FreeBlock
<1>9. in \cup new \subseteq Nat
  BY <1>1, <1>5
<1>10. There(r, own \cup {b}, in \cup new) /\ Clean(r, in \cup new)
  BY <1>6, <1>7, <1>8, <1>9 DEF There, Clean
<1> QED BY <1>10, <1>11 DEF new

(* The kernel heap has all its pages.                                       *)
LEMMA AllThere ==
  ASSUME NEW r, NEW length \in Nat, Chain(r, length * PageWords), NEW own, Owned(r, own)
  PROVE  There(r, own, 0 .. length - 1)
<1>1. PageStart(length) = length * PageWords /\ PageStart(length) \in Nat
  BY PagesAscend DEF PageStart
<1>2. ASSUME NEW k \in 1 .. Len(r) PROVE r[k].addr \in Nat /\ r[k].addr < PageStart(length)
  <2>1. After(r[k]) <= PageStart(length) /\ After(r[k]) \in Nat /\ r[k].addr \in Nat /\ r[k].addr < After(r[k])
    BY <1>1, ChainEnd, ChainBlock
  <2> QED BY <1>1, <2>1
<1>3. ASSUME NEW k \in 1 .. Len(r) PROVE r[k].addr \div PageWords \in 0 .. length - 1
  <2> DEFINE p == r[k].addr \div PageWords
  <2>1. p \in Nat /\ PageStart(p) <= r[k].addr
    BY <1>2, PageOf
  <2> HIDE DEF p
  <2>2. PageStart(p) \in Nat
    BY <2>1, PagesAscend
  <2>5. PageStart(p) < PageStart(length)
    BY <1>1, <1>2, <2>1, <2>2
  <2>3. p < length
    BY <2>1, <2>5, PagesAscend
  <2> QED BY <2>1, <2>3 DEF p
<1>4. ASSUME NEW c \in own PROVE Touched(c.addr, c.addr + c.size) \subseteq 0 .. length - 1
  <2>1. PICK k \in 1 .. Len(r) : r[k].using /\ r[k].addr + 1 = c.addr /\ r[k].size >= c.size
    BY DEF Owned
  <2>2. c.addr \in Nat /\ c.size \in Nat /\ c.addr + c.size \in Nat
    BY DEF Owned
  <2>3. /\ After(r[k]) <= PageStart(length) /\ After(r[k]) = r[k].addr + 1 + r[k].size
        /\ r[k].addr \in Nat /\ r[k].size \in Nat
    BY <1>1, ChainEnd, ChainBlock
  <2>4. c.addr + c.size <= PageStart(length)
    <3>1. PICK ca \in Nat, cz \in Nat, ra \in Nat, rz \in Nat, l \in Nat :
            /\ ca = c.addr /\ cz = c.size /\ ra = r[k].addr /\ rz = r[k].size
            /\ l = PageStart(length)
      BY <1>1, <2>2, <2>3
    <3>2. ra + 1 = ca /\ cz <= rz /\ ra + 1 + rz <= l
      BY <2>1, <2>3, <3>1
    <3>3. ca + cz <= l
      BY <3>2
    <3> QED BY <3>1, <3>3
  <2>5. ASSUME NEW p \in Nat, p \in Touched(c.addr, c.addr + c.size) PROVE p \in 0 .. length - 1
    <3>1. PageStart(p) < c.addr + c.size /\ PageStart(p) \in Nat
      BY <2>2, <2>5, TouchedPages, PagesAscend
    <3>2. PageStart(p) < PageStart(length)
      BY <1>1, <2>2, <2>4, <3>1
    <3>3. p < length
      BY <3>2, PagesAscend
    <3> QED BY <3>3
  <2>6. Touched(c.addr, c.addr + c.size) \subseteq Nat
    BY <2>2, TouchedPages
  <2> QED BY <2>5, <2>6
<1> QED BY <1>3, <1>4 DEF There

-----------------------------------------------------------------------------
(* What heap_free makes of a list: block j takes in the one behind it.      *)
Joins(h, r, j, m) ==
  /\ r \in Seq(HeapBlock) /\ Len(r) + 1 = Len(h) /\ j \in 1 .. Len(r)
  /\ \A x \in 1 .. Len(r) : x < j => r[x] = h[x]
  /\ r[j] = m
  /\ \A x \in 1 .. Len(r) : x > j => r[x] = h[x + 1]

(* m is the free block made of blocks a and b.                              *)
Union(m, a, b) ==
  /\ m \in HeapBlock /\ ~m.using /\ m.addr = a.addr /\ After(m) = After(b)
  /\ m.last <=> b.last

LEMMA JoinElements ==
  ASSUME NEW h \in Seq(HeapBlock), NEW j \in 1 .. Len(h), NEW k \in 1 .. Len(h), k = j + 1,
         NEW m \in HeapBlock
  PROVE  Joins(h, RemoveAt([h EXCEPT ![j] = m], k), j, m)
<1> DEFINE s == [h EXCEPT ![j] = m]
<1>1. /\ s \in Seq(HeapBlock) /\ Len(s) = Len(h) /\ Len(h) \in Nat /\ s[j] = m
      /\ \A x \in 1 .. Len(h) : x # j => s[x] = h[x]
  OBVIOUS
<1> HIDE DEF s
<1> DEFINE r == RemoveAt(s, k)
<1>2. k \in 1 .. Len(s)
  BY <1>1
<1>3. /\ r \in Seq(HeapBlock) /\ Len(r) = Len(s) - 1
      /\ \A x \in 1 .. Len(s) - 1 : r[x] = IF x < k THEN s[x] ELSE s[x + 1]
  BY <1>1, <1>2, RemoveAtElements
<1> HIDE DEF r
<1>4. Len(r) + 1 = Len(h) /\ j \in 1 .. Len(r) /\ Len(r) \in Nat
  BY <1>1, <1>3
<1>5. ASSUME NEW x \in 1 .. Len(r)
      PROVE  /\ x < j => r[x] = h[x]
             /\ x = j => r[x] = m
             /\ x > j => r[x] = h[x + 1]
  <2>1. x \in 1 .. Len(s) - 1 /\ x \in 1 .. Len(h) /\ x + 1 \in 1 .. Len(h)
    BY <1>1, <1>3, <1>4
  <2>2. r[x] = IF x < k THEN s[x] ELSE s[x + 1]
    BY <1>3, <2>1
  <2>3. CASE x < j
    <3>1. x < k /\ x # j
      BY <2>3
    <3> QED BY <1>1, <2>1, <2>2, <2>3, <3>1
  <2>4. CASE x = j
    <3>1. x < k
      BY <2>4
    <3> QED BY <1>1, <2>2, <2>4, <3>1
  <2>5. CASE x > j
    <3>1. ~(x < k) /\ x + 1 # j
      BY <2>5
    <3>2. s[x + 1] = h[x + 1]
      BY <1>1, <2>1, <3>1
    <3> QED BY <2>2, <2>5, <3>1, <3>2
  <2> QED BY <2>3, <2>4, <2>5
<1> QED BY <1>3, <1>4, <1>5 DEF Joins, r, s

LEMMA JoinKeepsChain ==
  ASSUME NEW h, NEW w, Chain(h, w), NEW r, NEW j \in 1 .. Len(h), NEW k \in 1 .. Len(h), k = j + 1,
         NEW m, Union(m, h[j], h[k]), Joins(h, r, j, m)
  PROVE  Chain(r, w)
<1>1. /\ Len(h) \in Nat /\ Len(h) >= 1 /\ h[1].addr = 0
      /\ \A a, b \in 1 .. Len(h) : b = a + 1 => After(h[a]) = h[b].addr
      /\ After(h[Len(h)]) = w
      /\ \A a \in 1 .. Len(h) : h[a].last <=> a = Len(h)
  BY DEF Chain
<1>2. /\ r \in Seq(HeapBlock) /\ Len(r) + 1 = Len(h) /\ j \in 1 .. Len(r)
      /\ \A x \in 1 .. Len(r) : x < j => r[x] = h[x]
      /\ r[j] = m
      /\ \A x \in 1 .. Len(r) : x > j => r[x] = h[x + 1]
  BY DEF Joins
<1>3. m.addr = h[j].addr /\ After(m) = After(h[k]) /\ (m.last <=> h[k].last)
  BY DEF Union
<1>4. Len(r) \in Nat /\ Len(r) >= 1
  BY <1>2
<1>5. \A x \in 1 .. Len(r) : x \in 1 .. Len(h) /\ x + 1 \in 1 .. Len(h)
  BY <1>1, <1>2, <1>4
<1>6. ASSUME NEW a \in 1 .. Len(r), NEW b \in 1 .. Len(r), b = a + 1
      PROVE  After(r[a]) = r[b].addr
  <2>1. a \in 1 .. Len(h) /\ b \in 1 .. Len(h) /\ a + 1 \in 1 .. Len(h) /\ b + 1 \in 1 .. Len(h)
    BY <1>5
  <2>2. CASE b < j
    <3>1. a < j
      BY <1>6, <2>2
    <3> QED BY <1>1, <1>2, <1>6, <2>1, <2>2, <3>1
  <2>3. CASE b = j
    <3>1. a < j
      BY <1>6, <2>3
    <3> QED BY <1>1, <1>2, <1>3, <1>6, <2>1, <2>3, <3>1
  <2>4. CASE a = j
    <3>1. b > j /\ b + 1 = k + 1
      BY <1>6, <2>4
    <3>2. After(h[k]) = h[b + 1].addr
      BY <1>1, <2>1, <3>1
    <3>3. r[b] = h[b + 1]
      BY <1>2, <3>1
    <3> QED BY <1>2, <1>3, <2>4, <3>2, <3>3
  <2>5. CASE a > j
    <3>1. b > j /\ b + 1 = (a + 1) + 1
      BY <1>6, <2>5
    <3>2. After(h[a + 1]) = h[b + 1].addr
      BY <1>1, <2>1, <3>1
    <3>3. r[b] = h[b + 1] /\ r[a] = h[a + 1]
      BY <1>2, <2>5, <3>1
    <3> QED BY <3>2, <3>3
  <2>6. b < j \/ b = j \/ a = j \/ a > j
    BY <1>6
  <2> QED BY <2>2, <2>3, <2>4, <2>5, <2>6
<1>7. After(r[Len(r)]) = w
  <2>1. CASE j = Len(r)
    <3>1. k = Len(h)
      BY <1>2, <2>1
    <3> QED BY <1>1, <1>2, <1>3, <2>1, <3>1
  <2>2. CASE j # Len(r)
    <3>1. Len(r) \in 1 .. Len(r) /\ Len(r) > j
      BY <1>2, <1>4, <2>2
    <3>2. r[Len(r)] = h[Len(r) + 1]
      BY <1>2, <3>1
    <3> QED BY <1>1, <1>2, <3>2
  <2> QED BY <2>1, <2>2
<1>8. r[1].addr = 0
  <2>1. CASE j = 1
    BY <1>1, <1>2, <1>3, <2>1
  <2>2. CASE j # 1
    <3>1. 1 \in 1 .. Len(r) /\ 1 < j
      BY <1>4, <2>2
    <3> QED BY <1>1, <1>2, <3>1
  <2> QED BY <2>1, <2>2
<1>9. ASSUME NEW a \in 1 .. Len(r) PROVE r[a].last <=> a = Len(r)
  <2>1. CASE a < j
    <3>1. a # Len(h) /\ a # Len(r) /\ a \in 1 .. Len(h)
      BY <1>2, <1>4, <1>5, <2>1
    <3> QED BY <1>1, <1>2, <2>1, <3>1
  <2>2. CASE a = j
    <3>1. a = Len(r) <=> k = Len(h)
      BY <1>2, <2>2
    <3> QED BY <1>1, <1>2, <1>3, <2>2, <3>1
  <2>3. CASE a > j
    <3>1. a + 1 \in 1 .. Len(h) /\ (a = Len(r) <=> a + 1 = Len(h))
      <4>1. Len(r) + 1 = Len(h) /\ Len(r) \in Nat
        BY <1>2, <1>4
      <4> QED BY <4>1
    <3>2. r[a] = h[a + 1]
      BY <1>2, <2>3
    <3> QED BY <1>1, <3>1, <3>2
  <2> QED BY <2>1, <2>2, <2>3
<1> QED BY <1>2, <1>4, <1>6, <1>7, <1>8, <1>9 DEF Chain

(* The blocks that are not joined stay, wherever they are found now.        *)
Kept(h, r, j, k) ==
  /\ \A x \in 1 .. Len(h) : x # j /\ x # k => \E y \in 1 .. Len(r) : y # j /\ r[y] = h[x]
  /\ \A y \in 1 .. Len(r) : y # j => \E x \in 1 .. Len(h) : x # j /\ x # k /\ r[y] = h[x]

LEMMA JoinBlocks ==
  ASSUME NEW h, NEW w, Chain(h, w), NEW r, NEW j \in 1 .. Len(h), NEW k \in 1 .. Len(h), k = j + 1,
         NEW m, Joins(h, r, j, m)
  PROVE  Kept(h, r, j, k)
<1>1. /\ Len(r) + 1 = Len(h) /\ j \in 1 .. Len(r) /\ Len(r) \in Nat /\ Len(h) \in Nat
      /\ \A x \in 1 .. Len(r) : x < j => r[x] = h[x]
      /\ \A x \in 1 .. Len(r) : x > j => r[x] = h[x + 1]
  BY DEF Joins, Chain
<1>2. ASSUME NEW x \in 1 .. Len(h), x # j, x # k
      PROVE  \E y \in 1 .. Len(r) : y # j /\ r[y] = h[x]
  <2>1. CASE x < j
    <3>1. x \in 1 .. Len(r) /\ r[x] = h[x]
      BY <1>1, <2>1
    <3> QED BY <1>2, <3>1
  <2>2. CASE x > j
    <3>1. PICK y \in 1 .. Len(r) : y > j /\ y + 1 = x
      <4>1. x - 1 \in 1 .. Len(r) /\ x - 1 > j /\ (x - 1) + 1 = x
        BY <1>1, <1>2, <2>2
      <4> QED BY <4>1
    <3>2. r[y] = h[y + 1] /\ y # j
      BY <1>1, <3>1
    <3> QED BY <3>1, <3>2
  <2> QED BY <1>2, <2>1, <2>2
<1>3. ASSUME NEW y \in 1 .. Len(r), y # j
      PROVE  \E x \in 1 .. Len(h) : x # j /\ x # k /\ r[y] = h[x]
  <2>1. CASE y < j
    <3>1. y \in 1 .. Len(h) /\ y # k /\ r[y] = h[y]
      BY <1>1, <2>1
    <3> QED BY <1>3, <3>1
  <2>2. CASE y > j
    <3>1. y + 1 \in 1 .. Len(h) /\ y + 1 # j /\ y + 1 # k /\ r[y] = h[y + 1]
      BY <1>1, <2>2
    <3> QED BY <3>1
  <2> QED BY <1>3, <2>1, <2>2
<1> QED BY <1>2, <1>3 DEF Kept

(* Joining two free blocks takes nothing from a caller, ...                 *)
LEMMA JoinKeepsOwned ==
  ASSUME NEW h, NEW w, Chain(h, w), NEW r, NEW j \in 1 .. Len(h), NEW k \in 1 .. Len(h), k = j + 1,
         NEW m, Union(m, h[j], h[k]), Joins(h, r, j, m), ~h[j].using, ~h[k].using,
         NEW own, Owned(h, own)
  PROVE  Owned(r, own)
<1>1. Kept(h, r, j, k)
  BY JoinBlocks
<1>2. r[j] = m /\ ~m.using
  BY DEF Joins, Union
<1>3. ASSUME NEW c \in own
      PROVE  \E y \in 1 .. Len(r) : r[y].using /\ r[y].addr + 1 = c.addr /\ r[y].size >= c.size
  <2>1. PICK x \in 1 .. Len(h) : h[x].using /\ h[x].addr + 1 = c.addr /\ h[x].size >= c.size
    BY DEF Owned
  <2>2. PICK y \in 1 .. Len(r) : r[y] = h[x]
    BY <1>1, <2>1 DEF Kept
  <2> QED BY <2>1, <2>2
<1>4. ASSUME NEW y \in 1 .. Len(r), r[y].using
      PROVE  \E c \in own : c.addr = r[y].addr + 1
  <2>1. PICK x \in 1 .. Len(h) : r[y] = h[x]
    BY <1>1, <1>2, <1>4 DEF Kept
  <2> QED BY <1>4, <2>1 DEF Owned
<1> QED BY <1>3, <1>4 DEF Owned

(* ... nor any header but the one that is not needed any more, ...          *)
LEMMA JoinKeepsThere ==
  ASSUME NEW h, NEW w, Chain(h, w), NEW r, NEW j \in 1 .. Len(h), NEW k \in 1 .. Len(h), k = j + 1,
         NEW m, Union(m, h[j], h[k]), Joins(h, r, j, m), NEW own, NEW in, There(h, own, in)
  PROVE  There(r, own, in)
<1>1. Kept(h, r, j, k)
  BY JoinBlocks
<1>2. r[j].addr = h[j].addr
  BY DEF Joins, Union
<1>3. \A y \in 1 .. Len(r) : r[y].addr \div PageWords \in in
  BY <1>1, <1>2 DEF There, Kept
<1> QED BY <1>3 DEF There

(* Two neighbours that are free are found at the positions of E at most.    *)
Pairs(h, E) ==
  \A a, b \in 1 .. Len(h) : b = a + 1 /\ ~h[a].using /\ ~h[b].using => a \in E

LEMMA NoPairs ==
  ASSUME NEW h, NEW w, Chain(h, w)
  PROVE  Joined(h) <=> ~h[Len(h)].using /\ Pairs(h, {})
<1>1. Len(h) \in Nat
  BY DEF Chain
<1>2. ASSUME Joined(h) PROVE Pairs(h, {})
  <2> SUFFICES ASSUME NEW a \in 1 .. Len(h), NEW b \in 1 .. Len(h), b = a + 1, ~h[a].using, ~h[b].using
               PROVE  FALSE
    BY DEF Pairs
  <2>1. b # 1 /\ b - 1 = a
    OBVIOUS
  <2>2. h[b - 1].using
    BY <1>2, <2>1 DEF Joined
  <2> QED BY <2>1, <2>2
<1>3. ASSUME Pairs(h, {}), NEW b \in 1 .. Len(h), ~h[b].using, b # 1 PROVE h[b - 1].using
  <2>1. b - 1 \in 1 .. Len(h) /\ b = (b - 1) + 1
    BY <1>1, <1>3
  <2> QED BY <1>3, <2>1 DEF Pairs
<1> QED BY <1>2, <1>3 DEF Joined

(* ... and the free neighbours that are left lie before or behind.          *)
LEMMA JoinPairs ==
  ASSUME NEW h, NEW w, Chain(h, w), NEW r, NEW j \in 1 .. Len(h), NEW k \in 1 .. Len(h), k = j + 1,
         NEW m, Union(m, h[j], h[k]), Joins(h, r, j, m), ~h[j].using, ~h[k].using,
         NEW E \in SUBSET {j, k}, Pairs(h, E), ~h[Len(h)].using
  PROVE  /\ ~r[Len(r)].using
         /\ Pairs(r, {j})
         /\ k \notin E => Pairs(r, {})
<1>1. /\ Len(r) + 1 = Len(h) /\ j \in 1 .. Len(r) /\ Len(r) \in Nat /\ Len(h) \in Nat
      /\ \A x \in 1 .. Len(r) : x < j => r[x] = h[x]
      /\ r[j] = m /\ ~m.using
      /\ \A x \in 1 .. Len(r) : x > j => r[x] = h[x + 1]
  BY DEF Joins, Chain, Union
<1>2. ~r[Len(r)].using
  <2>1. CASE j = Len(r)
    BY <1>1, <2>1
  <2>2. CASE j # Len(r)
    <3>1. Len(r) \in 1 .. Len(r) /\ Len(r) > j
      BY <1>1, <2>2
    <3> QED BY <1>1, <3>1
  <2> QED BY <2>1, <2>2
<1>3. ASSUME NEW a \in 1 .. Len(r), NEW b \in 1 .. Len(r), b = a + 1, ~r[a].using, ~r[b].using
      PROVE  a = j /\ k \in E
  <2>1. a \in 1 .. Len(h) /\ b \in 1 .. Len(h) /\ a + 1 \in 1 .. Len(h) /\ b + 1 \in 1 .. Len(h)
    BY <1>1
  <2>2. CASE a < j
    <3>1. ~h[a].using
      BY <1>1, <1>3, <2>2
    <3>2. ~h[b].using
      <4>1. CASE b < j
        BY <1>1, <1>3, <4>1
      <4>2. CASE b = j
        BY <4>2
      <4> QED BY <1>3, <2>2, <4>1, <4>2
    <3>3. a \in E
      BY <1>3, <2>1, <3>1, <3>2 DEF Pairs
    <3> QED BY <2>2, <3>3
  <2>3. CASE a = j
    <3>1. b > j /\ b + 1 = k + 1 /\ k + 1 \in 1 .. Len(h)
      BY <1>3, <2>1, <2>3
    <3>2. ~h[k + 1].using
      BY <1>1, <1>3, <3>1
    <3> QED BY <2>3, <3>1, <3>2 DEF Pairs
  <2>4. CASE a > j
    <3>1. ~h[a + 1].using /\ ~h[b + 1].using /\ b + 1 = (a + 1) + 1
      BY <1>1, <1>3, <2>4
    <3>2. a + 1 \in E
      BY <2>1, <3>1 DEF Pairs
    <3> QED BY <2>4, <3>2
  <2> QED BY <2>2, <2>3, <2>4
<1> QED BY <1>2, <1>3 DEF Pairs

-----------------------------------------------------------------------------
(* The first page at or behind a word, and the last page boundary before it. *)
LEMMA RoundedUp ==
  ASSUME NEW a \in Nat
  PROVE  /\ (a + PageWords - 1) \div PageWords \in Nat
         /\ \A p \in Nat : (a + PageWords - 1) \div PageWords <= p <=> a <= PageStart(p)
<1>1. PageWords \in Nat \ {0}
  BY HeapAssumption
<1>2. PICK c \in Nat : c = a + PageWords - 1
  BY <1>1
<1> DEFINE q == c \div PageWords
<1>3. q \in Nat /\ PageStart(q) <= c /\ c < PageStart(q + 1)
  BY PageOf
<1> HIDE DEF q
<1>4. ASSUME NEW p \in Nat PROVE q <= p <=> a <= PageStart(p)
  <2>1. /\ PageStart(p) \in Nat /\ PageStart(p + 1) = PageStart(p) + PageWords
        /\ PageStart(q) \in Nat /\ PageStart(q + 1) = PageStart(q) + PageWords
        /\ p < q => PageStart(p + 1) <= PageStart(q)
        /\ q < p => PageStart(q + 1) <= PageStart(p)
    BY <1>3, PagesAscend
  <2>2. CASE p < q
    BY <1>1, <1>2, <1>3, <2>1, <2>2
  <2>3. CASE q < p
    BY <1>1, <1>2, <1>3, <2>1, <2>3
  <2>4. CASE q = p
    BY <1>1, <1>2, <1>3, <2>1, <2>4
  <2> QED BY <1>3, <2>2, <2>3, <2>4
<1> QED BY <1>2, <1>3, <1>4 DEF q

LEMMA RoundedDown ==
  ASSUME NEW a \in Nat
  PROVE  /\ a \div PageWords \in Nat
         /\ \A p \in Nat : p <= a \div PageWords <=> PageStart(p) <= a
<1> DEFINE q == a \div PageWords
<1>1. q \in Nat /\ PageStart(q) <= a /\ a < PageStart(q + 1)
  BY PageOf
<1> HIDE DEF q
<1>2. ASSUME NEW p \in Nat PROVE p <= q <=> PageStart(p) <= a
  <2>1. /\ PageStart(p) \in Nat /\ PageStart(q) \in Nat /\ PageStart(q + 1) \in Nat
        /\ PageStart(p) < PageStart(p + 1) /\ PageStart(p + 1) \in Nat
        /\ p < q => PageStart(p + 1) <= PageStart(q)
        /\ q < p => PageStart(q + 1) <= PageStart(p)
    <3>1. PageWords \in Nat \ {0}
      BY HeapAssumption
    <3> QED BY <1>1, <3>1, PagesAscend
  <2> QED BY <1>1, <2>1
<1> QED BY <1>1, <1>2 DEF q

-----------------------------------------------------------------------------
(* The header of block b is at a, and the next one at e.                    *)
Between(b, a, e) == b.addr = a /\ After(b) = e

(* heap_free, up to the uncommit: block j is the freed one, joined with what *)
(* is free before it; E is where it may still have a free neighbour.         *)
Freed(r, w, own, in, j, E) ==
  /\ Chain(r, w) /\ Owned(r, own) /\ There(r, own, in)
  /\ j \in 1 .. Len(r) /\ ~r[j].using
  /\ ~r[Len(r)].using /\ Pairs(r, E)

(* The block was a .. e - 1: what block j has before a and from e on was free *)
(* before, as the other free blocks were, and no page of it is there.         *)
Unfreed(r, in, j, a, e) ==
  /\ r[j].addr <= a /\ e <= After(r[j])
  /\ Inside(r[j].addr + 1, a) \cap in = {}
  /\ Inside(e + 1, After(r[j])) \cap in = {}
  /\ \A k \in 1 .. Len(r) : k # j /\ ~r[k].using =>
       Inside(r[k].addr + 1, After(r[k])) \cap in = {}

(* One block of a list is replaced by one that differs in the flag only.    *)
Cleared(h, c, i) ==
  /\ c \in Seq(HeapBlock) /\ Len(c) = Len(h)
  /\ \A x \in 1 .. Len(h) : x # i => c[x] = h[x]
  /\ c[i].addr = h[i].addr /\ c[i].size = h[i].size /\ c[i].last = h[i].last /\ ~c[i].using
  /\ After(c[i]) = After(h[i])

LEMMA ClearedElements ==
  ASSUME NEW h \in Seq(HeapBlock), NEW i \in 1 .. Len(h)
  PROVE  Cleared(h, [h EXCEPT ![i].using = FALSE], i)
<1> DEFINE m == [h[i] EXCEPT !.using = FALSE]
           c == [h EXCEPT ![i] = m]
<1>1. h[i] \in HeapBlock
  OBVIOUS
<1>2. /\ m \in HeapBlock /\ m.addr = h[i].addr /\ m.size = h[i].size /\ m.last = h[i].last
      /\ ~m.using
  BY <1>1 DEF HeapBlock
<1>3. After(m) = After(h[i])
  BY <1>2 DEF After
<1> HIDE DEF m
<1>4. /\ c \in Seq(HeapBlock) /\ Len(c) = Len(h) /\ c[i] = m
      /\ \A x \in 1 .. Len(h) : x # i => c[x] = h[x]
  BY <1>2
<1>5. c = [h EXCEPT ![i].using = FALSE]
  BY DEF m
<1> QED BY <1>2, <1>3, <1>4, <1>5 DEF Cleared

LEMMA NextWords ==
  \A a, b \in Nat : a + 1 = b + 1 <=> a = b
OBVIOUS

(* The block a caller frees is used, and so it is not the last one.         *)
LEMMA FreedBlock ==
  ASSUME NEW h, NEW w, Chain(h, w), ~h[Len(h)].using, NEW own, Owned(h, own), NEW b \in own,
         NEW i \in 1 .. Len(h), h[i].addr + 1 = b.addr
  PROVE  h[i].using /\ i # Len(h) /\ ~h[i].last
<1>1. PICK x \in 1 .. Len(h) : h[x].using /\ h[x].addr + 1 = b.addr
  BY DEF Owned
<1>2. x = i
  <2> SUFFICES ASSUME x # i PROVE FALSE
    OBVIOUS
  <2>1. After(h[x]) <= h[i].addr \/ After(h[i]) <= h[x].addr
    BY BlocksApart
  <2>2. /\ h[x].addr \in Nat /\ h[i].addr \in Nat /\ After(h[x]) \in Nat /\ After(h[i]) \in Nat
        /\ h[x].addr < After(h[x]) /\ h[i].addr < After(h[i])
    BY ChainBlock
  <2>3. h[x].addr = h[i].addr
    <3>1. h[x].addr + 1 = h[i].addr + 1
      BY <1>1
    <3> QED BY <2>2, <3>1, NextWords
  <2> QED BY <2>1, <2>2, <2>3
<1>3. h[i].using /\ i # Len(h)
  BY <1>1, <1>2
<1> QED BY <1>3 DEF Chain

LEMMA ClearFreed ==
  ASSUME NEW h, NEW w, Chain(h, w), Joined(h), NEW own, Owned(h, own), NEW in, There(h, own, in),
         NEW b \in own, NEW i \in 1 .. Len(h), h[i].addr + 1 = b.addr, NEW c, Cleared(h, c, i)
  PROVE  /\ Freed(c, w, own \ {b}, in, i, {i - 1, i})
         /\ Clean(h, in) => Unfreed(c, in, i, h[i].addr, After(h[i]))
<1>1. /\ Len(h) \in Nat /\ Len(h) >= 1 /\ h[1].addr = 0
      /\ \A x, y \in 1 .. Len(h) : y = x + 1 => After(h[x]) = h[y].addr
      /\ After(h[Len(h)]) = w
      /\ \A x \in 1 .. Len(h) : h[x].last <=> x = Len(h)
  BY DEF Chain
<1>2. ~h[Len(h)].using
  BY DEF Joined
<1>3. h[i].using /\ i # Len(h)
  BY <1>2, FreedBlock
<1>4. \A x \in 1 .. Len(h) :
        /\ c[x].addr = h[x].addr /\ c[x].last = h[x].last /\ After(c[x]) = After(h[x])
        /\ c[x].using <=> x # i /\ h[x].using
  BY DEF Cleared
<1>5. c \in Seq(HeapBlock) /\ Len(c) = Len(h) /\ \A x \in 1 .. Len(h) : x # i => c[x] = h[x]
  BY DEF Cleared
<1>6. 1 \in 1 .. Len(h) /\ Len(h) \in 1 .. Len(h)
  BY <1>1
<1>7. Chain(c, w)
  BY <1>1, <1>4, <1>5, <1>6 DEF Chain
<1>8. ~c[Len(c)].using
  BY <1>2, <1>4, <1>5, <1>6
<1>9. Pairs(c, {i - 1, i})
  <2> SUFFICES ASSUME NEW x \in 1 .. Len(c), NEW y \in 1 .. Len(c), y = x + 1,
                      ~c[x].using, ~c[y].using, x # i
               PROVE  x = i - 1
    BY DEF Pairs
  <2>1. ~h[x].using /\ (y # i => ~h[y].using)
    BY <1>4, <1>5
  <2>2. Pairs(h, {})
    BY NoPairs
  <2>3. y = i
    BY <1>5, <2>1, <2>2 DEF Pairs
  <2> QED BY <2>3
<1>10. /\ own \subseteq [addr : Nat, size : Nat]
       /\ \A d \in own : \E x \in 1 .. Len(h) :
            h[x].using /\ h[x].addr + 1 = d.addr /\ h[x].size >= d.size
       /\ \A x \in 1 .. Len(h) : h[x].using => \E d \in own : d.addr = h[x].addr + 1
       /\ \A d, f \in own : d # f => d.addr + d.size < f.addr \/ f.addr + f.size < d.addr
  BY DEF Owned
<1>11. Owned(c, own \ {b})
  <2>1. ASSUME NEW d \in own \ {b}
        PROVE  \E x \in 1 .. Len(c) : c[x].using /\ c[x].addr + 1 = d.addr /\ c[x].size >= d.size
    <3>1. PICK x \in 1 .. Len(h) : h[x].using /\ h[x].addr + 1 = d.addr /\ h[x].size >= d.size
      BY <1>10
    <3>2. d.addr # b.addr
      <4>1. PICK da \in Nat, dz \in Nat, ba \in Nat, bz \in Nat :
              da = d.addr /\ dz = d.size /\ ba = b.addr /\ bz = b.size
        BY <1>10
      <4>2. d.addr + d.size < b.addr \/ b.addr + b.size < d.addr
        BY <1>10
      <4>3. da + dz < ba \/ ba + bz < da
        BY <4>1, <4>2
      <4>4. da # ba
        BY <4>3
      <4> QED BY <4>1, <4>4
    <3>3. x # i
      BY <3>1, <3>2
    <3> QED BY <1>5, <3>1, <3>3
  <2>2. ASSUME NEW x \in 1 .. Len(c), c[x].using
        PROVE  \E d \in own \ {b} : d.addr = c[x].addr + 1
    <3>1. x \in 1 .. Len(h) /\ x # i /\ h[x].using /\ c[x] = h[x]
      BY <1>4, <1>5, <2>2
    <3>2. PICK d \in own : d.addr = h[x].addr + 1
      BY <1>10, <3>1
    <3>3. h[x].addr # h[i].addr
      <4>1. After(h[x]) <= h[i].addr \/ After(h[i]) <= h[x].addr
        BY <3>1, BlocksApart
      <4>2. /\ h[x].addr \in Nat /\ h[i].addr \in Nat /\ After(h[x]) \in Nat
            /\ After(h[i]) \in Nat /\ h[x].addr < After(h[x]) /\ h[i].addr < After(h[i])
        BY <3>1, ChainBlock
      <4> QED BY <4>1, <4>2
    <3>4. d # b
      <4>1. h[x].addr \in Nat /\ h[i].addr \in Nat
        BY <3>1, ChainBlock
      <4>2. h[x].addr + 1 # h[i].addr + 1
        BY <3>3, <4>1, NextWords
      <4> QED BY <3>2, <4>2
    <3> QED BY <3>1, <3>2, <3>4
  <2> QED BY <1>10, <2>1, <2>2 DEF Owned
<1>12. There(c, own \ {b}, in)
  BY <1>4, <1>5 DEF There
<1>13. ASSUME Clean(h, in) PROVE Unfreed(c, in, i, h[i].addr, After(h[i]))
  <2>1. c[i].addr = h[i].addr /\ After(c[i]) = After(h[i])
    BY <1>4
  <2>2. PICK a \in Nat, e \in Nat : a = h[i].addr /\ e = After(h[i])
    BY ChainBlock
  <2>3. Inside(a + 1, a) = {} /\ Inside(e + 1, e) = {}
    <3>1. ASSUME NEW x \in Nat, NEW p \in Inside(x + 1, x) PROVE FALSE
      <4>1. x + 1 \in Nat
        OBVIOUS
      <4>2. p \in Nat /\ x + 1 <= PageStart(p) /\ PageStart(p + 1) <= x
        BY <3>1, <4>1, InsidePages
      <4>3. PageWords \in Nat \ {0}
        BY HeapAssumption
      <4>4. PageStart(p) \in Nat /\ PageStart(p + 1) = PageStart(p) + PageWords
        BY <4>2, PagesAscend
      <4> QED BY <4>2, <4>3, <4>4
    <3> QED BY <3>1
  <2>4. \A k \in 1 .. Len(c) : k # i /\ ~c[k].using =>
          Inside(c[k].addr + 1, After(c[k])) \cap in = {}
    BY <1>5, <1>13 DEF Clean
  <2>5. a <= a /\ e <= e
    OBVIOUS
  <2> QED BY <2>1, <2>2, <2>3, <2>4, <2>5 DEF Unfreed
<1>14. i \in 1 .. Len(c) /\ ~c[i].using
  BY <1>4, <1>5
<1> QED BY <1>7, <1>8, <1>9, <1>11, <1>12, <1>13, <1>14 DEF Freed

(* Two free neighbours make one free block.                                 *)
OneBlock(x, y) == [x EXCEPT !.size = x.size + 1 + y.size, !.last = y.last]

LEMMA FreeUnion ==
  ASSUME NEW x \in HeapBlock, NEW y \in HeapBlock, After(x) = y.addr, ~x.using
  PROVE  Union(OneBlock(x, y), x, y)
<1> DEFINE m == OneBlock(x, y)
<1>1. /\ x.addr \in Nat /\ x.size \in Nat /\ y.addr \in Nat /\ y.size \in Nat
      /\ y.last \in BOOLEAN /\ After(x) = x.addr + 1 + x.size /\ After(y) = y.addr + 1 + y.size
  BY HeaderFacts
<1>2. x.size + 1 + y.size \in Nat
  BY <1>1
<1>3. /\ m \in HeapBlock /\ m.addr = x.addr /\ m.size = x.size + 1 + y.size
      /\ m.using = x.using /\ m.last = y.last
  BY <1>1, <1>2 DEF HeapBlock, OneBlock
<1> HIDE DEF m
<1>4. After(m) = After(y)
  <2>1. After(m) = x.addr + 1 + (x.size + 1 + y.size)
    BY <1>3 DEF After
  <2>2. PICK a \in Nat, s \in Nat, b \in Nat, t \in Nat :
          a = x.addr /\ s = x.size /\ b = y.addr /\ t = y.size
    BY <1>1
  <2>3. a + 1 + s = b
    BY <1>1, <2>2
  <2>4. a + 1 + (s + 1 + t) = b + 1 + t
    BY <2>3
  <2> QED BY <1>1, <2>1, <2>2, <2>4
<1>5. Union(m, x, y)
  BY <1>3, <1>4 DEF Union
<1> QED BY <1>5 DEF m

(* What ClearUsing makes of the list with the flag cleared.                 *)
LEMMA ClearJoins ==
  ASSUME NEW h, NEW w, Chain(h, w), NEW i \in 1 .. Len(h), ~h[i].last
  PROVE  LET c == [h EXCEPT ![i].using = FALSE] IN
         \/ ClearUsing(h, i) = c /\ (i = 1 \/ h[i - 1].using)
         \/ \E j \in 1 .. Len(h), m \in HeapBlock :
              /\ i = j + 1 /\ ~h[j].using
              /\ Union(m, c[j], c[i]) /\ Joins(c, ClearUsing(h, i), j, m)
<1> DEFINE c == [h EXCEPT ![i].using = FALSE]
<1>1. h \in Seq(HeapBlock) /\ Len(h) \in Nat
  BY DEF Chain
<1>2. Cleared(h, c, i)
  BY <1>1, ClearedElements
<1>3. CASE ~(i > 1 /\ ~h[i - 1].using)
  BY <1>3 DEF ClearUsing
<1>4. CASE i > 1 /\ ~h[i - 1].using
  <2>1. PICK j \in 1 .. Len(h) : i = j + 1 /\ j = i - 1
    <3>1. i - 1 \in 1 .. Len(h) /\ i = (i - 1) + 1
      BY <1>1, <1>4
    <3> QED BY <3>1
  <2>2. ~h[j].using /\ j # i
    BY <1>4, <2>1
  <2> DEFINE m == [c[j] EXCEPT !.size = c[j].size + 1 + h[i].size]
  <2>3. ClearUsing(h, i) = RemoveAt([c EXCEPT ![j] = m], i)
    BY <1>1, <1>4, <2>1 DEF ClearUsing
  <2>4. /\ c \in Seq(HeapBlock) /\ Len(c) = Len(h) /\ c[j] = h[j] /\ c[i] \in HeapBlock
        /\ c[i].addr = h[i].addr /\ c[i].size = h[i].size /\ c[i].last = h[i].last
    BY <1>2, <2>2 DEF Cleared
  <2> HIDE DEF c
  <2>5. h[j] \in HeapBlock /\ After(h[j]) = h[i].addr /\ ~h[j].last /\ ~h[i].last
    <3>1. j # Len(h)
      BY <1>1, <2>1
    <3> QED BY <2>1, <3>1 DEF Chain
  <2>6. m = [c[j] EXCEPT !.size = c[j].size + 1 + c[i].size, !.last = c[i].last]
    <3>1. c[j].last = c[i].last
      BY <2>4, <2>5 DEF HeapBlock
    <3> QED BY <2>4, <2>5, <3>1 DEF HeapBlock
  <2> HIDE DEF m
  <2>7. Union(m, c[j], c[i])
    <3>1. PICK x \in HeapBlock, y \in HeapBlock : x = c[j] /\ y = c[i]
      BY <2>4, <2>5
    <3>2. After(x) = y.addr /\ ~x.using
      BY <2>2, <2>4, <2>5, <3>1
    <3>3. Union(OneBlock(x, y), x, y)
      BY <3>2, FreeUnion
    <3>4. m = OneBlock(x, y)
      BY <2>6, <3>1 DEF OneBlock
    <3> QED BY <3>1, <3>3, <3>4
  <2>8. m \in HeapBlock
    BY <2>7 DEF Union
  <2>9. Joins(c, RemoveAt([c EXCEPT ![j] = m], i), j, m)
    BY <2>1, <2>4, <2>8, JoinElements
  <2> QED BY <2>1, <2>2, <2>3, <2>7, <2>8, <2>9 DEF c
<1> QED BY <1>3, <1>4

(* What JoinNext makes of a list.                                           *)
LEMMA NextJoins ==
  ASSUME NEW r, NEW w, Chain(r, w), NEW j \in 1 .. Len(r), ~r[j].using
  PROVE  \/ /\ JoinNext(r, j) = r
            /\ \A k \in 1 .. Len(r) : k = j + 1 => r[k].using
         \/ \E k \in 1 .. Len(r), m \in HeapBlock :
              /\ k = j + 1 /\ ~r[k].using
              /\ Union(m, r[j], r[k]) /\ Joins(r, JoinNext(r, j), j, m)
<1>1. r \in Seq(HeapBlock) /\ Len(r) \in Nat /\ (r[j].last <=> j = Len(r))
  BY DEF Chain
<1>2. CASE j = Len(r)
  <2>1. JoinNext(r, j) = r
    BY <1>1, <1>2 DEF JoinNext
  <2>2. \A k \in 1 .. Len(r) : k # j + 1
    BY <1>1, <1>2
  <2> QED BY <2>1, <2>2
<1>3. CASE j # Len(r) /\ r[j + 1].using
  BY <1>3 DEF JoinNext
<1>4. CASE j # Len(r) /\ ~r[j + 1].using
  <2>1. PICK k \in 1 .. Len(r) : k = j + 1
    <3>1. j + 1 \in 1 .. Len(r)
      BY <1>1, <1>4
    <3> QED BY <3>1
  <2>2. r[j] \in HeapBlock /\ r[k] \in HeapBlock /\ After(r[j]) = r[k].addr
    BY <1>1, <2>1 DEF Chain
  <2> DEFINE m == [r[j] EXCEPT !.size = r[j].size + 1 + r[k].size, !.last = r[k].last]
  <2>3. JoinNext(r, j) = RemoveAt([r EXCEPT ![j] = m], k)
    BY <1>1, <1>4, <2>1, <2>2 DEF JoinNext, HeapBlock
  <2>4. Union(m, r[j], r[k])
    <3>1. PICK x \in HeapBlock, y \in HeapBlock : x = r[j] /\ y = r[k]
      BY <2>2
    <3>2. After(x) = y.addr /\ ~x.using
      BY <2>2, <3>1
    <3>3. Union(OneBlock(x, y), x, y)
      BY <3>2, FreeUnion
    <3>4. m = OneBlock(x, y)
      BY <3>1 DEF OneBlock
    <3> QED BY <3>1, <3>3, <3>4
  <2> HIDE DEF m
  <2>5. m \in HeapBlock
    BY <2>4 DEF Union
  <2>6. Joins(r, RemoveAt([r EXCEPT ![j] = m], k), j, m)
    BY <1>1, <2>1, <2>5, JoinElements
  <2> QED BY <1>4, <2>1, <2>3, <2>4, <2>5, <2>6
<1> QED BY <1>2, <1>3, <1>4

(* A join leaves the free space in fewer pieces.                            *)
LEMMA JoinFreed ==
  ASSUME NEW h, NEW w, NEW own, NEW in, NEW i \in 1 .. Len(h), NEW E, Freed(h, w, own, in, i, E),
         NEW r, NEW j \in 1 .. Len(h), NEW k \in 1 .. Len(h), k = j + 1, ~h[j].using, ~h[k].using,
         NEW m, Union(m, h[j], h[k]), Joins(h, r, j, m), E \subseteq {j, k}
  PROVE  /\ Freed(r, w, own, in, j, {j})
         /\ k \notin E => Freed(r, w, own, in, j, {})
<1>1. Chain(h, w) /\ Owned(h, own) /\ There(h, own, in) /\ ~h[Len(h)].using /\ Pairs(h, E)
  BY DEF Freed
<1>2. Chain(r, w) /\ Owned(r, own) /\ There(r, own, in)
  BY <1>1, JoinKeepsChain, JoinKeepsOwned, JoinKeepsThere
<1>3. ~r[Len(r)].using /\ Pairs(r, {j}) /\ (k \notin E => Pairs(r, {}))
  BY <1>1, JoinPairs
<1>4. j \in 1 .. Len(r) /\ ~r[j].using
  BY DEF Joins, Union
<1> QED BY <1>2, <1>3, <1>4 DEF Freed

LEMMA JoinBefore ==
  ASSUME NEW h, NEW w, Chain(h, w), NEW in, NEW a, NEW e,
         NEW j \in 1 .. Len(h), NEW i \in 1 .. Len(h), i = j + 1, ~h[j].using,
         Between(h[i], a, e), Unfreed(h, in, i, a, e),
         NEW r, NEW m, Union(m, h[j], h[i]), Joins(h, r, j, m)
  PROVE  Unfreed(r, in, j, a, e) /\ After(r[j]) = e
<1>1. r[j].addr = h[j].addr /\ After(r[j]) = e
  BY DEF Joins, Union, Between
<1>2. After(h[j]) = a /\ h[j].addr <= a /\ e <= e /\ j # i
  <2>1. /\ h[j].addr \in Nat /\ After(h[j]) \in Nat /\ h[j].addr < After(h[j])
        /\ After(h[i]) \in Nat
    BY ChainBlock
  <2>2. After(h[j]) = a
    BY DEF Chain, Between
  <2> QED BY <2>1, <2>2 DEF Between
<1>3. Inside(h[j].addr + 1, After(h[j])) \cap in = {} /\ Inside(e + 1, e) \cap in = {}
  BY <1>2 DEF Unfreed, Between
<1>4. Kept(h, r, j, i)
  BY JoinBlocks
<1>5. \A k \in 1 .. Len(r) : k # j /\ ~r[k].using =>
        Inside(r[k].addr + 1, After(r[k])) \cap in = {}
  BY <1>4 DEF Unfreed, Kept
<1> QED BY <1>1, <1>2, <1>3, <1>5 DEF Unfreed

LEMMA JoinBehind ==
  ASSUME NEW h, NEW w, Chain(h, w), NEW in, NEW a, NEW e,
         NEW j \in 1 .. Len(h), NEW k \in 1 .. Len(h), k = j + 1, ~h[k].using,
         After(h[j]) = e, Unfreed(h, in, j, a, e),
         NEW r, NEW m, Union(m, h[j], h[k]), Joins(h, r, j, m)
  PROVE  Unfreed(r, in, j, a, e)
<1>1. r[j].addr = h[j].addr /\ After(r[j]) = After(h[k])
  BY DEF Joins, Union
<1>2. h[k].addr = e /\ e <= After(h[k]) /\ j # k
  <2>1. h[k].addr \in Nat /\ After(h[k]) \in Nat /\ h[k].addr < After(h[k])
    BY ChainBlock
  <2>2. h[k].addr = e
    BY DEF Chain
  <2> QED BY <2>1, <2>2
<1>3. Inside(h[k].addr + 1, After(h[k])) \cap in = {}
  BY <1>2 DEF Unfreed
<1>4. Kept(h, r, j, k)
  BY JoinBlocks
<1>5. \A x \in 1 .. Len(r) : x # j /\ ~r[x].using =>
        Inside(r[x].addr + 1, After(r[x])) \cap in = {}
  BY <1>4 DEF Unfreed, Kept
<1> QED BY <1>1, <1>2, <1>3, <1>5 DEF Unfreed

(* heap_free up to the uncommit: the list stays a heap without b.           *)
LEMMA FreeJoins ==
  ASSUME NEW h, NEW w, Chain(h, w), Joined(h), NEW own, Owned(h, own), NEW in, There(h, own, in),
         NEW b \in own, NEW i \in 1 .. Len(h), h[i].addr + 1 = b.addr
  PROVE  LET j == IF i > 1 /\ ~h[i - 1].using THEN i - 1 ELSE i
             r == JoinNext(ClearUsing(h, i), j)
         IN  /\ Freed(r, w, own \ {b}, in, j, {})
             /\ Clean(h, in) => Unfreed(r, in, j, h[i].addr, After(h[i]))
<1> DEFINE j == IF i > 1 /\ ~h[i - 1].using THEN i - 1 ELSE i
           c == [h EXCEPT ![i].using = FALSE]
           d == ClearUsing(h, i)
           r == JoinNext(d, j)
           own1 == own \ {b}
<1>1. ~h[i].last
  <2>1. ~h[Len(h)].using
    BY DEF Joined
  <2> QED BY <2>1, FreedBlock
<1>2. Cleared(h, c, i)
  <2>1. h \in Seq(HeapBlock)
    BY DEF Chain
  <2> QED BY <2>1, ClearedElements
<1>3. \/ d = c /\ (i = 1 \/ h[i - 1].using)
      \/ \E x \in 1 .. Len(h), m \in HeapBlock :
           /\ i = x + 1 /\ ~h[x].using
           /\ Union(m, c[x], c[i]) /\ Joins(c, d, x, m)
  BY <1>1, ClearJoins
<1> HIDE DEF c
<1>4. /\ Freed(c, w, own1, in, i, {i - 1, i})
      /\ Clean(h, in) => Unfreed(c, in, i, h[i].addr, After(h[i]))
  BY <1>2, ClearFreed
<1>5. /\ c[i].addr = h[i].addr /\ After(c[i]) = After(h[i]) /\ Len(c) = Len(h)
      /\ \A x \in 1 .. Len(h) : x # i => c[x] = h[x]
  BY <1>2 DEF Cleared
<1> HIDE DEF d, own1
<1>6. /\ Freed(d, w, own1, in, j, {j})
      /\ Clean(h, in) => Unfreed(d, in, j, h[i].addr, After(h[i])) /\ After(d[j]) = After(h[i])
  <2>1. CASE d = c /\ (i = 1 \/ h[i - 1].using)
    <3>1. j = i
      BY <2>1
    <3>2. Pairs(c, {i})
      <4> SUFFICES ASSUME NEW x \in 1 .. Len(c), NEW y \in 1 .. Len(c), y = x + 1,
                          ~c[x].using, ~c[y].using, x # i
                   PROVE  FALSE
        BY DEF Pairs
      <4>1. x = i - 1
        BY <1>4 DEF Freed, Pairs
      <4>2. x # i /\ x \in 1 .. Len(h) /\ i # 1
        BY <1>5, <4>1
      <4>3. c[x] = h[x]
        BY <1>5, <4>2
      <4> QED BY <2>1, <4>1, <4>2, <4>3
    <3>3. Freed(c, w, own1, in, i, {i})
      BY <1>4, <3>2 DEF Freed
    <3> QED BY <1>4, <1>5, <2>1, <3>1, <3>3
  <2>2. CASE \E x \in 1 .. Len(h), m \in HeapBlock :
               /\ i = x + 1 /\ ~h[x].using
               /\ Union(m, c[x], c[i]) /\ Joins(c, d, x, m)
    <3>1. PICK x \in 1 .. Len(h), m \in HeapBlock :
            /\ i = x + 1 /\ ~h[x].using
            /\ Union(m, c[x], c[i]) /\ Joins(c, d, x, m)
      BY <2>2
    <3>2. i > 1 /\ i - 1 = x /\ x # i
      BY <3>1
    <3>3. j = x
      BY <3>1, <3>2
    <3>4. /\ x \in 1 .. Len(c) /\ i \in 1 .. Len(c) /\ ~c[x].using /\ ~c[i].using
          /\ Chain(c, w)
      BY <1>4, <1>5, <3>1, <3>2 DEF Freed
    <3> HIDE DEF j
    <3> DEFINE E == {i - 1, i}
    <3>5. E \subseteq {x, i} /\ Freed(c, w, own1, in, i, E)
      BY <1>4, <3>2
    <3> HIDE DEF E
    <3>6. Freed(d, w, own1, in, x, {x})
      BY <3>1, <3>4, <3>5, JoinFreed
    <3>7. ASSUME Clean(h, in)
          PROVE  Unfreed(d, in, x, h[i].addr, After(h[i])) /\ After(d[x]) = After(h[i])
      <4>1. PICK a \in Nat, e \in Nat : a = h[i].addr /\ e = After(h[i])
        BY ChainBlock
      <4>2. Between(c[i], a, e) /\ Unfreed(c, in, i, a, e)
        BY <1>4, <1>5, <3>7, <4>1 DEF Between
      <4>3. Unfreed(d, in, x, a, e) /\ After(d[x]) = e
        BY <3>1, <3>4, <4>2, JoinBefore
      <4> QED BY <4>1, <4>3
    <3> QED BY <3>3, <3>6, <3>7
  <2> QED BY <1>3, <2>1, <2>2
<1> HIDE DEF j
<1>7. Chain(d, w) /\ j \in 1 .. Len(d) /\ ~d[j].using
  BY <1>6 DEF Freed
<1>8. \/ r = d /\ \A k \in 1 .. Len(d) : k = j + 1 => d[k].using
      \/ \E k \in 1 .. Len(d), m \in HeapBlock :
           /\ k = j + 1 /\ ~d[k].using
           /\ Union(m, d[j], d[k]) /\ Joins(d, r, j, m)
  BY <1>7, NextJoins
<1> HIDE DEF r
<1>9. /\ Freed(r, w, own1, in, j, {})
      /\ Clean(h, in) => Unfreed(r, in, j, h[i].addr, After(h[i]))
  <2>1. CASE r = d /\ \A k \in 1 .. Len(d) : k = j + 1 => d[k].using
    <3>1. Pairs(d, {})
      BY <1>6, <2>1 DEF Freed, Pairs
    <3> QED BY <1>6, <2>1, <3>1 DEF Freed
  <2>2. CASE \E k \in 1 .. Len(d), m \in HeapBlock :
               /\ k = j + 1 /\ ~d[k].using
               /\ Union(m, d[j], d[k]) /\ Joins(d, r, j, m)
    <3>1. PICK k \in 1 .. Len(d), m \in HeapBlock :
            /\ k = j + 1 /\ ~d[k].using
            /\ Union(m, d[j], d[k]) /\ Joins(d, r, j, m)
      BY <2>2
    <3> DEFINE E == {j}
    <3>2. E \subseteq {j, k} /\ k \notin E /\ Freed(d, w, own1, in, j, E)
      BY <1>6, <1>7, <3>1
    <3> HIDE DEF E
    <3>3. Freed(r, w, own1, in, j, {})
      BY <1>7, <3>1, <3>2, JoinFreed
    <3>4. ASSUME Clean(h, in)
          PROVE  Unfreed(r, in, j, h[i].addr, After(h[i]))
      <4>1. PICK a \in Nat, e \in Nat : a = h[i].addr /\ e = After(h[i])
        BY ChainBlock
      <4>2. Unfreed(d, in, j, a, e) /\ After(d[j]) = e
        BY <1>6, <3>4, <4>1
      <4>3. Unfreed(r, in, j, a, e)
        BY <1>7, <3>1, <4>2, JoinBehind
      <4> QED BY <4>1, <4>3
    <3> QED BY <3>3, <3>4
  <2> QED BY <1>8, <2>1, <2>2
<1> QED BY <1>9 DEF j, r, d, own1

(* b is the block a .. e - 1, and joined the block f .. g - 1.               *)
LEMMA UncommittedPages ==
  ASSUME NEW a \in Nat, NEW e \in Nat, NEW f \in Nat, NEW g \in Nat,
         NEW b, NEW joined, Between(b, a, e), Between(joined, f, g)
  PROVE  \A p \in Nat :
           p \in Uncommitted(b, joined) <=>
             /\ f + 1 <= PageStart(p) /\ PageStart(p + 1) <= g
             /\ a + 1 <= PageStart(p + 1) /\ PageStart(p) <= e
<1> DEFINE addr0 == (a + 1 + PageWords - 1) \div PageWords
           addr1 == e \div PageWords
           addr2 == (f + 1 + PageWords - 1) \div PageWords
           addr3 == g \div PageWords
           from == IF addr2 < addr0 - 1 THEN addr0 - 1 ELSE addr2
           to   == IF addr3 > addr1 + 1 THEN addr1 + 1 ELSE addr3
<1>1. Uncommitted(b, joined) = from .. to - 1
  BY DEF Uncommitted, Between
<1>2. a + 1 \in Nat /\ f + 1 \in Nat
  OBVIOUS
<1>3. /\ addr0 \in Nat /\ \A p \in Nat : addr0 <= p <=> a + 1 <= PageStart(p)
      /\ addr2 \in Nat /\ \A p \in Nat : addr2 <= p <=> f + 1 <= PageStart(p)
  BY <1>2, RoundedUp
<1>4. /\ addr1 \in Nat /\ \A p \in Nat : p <= addr1 <=> PageStart(p) <= e
      /\ addr3 \in Nat /\ \A p \in Nat : p <= addr3 <=> PageStart(p) <= g
  BY RoundedDown
<1> HIDE DEF addr0, addr1, addr2, addr3
<1> TAKE p \in Nat
<1>5. p + 1 \in Nat
  OBVIOUS
<1>6. /\ f + 1 <= PageStart(p) <=> addr2 <= p
      /\ PageStart(p + 1) <= g <=> p + 1 <= addr3
      /\ a + 1 <= PageStart(p + 1) <=> addr0 <= p + 1
      /\ PageStart(p) <= e <=> p <= addr1
  BY <1>3, <1>4, <1>5
<1>7. p \in from .. to - 1 <=> addr2 <= p /\ p + 1 <= addr3 /\ addr0 <= p + 1 /\ p <= addr1
  BY <1>3, <1>4
<1> QED BY <1>1, <1>6, <1>7, Zenon

(* What is given back is inside the joined block, and is all of it that was *)
(* still there.                                                             *)
LEMMA GivenBackKeeps ==
  ASSUME NEW r, NEW w, NEW own, NEW in, NEW j, Freed(r, w, own, in, j, {}),
         NEW a \in Nat, NEW e \in Nat, Unfreed(r, in, j, a, e), NEW b, Between(b, a, e)
  PROVE  LET rest == in \ Uncommitted(b, r[j])
         IN  There(r, own, rest) /\ Clean(r, rest)
<1>1. /\ Chain(r, w) /\ Owned(r, own) /\ There(r, own, in)
      /\ j \in 1 .. Len(r) /\ ~r[j].using
  BY DEF Freed
<1>2. /\ r[j].addr <= a /\ e <= After(r[j])
      /\ Inside(r[j].addr + 1, a) \cap in = {}
      /\ Inside(e + 1, After(r[j])) \cap in = {}
      /\ \A k \in 1 .. Len(r) : k # j /\ ~r[k].using =>
           Inside(r[k].addr + 1, After(r[k])) \cap in = {}
  BY DEF Unfreed
<1>3. PICK f \in Nat, g \in Nat : f = r[j].addr /\ g = After(r[j])
  BY <1>1, ChainBlock
<1> DEFINE U == Uncommitted(b, r[j])
<1>4. \A p \in Nat :
        p \in U <=> /\ f + 1 <= PageStart(p) /\ PageStart(p + 1) <= g
                    /\ a + 1 <= PageStart(p + 1) /\ PageStart(p) <= e
  <2>1. Between(r[j], f, g)
    BY <1>3 DEF Between
  <2> DEFINE joined == r[j]
  <2> HIDE DEF joined
  <2>2. Between(joined, f, g)
    BY <2>1 DEF joined
  <2>3. \A p \in Nat :
          p \in Uncommitted(b, joined) <=>
            /\ f + 1 <= PageStart(p) /\ PageStart(p + 1) <= g
            /\ a + 1 <= PageStart(p + 1) /\ PageStart(p) <= e
    BY <2>2, UncommittedPages
  <2> QED BY <2>3 DEF joined
<1> HIDE DEF U
<1>5. in \subseteq Nat /\ f + 1 \in Nat /\ e + 1 \in Nat
  BY <1>1 DEF There
<1>6. ASSUME NEW p \in Nat, p \in U PROVE p \in Inside(f + 1, g)
  <2>1. f + 1 <= PageStart(p) /\ PageStart(p + 1) <= g
    BY <1>4, <1>6
  <2> QED BY <1>5, <2>1, InsidePages
<1>7. ASSUME NEW c \in Nat, NEW d \in Nat, d <= f + 1 \/ g <= c
      PROVE  Touched(c, d) \cap U = {}
  <2>1. Touched(c, d) \subseteq Nat /\ Touched(c, d) \cap Inside(f + 1, g) = {}
    BY <1>5, <1>7, TouchedPages, ApartPages
  <2> QED BY <1>6, <2>1
<1>8. ASSUME NEW k \in 1 .. Len(r) PROVE r[k].addr \div PageWords \in in \ U
  <2>1. r[k].addr \div PageWords \in in
    BY <1>1 DEF There
  <2>2. PICK c \in Nat, d \in Nat : c = r[k].addr /\ d = After(r[k])
    BY <1>1, ChainBlock
  <2>3. c + 1 <= f + 1 \/ g <= c
    <3>1. CASE k = j
      BY <1>3, <2>2, <3>1
    <3>2. CASE k # j
      <4>1. d <= f \/ g <= c
        BY <1>1, <1>3, <2>2, <3>2, BlocksApart
      <4>2. c < d
        BY <1>1, <2>2, ChainBlock
      <4> QED BY <4>1, <4>2
    <3> QED BY <3>1, <3>2
  <2>4. Touched(c, c + 1) \cap U = {}
    <3>1. c + 1 \in Nat
      OBVIOUS
    <3> QED BY <1>7, <2>3, <3>1
  <2>5. c \div PageWords \in Touched(c, c + 1)
    <3>1. c <= c /\ c < c + 1 /\ c + 1 \in Nat
      OBVIOUS
    <3> QED BY <3>1, PageTouched
  <2> QED BY <2>1, <2>2, <2>4, <2>5
<1>9. ASSUME NEW c \in own PROVE Touched(c.addr, c.addr + c.size) \subseteq in \ U
  <2>1. Touched(c.addr, c.addr + c.size) \subseteq in
    BY <1>1 DEF There
  <2>2. PICK k \in 1 .. Len(r) : r[k].using /\ r[k].addr + 1 = c.addr /\ r[k].size >= c.size
    BY <1>1 DEF Owned
  <2>3. k # j
    BY <1>1, <2>2
  <2>4. After(r[k]) <= f \/ g <= r[k].addr
    BY <1>1, <1>3, <2>3, BlocksApart
  <2>5. /\ After(r[k]) = r[k].addr + 1 + r[k].size /\ r[k].addr \in Nat /\ r[k].size \in Nat
        /\ c.addr \in Nat /\ c.size \in Nat
    BY <1>1, ChainBlock DEF Owned
  <2>6. PICK ra \in Nat, rz \in Nat, cz \in Nat : ra = r[k].addr /\ rz = r[k].size /\ cz = c.size
    BY <2>5
  <2>7. c.addr = ra + 1 /\ cz <= rz /\ (ra + 1 + rz <= f \/ g <= ra)
    BY <2>2, <2>4, <2>5, <2>6
  <2>8. ra + 1 \in Nat /\ (ra + 1) + cz \in Nat /\ ((ra + 1) + cz <= f + 1 \/ g <= ra + 1)
    BY <2>7
  <2>9. Touched(ra + 1, (ra + 1) + cz) \cap U = {}
    BY <1>7, <2>8
  <2>10. c.addr + c.size = (ra + 1) + cz
    BY <2>6, <2>7
  <2> QED BY <2>1, <2>7, <2>9, <2>10
<1>10. ASSUME NEW k \in 1 .. Len(r), ~r[k].using
       PROVE  Inside(r[k].addr + 1, After(r[k])) \cap (in \ U) = {}
  <2>1. CASE k # j
    BY <1>2, <1>10, <2>1
  <2>2. CASE k = j
    <3> SUFFICES ASSUME NEW p \in Nat, p \in Inside(f + 1, g), p \in in, p \notin U
                 PROVE  FALSE
      BY <1>3, <1>5, <2>2
    <3>1. f + 1 <= PageStart(p) /\ PageStart(p + 1) <= g
      BY <1>5, InsidePages
    <3>2. ~(a + 1 <= PageStart(p + 1)) \/ ~(PageStart(p) <= e)
      BY <1>4, <3>1
    <3>3. PageStart(p) \in Nat /\ PageStart(p + 1) \in Nat
      BY PagesAscend
    <3>4. CASE ~(a + 1 <= PageStart(p + 1))
      <4>1. PageStart(p + 1) <= a
        BY <3>3, <3>4
      <4>2. p \in Inside(f + 1, a)
        BY <1>5, <3>1, <4>1, InsidePages
      <4> QED BY <1>2, <1>3, <4>2
    <3>5. CASE ~(PageStart(p) <= e)
      <4>1. e + 1 <= PageStart(p)
        BY <3>3, <3>5
      <4>2. p \in Inside(e + 1, g)
        BY <1>5, <3>1, <4>1, InsidePages
      <4> QED BY <1>2, <1>3, <4>2
    <3> QED BY <3>2, <3>4, <3>5
  <2> QED BY <2>1, <2>2
<1>11. in \ U \subseteq Nat
  BY <1>5
<1>12. There(r, own, in \ U) /\ Clean(r, in \ U)
  BY <1>8, <1>9, <1>10, <1>11 DEF There, Clean
<1> QED BY <1>12 DEF U

-----------------------------------------------------------------------------
(* A heap of some pages.                                                    *)
Heaped(h, length, own) ==
  /\ length \in Nat \ {0}
  /\ Chain(h, length * PageWords) /\ Joined(h) /\ Owned(h, own)

(* expand_heap: the last block is free and gets k pages more.               *)
Grew(h, g, i, k) == Len(g) = Len(h) /\ g[i].size = h[i].size + k * PageWords

LEMMA ExpandKeeps ==
  ASSUME NEW h, NEW length, NEW own, Heaped(h, length, own),
         NEW i \in 1 .. Len(h), i = Len(h), NEW k \in Nat,
         NEW g, g = Expand(h, i, k), NEW more, more = length + k
  PROVE  Heaped(g, more, own) /\ Grew(h, g, i, k)
<1> DEFINE q == k * PageWords
           m == [h[i] EXCEPT !.size = h[i].size + q]
           r == [h EXCEPT ![i] = m]
<1>0. /\ length \in Nat \ {0} /\ Chain(h, length * PageWords) /\ Joined(h) /\ Owned(h, own)
      /\ more \in Nat \ {0}
  BY DEF Heaped
<1>1. /\ h \in Seq(HeapBlock) /\ Len(h) \in Nat /\ Len(h) >= 1 /\ h[1].addr = 0
      /\ \A x, y \in 1 .. Len(h) : y = x + 1 => After(h[x]) = h[y].addr
      /\ After(h[Len(h)]) = length * PageWords
      /\ \A x \in 1 .. Len(h) : h[x].last <=> x = Len(h)
  BY <1>0 DEF Chain
<1>2. PageWords \in Nat
  BY HeapAssumption
<1>3. q \in Nat /\ more * PageWords = length * PageWords + q
  BY <1>0, <1>2
<1>4. Expand(h, i, k) = r
  BY <1>1 DEF Expand
<1> HIDE DEF q
<1>5. /\ h[i] \in HeapBlock /\ h[i].addr \in Nat /\ h[i].size \in Nat
      /\ After(h[i]) = h[i].addr + 1 + h[i].size
  BY <1>0, ChainBlock
<1>6. h[i].size + q \in Nat
  BY <1>3, <1>5
<1>7. /\ m \in HeapBlock /\ m.addr = h[i].addr /\ m.size = h[i].size + q
      /\ m.using = h[i].using /\ m.last = h[i].last
  BY <1>5, <1>6 DEF HeapBlock
<1>8. After(m) = After(h[i]) + q
  <2>1. After(m) = h[i].addr + 1 + (h[i].size + q)
    BY <1>7 DEF After
  <2>2. PICK a \in Nat, z \in Nat : a = h[i].addr /\ z = h[i].size
    BY <1>5
  <2>3. a + 1 + (z + q) = (a + 1 + z) + q
    BY <1>3
  <2> QED BY <1>5, <2>1, <2>2, <2>3
<1> HIDE DEF m
<1>9. /\ r \in Seq(HeapBlock) /\ Len(r) = Len(h) /\ r[i] = m
      /\ \A x \in 1 .. Len(h) : x # i => r[x] = h[x]
  BY <1>1, <1>7
<1> HIDE DEF r
<1>10. \A x \in 1 .. Len(h) :
         /\ r[x].addr = h[x].addr /\ (r[x].using <=> h[x].using) /\ (r[x].last <=> h[x].last)
         /\ x # Len(h) => After(r[x]) = After(h[x])
  BY <1>7, <1>9
<1>11. Chain(r, more * PageWords)
  <2>1. 1 \in 1 .. Len(h)
    BY <1>1
  <2>2. \A x, y \in 1 .. Len(h) : y = x + 1 => x # Len(h)
    BY <1>1
  <2>3. After(r[Len(r)]) = more * PageWords
    BY <1>1, <1>3, <1>8, <1>9
  <2> QED BY <1>1, <1>9, <1>10, <2>1, <2>2, <2>3 DEF Chain
<1>12. Joined(r)
  <2>1. ASSUME NEW x \in 1 .. Len(h), ~h[x].using, x # 1 PROVE r[x - 1].using
    <3>1. x - 1 \in 1 .. Len(h)
      BY <1>1, <2>1
    <3> QED BY <1>0, <1>10, <2>1, <3>1 DEF Joined
  <2> QED BY <1>0, <1>9, <1>10, <2>1 DEF Joined
<1>13. Owned(r, own)
  <2>1. ~h[i].using
    BY <1>0 DEF Joined
  <2>2. \A x \in 1 .. Len(h) : h[x].using => r[x] = h[x]
    BY <1>9, <2>1
  <2>3. \A c \in own : \E x \in 1 .. Len(r) :
          r[x].using /\ r[x].addr + 1 = c.addr /\ r[x].size >= c.size
    BY <1>0, <1>9, <2>2 DEF Owned
  <2>4. \A x \in 1 .. Len(r) : r[x].using => \E c \in own : c.addr = r[x].addr + 1
    BY <1>0, <1>9, <1>10 DEF Owned
  <2> QED BY <1>0, <2>3, <2>4 DEF Owned
<1> QED BY <1>0, <1>4, <1>7, <1>9, <1>11, <1>12, <1>13 DEF q, Heaped, Grew

-----------------------------------------------------------------------------
(* The heap, and how its pages and those of a process are kept.             *)
HeapInv ==
  /\ userMode \in BOOLEAN /\ pages \in Nat
  /\ heapStatus \in {"running", "panic", "expanded"}
  /\ IF pages = 0 THEN ~userMode /\ heap = <<>> /\ live = {} /\ resident = {}
     ELSE /\ Heaped(heap, pages, live) /\ There(heap, live, resident)
          /\ userMode => Clean(heap, resident)

LEMMA NewHeaped ==
  ASSUME NEW n \in Nat \ {0}
  PROVE  /\ Heaped(NewHeap(n), n, {})
         /\ There(NewHeap(n), {}, {0}) /\ Clean(NewHeap(n), {0})
<1> DEFINE h == NewHeap(n)
           w == n * PageWords
           z == w - 1
<1>1. w \in Nat /\ z \in Nat /\ 0 + 1 + z = w
  <2>1. PageWords \in Nat \ {0}
    BY HeapAssumption
  <2>2. 0 < n /\ PageStart(n) \in Nat /\ PageStart(0 + 1) <= PageStart(n)
    BY PagesAscend
  <2>3. PageStart(0 + 1) = PageStart(0) + PageWords /\ PageStart(0) = 0
    BY <2>1, PagesAscend DEF PageStart
  <2>4. w = PageStart(n)
    BY DEF PageStart
  <2> HIDE DEF w
  <2> QED BY <2>1, <2>2, <2>3, <2>4
<1>2. h = <<Header(0, z, FALSE, TRUE)>>
  BY DEF NewHeap
<1> HIDE DEF h
<1> DEFINE b == Header(0, z, FALSE, TRUE)
<1>3. b \in HeapBlock /\ b.addr = 0 /\ b.size = z /\ ~b.using /\ b.last
  BY <1>1 DEF Header, HeapBlock
<1>4. After(b) = w
  BY <1>1, <1>3 DEF After
<1> HIDE DEF b
<1>5. h = <<b>>
  BY <1>2 DEF b
<1>6. h \in Seq(HeapBlock) /\ Len(h) = 1 /\ h[1] = b
  BY <1>3, <1>5
<1>7. \A i \in 1 .. Len(h) : i = 1
  BY <1>6
<1>8. Chain(h, w)
  BY <1>3, <1>4, <1>6, <1>7 DEF Chain
<1>9. Joined(h) /\ Owned(h, {})
  BY <1>3, <1>6, <1>7 DEF Joined, Owned
<1>10. There(h, {}, {0})
  <2>1. 0 \div PageWords = 0
    <3>1. PageWords \in Nat \ {0}
      BY HeapAssumption
    <3> QED BY <3>1, SMT
  <2> QED BY <1>3, <1>6, <1>7, <2>1 DEF There
<1>11. Clean(h, {0})
  <2>1. 0 \notin Inside(0 + 1, w)
    <3>1. PageStart(0) = 0
      BY HeapAssumption DEF PageStart
    <3> QED BY <1>1, <3>1, InsidePages
  <2> QED BY <1>3, <1>4, <1>6, <1>7, <2>1 DEF Clean
<1> QED BY <1>8, <1>9, <1>10, <1>11 DEF h, Heaped

(* The list that a request is served from.                                  *)
LEMMA FirstHeap ==
  ASSUME HeapInv, NEW h, NEW length,
         h = IF pages = 0 THEN NewHeap(1) ELSE heap,
         length = IF pages = 0 THEN 1 ELSE pages
  PROVE  /\ Heaped(h, length, live)
         /\ userMode => There(h, live, resident) /\ Clean(h, resident)
<1>1. CASE pages = 0
  <2>1. Heaped(NewHeap(1), 1, {})
    BY NewHeaped
  <2> QED BY <1>1, <2>1 DEF HeapInv
<1>2. CASE pages # 0
  BY <1>2 DEF HeapInv
<1> QED BY <1>1, <1>2

LEMMA UseKeeps ==
  ASSUME NEW h, NEW w, Chain(h, w), Joined(h), NEW i \in 1 .. Len(h), ~h[i].using, NEW n \in Nat,
         h[i].size >= n, i = Len(h) => h[i].size > n
  PROVE  Chain(Use(h, i, n), w) /\ Joined(Use(h, i, n)) /\ Served(h, Use(h, i, n), i, n)
<1>1. h[i].size \in Nat
  BY ChainBlock
<1>2. CASE h[i].size > n
  BY <1>2, SplitServes
<1>3. CASE h[i].size = n /\ i # Len(h)
  BY <1>3, WholeServes
<1>4. h[i].size > n \/ h[i].size = n
  <2>1. PICK z \in Nat : z = h[i].size
    BY <1>1
  <2>2. z >= n
    BY <2>1
  <2>3. z > n \/ z = n
    BY <2>2
  <2> QED BY <2>1, <2>3
<1> QED BY <1>2, <1>3, <1>4

(* Serve, of a block that is large enough.                                  *)
LEMMA ServeKeeps ==
  ASSUME HeapInv, NEW h, NEW length, Heaped(h, length, live),
         userMode => There(h, live, resident) /\ Clean(h, resident),
         NEW i \in 1 .. Len(h), ~h[i].using, NEW n \in Nat,
         h[i].size >= n, i = Len(h) => h[i].size > n, Serve(h, length, i, n)
  PROVE  HeapInv'
<1> DEFINE w == length * PageWords
           r == Use(h, i, n)
           b == [addr |-> h[i].addr + 1, size |-> n]
           own == live \cup {b}
<1>1. length \in Nat \ {0} /\ Chain(h, w) /\ Joined(h) /\ Owned(h, live)
  BY DEF Heaped
<1> HIDE DEF w
<1>2. Chain(r, w) /\ Joined(r) /\ Served(h, r, i, n)
  BY <1>1, UseKeeps
<1>3. /\ heap' = r /\ pages' = length /\ live' = own
      /\ userMode' = userMode /\ heapStatus' = heapStatus
      /\ resident' = IF userMode
                     THEN resident \cup Touched(h[i].addr, h[i].addr + 1 + n +
                                         (IF h[i].size > n THEN 1 ELSE 0))
                     ELSE 0 .. length - 1
  BY DEF Serve
<1> HIDE DEF r
<1>4. Owned(r, live \cup {b})
  <2> DEFINE c == b
  <2>1. c = [addr |-> h[i].addr + 1, size |-> n]
    OBVIOUS
  <2> HIDE DEF c
  <2>2. Owned(r, live \cup {c})
    BY <1>1, <1>2, <2>1, ServedOwned
  <2> QED BY <2>2 DEF c
<1>5. There(r, own, resident') /\ (userMode => Clean(r, resident'))
  <2>1. CASE ~userMode
    <3> HIDE DEF own
    <3>1. There(r, own, 0 .. length - 1)
      <4>1. Chain(r, length * PageWords) /\ Owned(r, own) /\ length \in Nat
        BY <1>1, <1>2, <1>4 DEF w, own
      <4> QED BY <4>1, AllThere
    <3> QED BY <1>3, <2>1, <3>1
  <2>2. CASE userMode
    <3>1. PICK a \in Nat, z \in Nat : a = h[i].addr /\ z = h[i].size
      BY <1>1, ChainBlock
    <3>2. FreeBlock(h, i, a, z) /\ n <= z
      BY <3>1 DEF FreeBlock
    <3>3. Payload(b, a, n)
      BY <3>1 DEF Payload
    <3>4. resident' = resident \cup Touched(a, Written(a, z, n))
      BY <1>3, <2>2, <3>1 DEF Written
    <3> HIDE DEF b
    <3>5. LET more == resident \cup Touched(a, Written(a, z, n))
          IN  There(r, live \cup {b}, more) /\ Clean(r, more)
      BY <1>1, <1>2, <2>2, <3>2, <3>3, ServedThere
    <3> QED BY <3>4, <3>5
  <2> QED BY <2>1, <2>2
<1>6. Heaped(r, length, own)
  BY <1>1, <1>2, <1>4 DEF Heaped, w
<1> HIDE DEF own
<1>7. length # 0 /\ length \in Nat
  BY <1>1
<1> QED BY <1>3, <1>5, <1>6, <1>7 DEF HeapInv

LEMMA StopKeeps ==
  ASSUME HeapInv, NEW why \in {"panic", "expanded"}, Stop(why)
  PROVE  HeapInv'
<1>1. /\ heap' = heap /\ pages' = pages /\ live' = live /\ resident' = resident
      /\ userMode' = userMode /\ heapStatus' \in {"panic", "expanded"}
  BY DEF Stop
<1> QED BY <1>1 DEF HeapInv

(* A page more of the last block makes it larger than the request.          *)
LEMMA SpareServes ==
  ASSUME HeapInv, NEW h, NEW length, Heaped(h, length, live), ~userMode,
         NEW i \in 1 .. Len(h), i = Len(h), NEW n \in Nat, h[i].size >= n,
         NEW extra, extra = Spare(h[i], n), Serve(Expand(h, i, extra), length + extra, i, n)
  PROVE  HeapInv'
<1>1. length \in Nat \ {0} /\ Chain(h, length * PageWords) /\ Joined(h)
  BY DEF Heaped
<1>2. ~h[i].using /\ h[i].last
  BY <1>1 DEF Joined, Chain
<1>3. PICK z \in Nat : z = h[i].size
  BY <1>1, ChainBlock
<1>4. z >= n /\ extra = IF z = n THEN 1 ELSE 0
  BY <1>2, <1>3 DEF Spare
<1>5. PageWords \in Nat /\ PageWords >= 2
  BY HeapAssumption
<1>6. extra \in Nat /\ z + extra * PageWords > n
  <2>1. CASE z = n
    <3>1. extra = 1
      BY <1>4, <2>1
    <3>2. 1 * PageWords = PageWords
      BY <1>5
    <3> QED BY <1>5, <2>1, <3>1, <3>2
  <2>2. CASE z # n
    <3>1. extra = 0
      BY <1>4, <2>2
    <3>2. 0 * PageWords = 0 /\ z > n
      BY <1>4, <1>5, <2>2
    <3> QED BY <3>1, <3>2
  <2> QED BY <2>1, <2>2
<1>7. PICK g, more : g = Expand(h, i, extra) /\ more = length + extra
  OBVIOUS
<1>8. Heaped(g, more, live) /\ Grew(h, g, i, extra)
  BY <1>6, <1>7, ExpandKeeps
<1>9. Serve(g, more, i, n)
  BY <1>7
<1>10. Len(g) = Len(h) /\ g[i].size > n
  BY <1>3, <1>6, <1>8 DEF Grew
<1>11. i \in 1 .. Len(g) /\ ~g[i].using
  BY <1>8, <1>10 DEF Heaped, Joined
<1>12. g[i].size >= n
  <2>1. PICK y \in Nat : y = g[i].size
    BY <1>8, <1>11, ChainBlock DEF Heaped
  <2>2. y > n
    BY <1>10, <2>1
  <2>3. y >= n
    BY <2>2
  <2> QED BY <2>1, <2>3
<1> QED BY <1>8, <1>9, <1>10, <1>11, <1>12, ServeKeeps

LEMMA AllocKeeps ==
  ASSUME HeapInv, NEW n \in Requests, Alloc(n)
  PROVE  HeapInv'
<1>1. PICK h, length : /\ h = IF pages = 0 THEN NewHeap(1) ELSE heap
                       /\ length = IF pages = 0 THEN 1 ELSE pages
  OBVIOUS
<1>2. /\ Heaped(h, length, live)
      /\ userMode => There(h, live, resident) /\ Clean(h, resident)
  BY <1>1, FirstHeap
<1>3. n \in Nat
  BY HeapAssumption
<1>4. PICK i : i = Min(FreeAndSufficient(h, n))
  OBVIOUS
<1>5. PICK extra : extra = Spare(h[i], n)
  OBVIOUS
<1>6. /\ FreeAndSufficient(h, n) # {}
      /\ IF extra = 0 THEN Serve(h, length, i, n)
         ELSE IF userMode THEN Stop("expanded")
         ELSE IF length + extra > MaxPages THEN Stop("panic")
         ELSE Serve(Expand(h, i, extra), length + extra, i, n)
  BY <1>1, <1>4, <1>5 DEF Alloc
<1>7. Chain(h, length * PageWords) /\ Len(h) \in Nat
  BY <1>2 DEF Heaped, Chain
<1>8. i \in 1 .. Len(h) /\ ~h[i].using /\ h[i].size >= n
  <2>1. FreeAndSufficient(h, n) \in SUBSET (1 .. Len(h))
    BY DEF FreeAndSufficient
  <2>2. i \in FreeAndSufficient(h, n)
    BY <1>4, <1>6, <1>7, <2>1, FirstPosition
  <2> QED BY <2>2 DEF FreeAndSufficient
<1>9. PICK z \in Nat : z = h[i].size
  BY <1>7, <1>8, ChainBlock
<1>10. h[i].last <=> i = Len(h)
  BY <1>7, <1>8 DEF Chain
<1>11. CASE extra = 0
  <2>1. Serve(h, length, i, n)
    BY <1>6, <1>11
  <2>2. i = Len(h) => h[i].size > n
    <3>1. ASSUME i = Len(h) PROVE z # n
      BY <1>5, <1>9, <1>10, <1>11, <3>1 DEF Spare
    <3>2. z >= n
      BY <1>8, <1>9
    <3>3. z # n => z > n
      BY <1>3, <3>2
    <3> QED BY <1>9, <3>1, <3>3
  <2> QED BY <1>2, <1>3, <1>8, <2>1, <2>2, ServeKeeps
<1>12. CASE extra # 0 /\ userMode
  BY <1>6, <1>12, StopKeeps
<1>13. CASE extra # 0 /\ ~userMode /\ length + extra > MaxPages
  BY <1>6, <1>13, StopKeeps
<1>14. CASE extra # 0 /\ ~userMode /\ ~(length + extra > MaxPages)
  <2>1. Serve(Expand(h, i, extra), length + extra, i, n)
    BY <1>6, <1>14
  <2>2. i = Len(h)
    BY <1>5, <1>10, <1>14 DEF Spare
  <2> QED BY <1>2, <1>3, <1>5, <1>8, <1>14, <2>1, <2>2, SpareServes
<1> QED BY <1>11, <1>12, <1>13, <1>14

(* As many pages as are missing make the last block large enough.           *)
LEMMA PagesSuffice ==
  ASSUME NEW b \in HeapBlock, NEW n \in Nat, b.size < n
  PROVE  PagesMissing(b, n) \in Nat /\ b.size + PagesMissing(b, n) * PageWords >= n
<1>1. PICK z \in Nat : z = b.size
  BY HeaderFacts
<1>2. z < n
  BY <1>1
<1>3. PICK a \in Nat : a = n - z
  BY <1>2
<1> DEFINE q == (a + PageWords - 1) \div PageWords
<1>4. q \in Nat /\ \A p \in Nat : q <= p <=> a <= PageStart(p)
  BY RoundedUp
<1>5. PagesMissing(b, n) = q
  <2>1. ~(z >= n) /\ n - z + PageWords - 1 = a + PageWords - 1
    BY <1>2, <1>3
  <2> QED BY <1>1, <2>1 DEF PagesMissing
<1> HIDE DEF q
<1>6. a <= PageStart(q) /\ PageStart(q) \in Nat
  <2>1. q <= q
    BY <1>4
  <2> QED BY <1>4, <2>1, PagesAscend
<1>7. z + PageStart(q) >= n
  BY <1>2, <1>3, <1>6
<1> QED BY <1>1, <1>4, <1>5, <1>7 DEF PageStart

LEMMA AllocGrowsKeeps ==
  ASSUME HeapInv, NEW n \in Requests, AllocGrows(n)
  PROVE  HeapInv'
<1>1. PICK h, length : /\ h = IF pages = 0 THEN NewHeap(1) ELSE heap
                       /\ length = IF pages = 0 THEN 1 ELSE pages
  OBVIOUS
<1>2. Heaped(h, length, live)
  BY <1>1, FirstHeap
<1>3. n \in Nat
  BY HeapAssumption
<1>4. PICK i : i = Len(h)
  OBVIOUS
<1>5. PICK more : more = PagesMissing(h[i], n)
  OBVIOUS
<1>6. PICK g : g = Expand(h, i, more)
  OBVIOUS
<1>7. PICK extra : extra = Spare(g[i], n)
  OBVIOUS
<1>8. /\ ~userMode /\ FreeAndSufficient(h, n) = {}
      /\ IF length + more + extra > MaxPages THEN Stop("panic")
         ELSE IF h[i].using THEN Stop("endless")
         ELSE Serve(Expand(g, i, extra), length + more + extra, i, n)
  BY <1>1, <1>4, <1>5, <1>6, <1>7 DEF AllocGrows
<1>9. /\ length \in Nat \ {0} /\ Chain(h, length * PageWords) /\ Joined(h) /\ Owned(h, live)
      /\ Len(h) \in Nat /\ Len(h) >= 1
  BY <1>2 DEF Heaped, Chain
<1>10. i \in 1 .. Len(h) /\ ~h[i].using
  BY <1>4, <1>9 DEF Joined
<1>11. PICK b \in HeapBlock : b = h[i]
  BY <1>9, <1>10, ChainBlock
<1>12. b.size < n
  <2>1. ~(h[i].size >= n)
    BY <1>8, <1>10 DEF FreeAndSufficient
  <2>2. PICK z \in Nat : z = b.size
    BY HeaderFacts
  <2>3. ~(z >= n)
    BY <1>11, <2>1, <2>2
  <2>4. z < n
    BY <1>3, <2>3
  <2> QED BY <2>2, <2>4
<1>13. more \in Nat /\ b.size + more * PageWords >= n
  BY <1>3, <1>5, <1>11, <1>12, PagesSuffice
<1>14. PICK grown : grown = length + more
  OBVIOUS
<1>15. Heaped(g, grown, live) /\ Grew(h, g, i, more)
  BY <1>2, <1>4, <1>6, <1>10, <1>13, <1>14, ExpandKeeps
<1>16. g[i].size >= n /\ i \in 1 .. Len(g) /\ i = Len(g)
  BY <1>4, <1>10, <1>11, <1>13, <1>15 DEF Grew
<1>17. CASE length + more + extra > MaxPages
  BY <1>8, <1>17, StopKeeps
<1>18. CASE ~(length + more + extra > MaxPages)
  <2>1. Serve(Expand(g, i, extra), grown + extra, i, n)
    BY <1>8, <1>10, <1>14, <1>18
  <2> QED BY <1>3, <1>7, <1>8, <1>15, <1>16, <2>1, SpareServes
<1> QED BY <1>17, <1>18

LEMMA FreeKeeps ==
  ASSUME HeapInv, NEW b \in live, Free(b)
  PROVE  HeapInv'
<1>1. PICK i \in 1 .. Len(heap) :
        /\ heap[i].addr + 1 = b.addr
        /\ LET j      == IF i > 1 /\ ~heap[i - 1].using THEN i - 1 ELSE i
               joined == JoinNext(ClearUsing(heap, i), j)
           IN  /\ heap' = joined
               /\ resident' = IF userMode THEN resident \ Uncommitted(heap[i], joined[j])
                              ELSE resident
  BY DEF Free
<1>2. live' = live \ {b} /\ UNCHANGED <<userMode, pages, heapStatus>>
  BY DEF Free
<1>3. /\ pages \in Nat \ {0} /\ Heaped(heap, pages, live) /\ There(heap, live, resident)
      /\ userMode => Clean(heap, resident)
  BY DEF HeapInv
<1> DEFINE w == pages * PageWords
<1>4. Chain(heap, w) /\ Joined(heap) /\ Owned(heap, live)
  BY <1>3 DEF Heaped
<1>5. PICK h, own, in : h = heap /\ own = live /\ in = resident
  OBVIOUS
<1>6. PICK j : j = IF i > 1 /\ ~h[i - 1].using THEN i - 1 ELSE i
  OBVIOUS
<1>7. PICK r : r = JoinNext(ClearUsing(h, i), j)
  OBVIOUS
<1> DEFINE own1 == own \ {b}
<1>8. heap' = r /\ resident' = (IF userMode THEN in \ Uncommitted(h[i], r[j]) ELSE in)
  BY <1>1, <1>5, <1>6, <1>7
<1>9. PICK x : x = w
  OBVIOUS
<1>10. Chain(h, x) /\ Joined(h) /\ Owned(h, own) /\ There(h, own, in) /\ b \in own
       /\ i \in 1 .. Len(h) /\ h[i].addr + 1 = b.addr
  BY <1>1, <1>3, <1>4, <1>5, <1>9
<1>11. /\ Freed(r, x, own1, in, j, {})
       /\ Clean(h, in) => Unfreed(r, in, j, h[i].addr, After(h[i]))
  BY <1>6, <1>7, <1>10, FreeJoins
<1>12. Chain(r, x) /\ Owned(r, own1) /\ There(r, own1, in) /\ ~r[Len(r)].using /\ Pairs(r, {})
  BY <1>11 DEF Freed
<1>13. Joined(r)
  BY <1>12, NoPairs
<1>14. There(r, own1, resident') /\ (userMode => Clean(r, resident'))
  <2>1. CASE ~userMode
    BY <1>8, <1>12, <2>1
  <2>2. CASE userMode
    <3>1. PICK a \in Nat, e \in Nat : a = h[i].addr /\ e = After(h[i])
      BY <1>10, ChainBlock
    <3>2. Unfreed(r, in, j, a, e)
      BY <1>3, <1>5, <1>11, <2>2, <3>1
    <3>3. PICK c : c = h[i]
      OBVIOUS
    <3>4. Between(c, a, e)
      BY <3>1, <3>3 DEF Between
    <3> HIDE DEF own1
    <3>5. LET rest == in \ Uncommitted(c, r[j])
          IN  There(r, own1, rest) /\ Clean(r, rest)
      BY <1>11, <3>2, <3>4, GivenBackKeeps
    <3> QED BY <1>8, <2>2, <3>3, <3>5
  <2> QED BY <2>1, <2>2
<1>15. Heaped(r, pages, own1)
  BY <1>3, <1>9, <1>12, <1>13 DEF Heaped
<1>16. live' = own1
  BY <1>2, <1>5
<1> HIDE DEF own1
<1> QED BY <1>2, <1>3, <1>8, <1>14, <1>15, <1>16 DEF HeapInv

LEMMA HeapStarts ==
  ASSUME HeapInit
  PROVE  HeapInv
<1>1. UserPages \in Nat \ {0}
  BY HeapAssumption
<1>2. CASE userMode
  <2>1. /\ Heaped(NewHeap(UserPages), UserPages, {})
        /\ There(NewHeap(UserPages), {}, {0}) /\ Clean(NewHeap(UserPages), {0})
    BY <1>1, NewHeaped
  <2> QED BY <1>1, <1>2, <2>1 DEF HeapInit, HeapInv
<1>3. CASE ~userMode
  BY <1>3 DEF HeapInit, HeapInv
<1> QED BY <1>2, <1>3

LEMMA HeapStepKeeps ==
  ASSUME HeapInv, [HeapNext]_heapVars
  PROVE  HeapInv'
<1>1. CASE UNCHANGED heapVars
  <2>1. /\ heap' = heap /\ pages' = pages /\ live' = live /\ resident' = resident
        /\ userMode' = userMode /\ heapStatus' = heapStatus
    BY <1>1 DEF heapVars
  <2> QED BY <2>1 DEF HeapInv
<1>2. ASSUME NEW n \in Requests, Alloc(n) PROVE HeapInv'
  BY <1>2, AllocKeeps
<1>3. ASSUME NEW n \in Requests, AllocGrows(n) PROVE HeapInv'
  BY <1>3, AllocGrowsKeeps
<1>4. ASSUME NEW n \in Requests, AllocFails(n) PROVE HeapInv'
  BY <1>1, <1>4 DEF AllocFails
<1>5. ASSUME NEW b \in live, Free(b) PROVE HeapInv'
  BY <1>5, FreeKeeps
<1> QED BY <1>1, <1>2, <1>3, <1>4, <1>5 DEF HeapNext

LEMMA HeapInvSound ==
  ASSUME HeapInv
  PROVE  HeapSound
<1>1. CASE pages = 0
  <2>1. heap = <<>> /\ live = {} /\ resident = {} /\ Len(heap) = 0
    BY <1>1 DEF HeapInv
  <2> QED BY <1>1, <2>1 DEF HeapInv, HeapSound, HeapTypeOK, HeapTiled, LiveAreUsed,
                            FreeSpaceJoined, ResidentAsNeeded
<1>2. CASE pages # 0
  <2>1. /\ Chain(heap, pages * PageWords) /\ Joined(heap) /\ Owned(heap, live)
        /\ There(heap, live, resident) /\ (userMode => Clean(heap, resident))
    BY <1>2 DEF HeapInv, Heaped
  <2>2. heap # <<>>
    BY <2>1 DEF Chain
  <2>3. HeapTypeOK
    BY <2>1 DEF HeapInv, HeapTypeOK, Chain, HeapBlock, Owned, There
  <2>4. HeapTiled
    <3>1. ASSUME NEW i \in 1 .. Len(heap)
          PROVE  After(heap[i]) =
                   IF i < Len(heap) THEN heap[i + 1].addr ELSE pages * PageWords
      <4>1. CASE i < Len(heap)
        <5>1. i + 1 \in 1 .. Len(heap)
          BY <2>1, <4>1 DEF Chain
        <5> QED BY <2>1, <4>1, <5>1 DEF Chain
      <4>2. CASE ~(i < Len(heap))
        <5>1. i = Len(heap)
          BY <2>1, <4>2 DEF Chain
        <5> QED BY <2>1, <4>2, <5>1 DEF Chain
      <4> QED BY <4>1, <4>2
    <3> QED BY <1>2, <2>1, <2>2, <3>1 DEF HeapTiled, Chain
  <2>5. LiveAreUsed
    BY <2>1 DEF LiveAreUsed, Owned
  <2>6. FreeSpaceJoined
    BY <2>1 DEF FreeSpaceJoined, Joined, HeapInv
  <2>7. ResidentAsNeeded
    BY <2>1 DEF ResidentAsNeeded, There, Clean
  <2> QED BY <2>3, <2>4, <2>5, <2>6, <2>7 DEF HeapSound
<1> QED BY <1>1, <1>2

(* Whatever is allocated and freed, of whatever sizes and for any size of   *)
(* the pages: heap_alloc, heap_free and expand_heap of mm/vmm.c leave a     *)
(* heap that the walk by sizes gets through, in which what callers own does *)
(* not overlap, free space is joined, the last block is free, and the       *)
(* uncommit takes no page with a header or a live word in it and leaves     *)
(* none that is all free space.                                             *)
THEOREM HeapStaysSound == HeapSpec => []HeapSound
<1>1. HeapInit => HeapInv
  BY HeapStarts
<1>2. HeapInv /\ [HeapNext]_heapVars => HeapInv'
  BY HeapStepKeeps
<1>3. HeapInv => HeapSound
  BY HeapInvSound
<1> QED BY <1>1, <1>2, <1>3, PTL DEF HeapSpec
=============================================================================
