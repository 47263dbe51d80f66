--------------------------- MODULE BlockListProofs ---------------------------
(***************************************************************************)
(* Lemmas about the block list operators of module BlockList, for lists of *)
(* any length and blocks of any type: pmm_insert_link keeps a list         *)
(* coalesced and adds exactly the pages of the new block to it.            *)
(***************************************************************************)
EXTENDS BlockList, SequenceTheorems, WellFoundedInduction, TLAPS

(* A non-empty set of numbers has a least one. *)
LEMMA LeastNumber ==
  ASSUME NEW T \in SUBSET Nat, T # {}
  PROVE  Min(T) \in T /\ \A y \in T : Min(T) <= y
<1> DEFINE R == {ss \in Nat \X Nat : ss[1] < ss[2]}
<1>1. IsWellFoundedOn(R, Nat)
  <2>1. R = OpToRel(<, Nat)
    BY DEF OpToRel
  <2> QED BY <2>1, NatLessThanWellFounded, ZenonT(40)
<1>2. \A x, y \in T : y < x => <<y, x>> \in R
  OBVIOUS
<1>3. \E x \in T : \A y \in T : x <= y
  <2> HIDE DEF R
  <2>1. PICK x \in T : \A y \in T : ~(<<y, x>> \in R)
    BY <1>1, WFMin, Zenon
  <2>2. \A y \in T : ~(y < x)
    BY <2>1, <1>2, Zenon
  <2> QED BY <2>2
<1> QED BY <1>3, Zenon DEF Min

(* A non-empty set of positions has a first one: where a scan stops. *)
LEMMA FirstPosition ==
  ASSUME NEW n \in Nat, NEW T \in SUBSET (1 .. n), T # {}
  PROVE  Min(T) \in T /\ \A y \in T : Min(T) <= y
<1>1. T \in SUBSET Nat
  OBVIOUS
<1> QED BY <1>1, LeastNumber

(* What RemoveAt leaves: everything but the i-th element, in order. *)
LEMMA RemoveAtElements ==
  ASSUME NEW S, NEW s \in Seq(S), NEW i \in 1 .. Len(s)
  PROVE  /\ RemoveAt(s, i) \in Seq(S)
         /\ Len(RemoveAt(s, i)) = Len(s) - 1
         /\ \A j \in 1 .. Len(s) - 1 :
              RemoveAt(s, i)[j] = IF j < i THEN s[j] ELSE s[j + 1]
<1> DEFINE a == SubSeq(s, 1, i - 1)
           b == SubSeq(s, i + 1, Len(s))
<1>1. a \in Seq(S) /\ Len(a) = i - 1 /\ \A j \in 1 .. i - 1 : a[j] = s[j]
  BY SubSeqProperties
<1>2. b \in Seq(S) /\ Len(b) = Len(s) - i /\ \A j \in 1 .. Len(s) - i : b[j] = s[i + j]
  BY SubSeqProperties
<1>3. RemoveAt(s, i) = a \o b
  BY DEF RemoveAt
<1> HIDE DEF a, b
<1>4. /\ a \o b \in Seq(S)
      /\ Len(a \o b) = Len(a) + Len(b)
      /\ \A j \in 1 .. Len(a) + Len(b) :
           (a \o b)[j] = IF j <= Len(a) THEN a[j] ELSE b[j - Len(a)]
  BY <1>1, <1>2, ConcatProperties
<1> QED BY <1>1, <1>2, <1>3, <1>4

(* What InsertAt makes: e at position i, what was there and behind moved on. *)
LEMMA InsertAtElements ==
  ASSUME NEW S, NEW s \in Seq(S), NEW i \in 1 .. Len(s) + 1, NEW e \in S
  PROVE  /\ InsertAt(s, i, e) \in Seq(S)
         /\ Len(InsertAt(s, i, e)) = Len(s) + 1
         /\ \A j \in 1 .. i - 1 : InsertAt(s, i, e)[j] = s[j]
         /\ InsertAt(s, i, e)[i] = e
         /\ \A j \in i + 1 .. Len(s) + 1 : InsertAt(s, i, e)[j] = s[j - 1]
<1> DEFINE a == SubSeq(s, 1, i - 1)
           b == SubSeq(s, i, Len(s))
           c == a \o <<e>>
<1>1. a \in Seq(S) /\ Len(a) = i - 1 /\ \A j \in 1 .. i - 1 : a[j] = s[j]
  BY SubSeqProperties
<1>2. /\ b \in Seq(S)
      /\ Len(b) = Len(s) - i + 1
      /\ \A j \in 1 .. Len(s) - i + 1 : b[j] = s[i + j - 1]
  BY SubSeqProperties
<1>3. InsertAt(s, i, e) = c \o b
  BY DEF InsertAt
<1> HIDE DEF a, b
<1>4. <<e>> \in Seq(S) /\ Len(<<e>>) = 1 /\ <<e>>[1] = e
  OBVIOUS
<1>5. c \in Seq(S) /\ Len(c) = i /\ \A j \in 1 .. i : c[j] = IF j < i THEN a[j] ELSE e
  BY <1>1, <1>4, ConcatProperties
<1> HIDE DEF c
<1>6. /\ c \o b \in Seq(S)
      /\ Len(c \o b) = Len(c) + Len(b)
      /\ \A j \in 1 .. Len(c) + Len(b) :
           (c \o b)[j] = IF j <= Len(c) THEN c[j] ELSE b[j - Len(c)]
  BY <1>5, <1>2, ConcatProperties
<1>7. \A j \in 1 .. i - 1 : (c \o b)[j] = s[j]
  BY <1>1, <1>2, <1>5, <1>6
<1>8. (c \o b)[i] = e
  BY <1>2, <1>5, <1>6
<1>9. ASSUME NEW j \in i + 1 .. Len(s) + 1
      PROVE  (c \o b)[j] = s[j - 1]
  <2>1. j \in 1 .. Len(c) + Len(b) /\ ~(j <= Len(c)) /\ j - Len(c) \in 1 .. Len(s) - i + 1
    BY <1>2, <1>5
  <2>2. (c \o b)[j] = b[j - Len(c)]
    BY <1>6, <2>1
  <2>3. b[j - Len(c)] = s[i + (j - Len(c)) - 1]
    BY <1>2, <2>1
  <2>4. i + (j - Len(c)) - 1 = j - 1
    BY <1>5
  <2> QED BY <2>2, <2>3, <2>4
<1> QED BY <1>2, <1>3, <1>5, <1>6, <1>7, <1>8, <1>9

LEMMA InsertAtBehind ==
  ASSUME NEW S, NEW s \in Seq(S), NEW i \in 1 .. Len(s) + 1, NEW e \in S,
         NEW j \in i + 1 .. Len(s) + 1
  PROVE  InsertAt(s, i, e)[j] = s[j - 1]
BY InsertAtElements

-----------------------------------------------------------------------------
(* A list in which blk can be put: it is coalesced and has no page of blk. *)
CanTake(list, blk) ==
  /\ Coalesced(list)
  /\ blk.size > 0
  /\ PagesOf(blk) \cap Pages(list) = {}

(* The result is coalesced and holds the old pages and those of blk. *)
Took(result, list, blk) ==
  /\ Coalesced(result)
  /\ \A p \in Nat : \A t :
       Holds(result, p, t) <=> Holds(list, p, t) \/ (p \in PagesOf(blk) /\ t = blk.type)

LEMMA BlockNumbers ==
  ASSUME NEW Types, NEW b \in Block(Types)
  PROVE  b.addr \in Nat /\ b.size \in Nat /\ End(b) \in Nat /\ End(b) = b.addr + b.size
<1>1. b.addr \in Nat /\ b.size \in Nat
  BY DEF Block
<1> QED BY ONLY <1>1 DEF End

(* Blocks without a common page lie one before the other. *)
LEMMA Apart ==
  ASSUME NEW Types, NEW list \in Seq(Block(Types)), NEW blk \in Block(Types),
         CanTake(list, blk), NEW i \in 1 .. Len(list)
  PROVE  End(list[i]) <= blk.addr \/ End(blk) <= list[i].addr
<1>1. list[i] \in Block(Types) /\ list[i].size > 0
  BY DEF CanTake, Coalesced
<1>2. \A p \in PagesOf(blk) : p \notin PagesOf(list[i])
  BY DEF CanTake, Pages
<1>3. blk.addr \in PagesOf(blk) /\ list[i].addr \in PagesOf(list[i])
  <2>1. /\ blk.addr \in Nat /\ End(blk) \in Nat /\ End(blk) > blk.addr
        /\ list[i].addr \in Nat /\ End(list[i]) \in Nat /\ End(list[i]) > list[i].addr
    BY <1>1, BlockNumbers DEF CanTake
  <2> QED BY ONLY <2>1 DEF PagesOf
<1>4. blk.addr \notin PagesOf(list[i]) /\ list[i].addr \notin PagesOf(blk)
  BY <1>2, <1>3
<1> QED BY <1>1, <1>4 DEF PagesOf, End, Block, CanTake

(* Two blocks without a common page that the scan does not stop at, or stops *)
(* at without merging them.                                                  *)
LEMMA PassedPair ==
  ASSUME NEW Types, NEW node \in Block(Types), NEW blk \in Block(Types),
         blk.size > 0, End(node) <= blk.addr \/ End(blk) <= node.addr,
         ~StopsAt(node, blk)
  PROVE  \/ End(node) < blk.addr
         \/ End(node) = blk.addr /\ node.type # blk.type
BY DEF StopsAt, CanMerge, End, Block

LEMMA UnmergedPair ==
  ASSUME NEW Types, NEW node \in Block(Types), NEW blk \in Block(Types),
         node.size > 0, blk.size > 0, End(node) <= blk.addr \/ End(blk) <= node.addr,
         StopsAt(node, blk), ~CanMerge(node, blk), ~CanMerge(blk, node)
  PROVE  \/ End(blk) < node.addr
         \/ End(blk) = node.addr /\ blk.type # node.type
BY DEF StopsAt, CanMerge, End, Block

(* A node the scan passes ends before blk, or touches it with another type. *)
LEMMA Passed ==
  ASSUME NEW Types, NEW list \in Seq(Block(Types)), NEW blk \in Block(Types),
         CanTake(list, blk), NEW i \in 1 .. Len(list), ~StopsAt(list[i], blk)
  PROVE  \/ End(list[i]) < blk.addr
         \/ End(list[i]) = blk.addr /\ list[i].type # blk.type
<1>1. list[i] \in Block(Types)
  OBVIOUS
<1>2. End(list[i]) <= blk.addr \/ End(blk) <= list[i].addr
  BY Apart
<1>3. blk.size > 0
  BY DEF CanTake
<1> QED BY <1>1, <1>2, <1>3, PassedPair

(* The scan passed every node: each ends before blk, and blk goes last. *)
LEMMA AppendTakes ==
  ASSUME NEW Types, NEW list \in Seq(Block(Types)), NEW blk \in Block(Types),
         CanTake(list, blk),
         \A i \in 1 .. Len(list) : ~StopsAt(list[i], blk)
  PROVE  Append(list, blk) \in Seq(Block(Types)) /\ Took(Append(list, blk), list, blk)
<1> DEFINE r == Append(list, blk)
           n == Len(list)
<1>1. /\ r \in Seq(Block(Types)) /\ Len(r) = n + 1 /\ n \in Nat
      /\ \A i \in 1 .. n : r[i] = list[i]
      /\ r[n + 1] = blk
  OBVIOUS
<1>2. \A i \in 1 .. n : \/ End(list[i]) < blk.addr
                        \/ End(list[i]) = blk.addr /\ list[i].type # blk.type
  BY Passed
<1>3. /\ \A i \in 1 .. n : list[i].size > 0
      /\ \A i, j \in 1 .. n : i < j => \/ End(list[i]) < list[j].addr
                                       \/ End(list[i]) = list[j].addr /\ list[i].type # list[j].type
  BY DEF CanTake, Coalesced
<1> HIDE DEF r
<1>4. Coalesced(r)
  <2>1. \A i \in 1 .. n + 1 : r[i].size > 0
    BY <1>1, <1>3 DEF CanTake
  <2>2. ASSUME NEW i \in 1 .. n + 1, NEW j \in 1 .. n + 1, i < j
        PROVE  \/ End(r[i]) < r[j].addr
               \/ End(r[i]) = r[j].addr /\ r[i].type # r[j].type
    <3>1. CASE j = n + 1
      BY <1>1, <1>2, <2>2, <3>1
    <3>2. CASE j \in 1 .. n
      BY <1>1, <1>3, <2>2, <3>2
    <3> QED BY <1>1, <3>1, <3>2
  <2> HIDE DEF n
  <2> QED BY <1>1, <2>1, <2>2 DEF Coalesced
<1>5. \A p \in Nat : \A t :
        Holds(r, p, t) <=> Holds(list, p, t) \/ (p \in PagesOf(blk) /\ t = blk.type)
  BY <1>1 DEF Holds
<1> QED BY <1>1, <1>4, <1>5 DEF Took, r

(* blk goes before the first node behind it, which it does not touch. *)
LEMMA InsertTakes ==
  ASSUME NEW Types, NEW list \in Seq(Block(Types)), NEW blk \in Block(Types),
         CanTake(list, blk), NEW i \in 1 .. Len(list),
         \A j \in 1 .. i - 1 : ~StopsAt(list[j], blk),
         StopsAt(list[i], blk), ~CanMerge(list[i], blk), ~CanMerge(blk, list[i])
  PROVE  InsertAt(list, i, blk) \in Seq(Block(Types)) /\ Took(InsertAt(list, i, blk), list, blk)
<1> DEFINE r == InsertAt(list, i, blk)
           n == Len(list)
<1>1. /\ r \in Seq(Block(Types)) /\ Len(r) = n + 1 /\ n \in Nat /\ i \in 1 .. n
      /\ \A j \in 1 .. n + 1 : r[j] = IF j < i THEN list[j] ELSE IF j = i THEN blk ELSE list[j - 1]
  <2>1. n \in Nat /\ i \in 1 .. n /\ i \in 1 .. Len(list) + 1 /\ r = InsertAt(list, i, blk)
    OBVIOUS
  <2> HIDE DEF r
  <2>2. r \in Seq(Block(Types))
    BY <2>1, InsertAtElements
  <2>3. Len(r) = n + 1
    BY <2>1, InsertAtElements
  <2>4. /\ \A j \in 1 .. i - 1 : r[j] = list[j]
        /\ r[i] = blk
        /\ \A j \in i + 1 .. n + 1 : r[j] = list[j - 1]
    <3>1. ASSUME NEW j \in 1 .. i - 1
          PROVE  r[j] = list[j]
      BY <2>1, InsertAtElements
    <3>2. r[i] = blk
      BY <2>1, InsertAtElements
    <3>3. ASSUME NEW j \in i + 1 .. Len(list) + 1
          PROVE  r[j] = list[j - 1]
      BY <2>1, InsertAtBehind
    <3> QED BY <3>1, <3>2, <3>3
  <2> QED BY <2>1, <2>2, <2>3, <2>4
<1>2. \A j \in 1 .. n : list[j] \in Block(Types)
  OBVIOUS
<1>3. \A j \in 1 .. i - 1 : \/ End(list[j]) < blk.addr
                            \/ End(list[j]) = blk.addr /\ list[j].type # blk.type
  <2>1. \A j \in 1 .. i - 1 : j \in 1 .. Len(list)
    OBVIOUS
  <2> QED BY <2>1, Passed
<1>4. /\ \A j \in 1 .. n : list[j].size > 0
      /\ \A j, k \in 1 .. n : j < k => \/ End(list[j]) < list[k].addr
                                       \/ End(list[j]) = list[k].addr /\ list[j].type # list[k].type
  BY DEF CanTake, Coalesced
<1>5. \/ End(blk) < list[i].addr
      \/ End(blk) = list[i].addr /\ blk.type # list[i].type
  <2>1. End(list[i]) <= blk.addr \/ End(blk) <= list[i].addr
    BY Apart
  <2>2. list[i] \in Block(Types) /\ list[i].size > 0 /\ blk.size > 0
    BY <1>2, <1>4 DEF CanTake
  <2> QED BY <2>1, <2>2, UnmergedPair
<1>6. \A j \in i + 1 .. n : End(blk) < list[j].addr
  <2> TAKE j \in i + 1 .. n
  <2>1. j \in 1 .. n /\ i < j
    BY <1>1
  <2>3. list[i] \in Block(Types) /\ list[j] \in Block(Types)
    BY <1>2, <2>1
  <2>2. End(list[i]) <= list[j].addr /\ list[i].size > 0
    <3>1. End(list[i]) < list[j].addr \/ End(list[i]) = list[j].addr
      BY <1>1, <1>4, <2>1
    <3>2. list[i].size > 0
      BY <1>1, <1>4
    <3>3. End(list[i]) \in Nat /\ list[j].addr \in Nat
      BY <2>3, BlockNumbers
    <3> QED BY ONLY <3>1, <3>2, <3>3
  <2>4. /\ End(blk) \in Nat /\ list[j].addr \in Nat
        /\ list[i].addr \in Nat /\ list[i].size \in Nat /\ End(list[i]) = list[i].addr + list[i].size
    BY <2>3, BlockNumbers
  <2> HIDE DEF n
  <2> QED BY ONLY <1>5, <2>2, <2>4
<1> HIDE DEF r
<1>7. Coalesced(r)
  <2>1. \A j \in 1 .. n + 1 : r[j].size > 0
    <3>1. blk.size > 0
      BY DEF CanTake
    <3> TAKE j \in 1 .. n + 1
    <3>2. CASE j < i
      <4>1. j \in 1 .. n /\ r[j] = list[j]
        BY <1>1, <3>2
      <4> QED BY <1>4, <4>1
    <3>3. CASE j = i
      BY <1>1, <3>1, <3>3
    <3>4. CASE j > i
      <4>1. j - 1 \in 1 .. n /\ r[j] = list[j - 1]
        BY <1>1, <3>4
      <4> QED BY <1>4, <4>1
    <3> QED BY <1>1, <3>2, <3>3, <3>4
  <2>2. ASSUME NEW j \in 1 .. n + 1, NEW k \in 1 .. n + 1, j < k
        PROVE  \/ End(r[j]) < r[k].addr
               \/ End(r[j]) = r[k].addr /\ r[j].type # r[k].type
    <3>1. CASE k < i
      <4>1. r[j] = list[j] /\ r[k] = list[k] /\ j \in 1 .. n /\ k \in 1 .. n
        BY <1>1, <2>2, <3>1
      <4> QED BY <1>4, <2>2, <4>1
    <3>2. CASE k = i
      BY <1>1, <1>3, <2>2, <3>2, SMTT(20)
    <3>3. CASE k > i /\ j = i
      <4>1. r[j] = blk /\ r[k] = list[k - 1] /\ k - 1 \in i .. n
        BY <1>1, <2>2, <3>3
      <4> QED BY <1>1, <1>5, <1>6, <4>1
    <3>4. CASE k > i /\ j < i
      <4>1. r[j] = list[j] /\ r[k] = list[k - 1] /\ k - 1 \in 1 .. n /\ j \in 1 .. n /\ j < k - 1
        BY <1>1, <2>2, <3>4
      <4> QED BY <1>4, <4>1
    <3>5. CASE k > i /\ j > i
      <4>1. /\ r[j] = list[j - 1] /\ r[k] = list[k - 1]
            /\ k - 1 \in 1 .. n /\ j - 1 \in 1 .. n /\ j - 1 < k - 1
        BY <1>1, <2>2, <3>5
      <4> QED BY <1>4, <4>1
    <3> QED BY <1>1, <3>1, <3>2, <3>3, <3>4, <3>5
  <2> HIDE DEF n
  <2> QED BY <1>1, <2>1, <2>2 DEF Coalesced
<1>8. \A p \in Nat : \A t :
        Holds(r, p, t) <=> Holds(list, p, t) \/ (p \in PagesOf(blk) /\ t = blk.type)
  <2> TAKE p \in Nat
  <2> TAKE t
  <2>1. ASSUME NEW j \in 1 .. n + 1, p \in PagesOf(r[j]), r[j].type = t
        PROVE  Holds(list, p, t) \/ (p \in PagesOf(blk) /\ t = blk.type)
    <3>1. CASE j < i
      BY <1>1, <2>1, <3>1 DEF Holds
    <3>2. CASE j = i
      BY <1>1, <2>1, <3>2
    <3>3. CASE j > i
      <4>1. j - 1 \in 1 .. n /\ r[j] = list[j - 1]
        BY <1>1, <3>3
      <4> QED BY <2>1, <4>1 DEF Holds
    <3> QED BY <1>1, <3>1, <3>2, <3>3
  <2>2. ASSUME NEW j \in 1 .. n, p \in PagesOf(list[j]), list[j].type = t
        PROVE  Holds(r, p, t)
    <3>1. CASE j < i
      BY <1>1, <2>2, <3>1, SMTT(20) DEF Holds
    <3>2. CASE j >= i
      <4>1. j + 1 \in 1 .. n + 1 /\ r[j + 1] = list[j]
        BY <1>1, <3>2
      <4> QED BY <1>1, <2>2, <4>1 DEF Holds
    <3> QED BY <1>1, <3>1, <3>2
  <2>3. ASSUME p \in PagesOf(blk), t = blk.type
        PROVE  Holds(r, p, t)
    BY <1>1, <2>3 DEF Holds
  <2> HIDE DEF n
  <2> QED BY <1>1, <2>1, <2>2, <2>3 DEF Holds, n
<1> QED BY <1>1, <1>7, <1>8 DEF Took, r

(* The node at i gives way to m, which covers it and blk and touches neither *)
(* neighbour.                                                                *)
LEMMA ReplaceTakes ==
  ASSUME NEW Types, NEW list \in Seq(Block(Types)), NEW blk \in Block(Types),
         CanTake(list, blk), NEW i \in 1 .. Len(list), NEW m \in Block(Types),
         m.size > 0, m.type = blk.type, m.type = list[i].type,
         \A p \in Nat : p \in PagesOf(m) <=> p \in PagesOf(list[i]) \/ p \in PagesOf(blk),
         \A j \in 1 .. i - 1 : \/ End(list[j]) < m.addr
                               \/ End(list[j]) = m.addr /\ list[j].type # m.type,
         \A j \in i + 1 .. Len(list) : \/ End(m) < list[j].addr
                                       \/ End(m) = list[j].addr /\ m.type # list[j].type
  PROVE  [list EXCEPT ![i] = m] \in Seq(Block(Types)) /\ Took([list EXCEPT ![i] = m], list, blk)
<1> DEFINE r == [list EXCEPT ![i] = m]
           n == Len(list)
<1>1. /\ r \in Seq(Block(Types)) /\ Len(r) = n /\ n \in Nat /\ i \in 1 .. n
      /\ \A j \in 1 .. n : r[j] = IF j = i THEN m ELSE list[j]
  OBVIOUS
<1>2. /\ \A j \in 1 .. n : list[j].size > 0
      /\ \A j, k \in 1 .. n : j < k => \/ End(list[j]) < list[k].addr
                                       \/ End(list[j]) = list[k].addr /\ list[j].type # list[k].type
  BY DEF CanTake, Coalesced
<1> HIDE DEF r
<1>3. Coalesced(r)
  <2>1. \A j \in 1 .. n : r[j].size > 0
    BY <1>1, <1>2
  <2>2. ASSUME NEW j \in 1 .. n, NEW k \in 1 .. n, j < k
        PROVE  \/ End(r[j]) < r[k].addr
               \/ End(r[j]) = r[k].addr /\ r[j].type # r[k].type
    <3>1. CASE j # i /\ k # i
      BY <1>1, <1>2, <2>2, <3>1
    <3>2. CASE k = i
      BY <1>1, <2>2, <3>2
    <3>3. CASE j = i
      BY <1>1, <2>2, <3>3
    <3> QED BY <3>1, <3>2, <3>3
  <2> HIDE DEF n
  <2> QED BY <1>1, <2>1, <2>2 DEF Coalesced
<1>4. \A p \in Nat : \A t :
        Holds(r, p, t) <=> Holds(list, p, t) \/ (p \in PagesOf(blk) /\ t = blk.type)
  <2> TAKE p \in Nat
  <2> TAKE t
  <2>1. ASSUME NEW j \in 1 .. n, p \in PagesOf(r[j]), r[j].type = t
        PROVE  Holds(list, p, t) \/ (p \in PagesOf(blk) /\ t = blk.type)
    BY <1>1, <2>1 DEF Holds
  <2>2. ASSUME NEW j \in 1 .. n, p \in PagesOf(list[j]), list[j].type = t
        PROVE  Holds(r, p, t)
    BY <1>1, <2>2 DEF Holds
  <2>3. ASSUME p \in PagesOf(blk), t = blk.type
        PROVE  Holds(r, p, t)
    BY <1>1, <2>3 DEF Holds
  <2> HIDE DEF n
  <2> QED BY <1>1, <2>1, <2>2, <2>3 DEF Holds, n
<1> QED BY <1>1, <1>3, <1>4 DEF Took, r

(* The next eight lemmas compute what a merge of blocks covers.   *)
LEMMA AbsorbPair ==
  ASSUME NEW Types, NEW node \in Block(Types), NEW blk \in Block(Types),
         node.size > 0, blk.size > 0, End(node) <= blk.addr \/ End(blk) <= node.addr,
         CanMerge(node, blk)
  PROVE  LET m == [node EXCEPT !.size = MergedSize(node, blk)] IN
         /\ End(node) = blk.addr /\ node.type = blk.type
         /\ m \in Block(Types) /\ m.addr = node.addr /\ m.type = blk.type
         /\ m.size = node.size + blk.size /\ m.size > 0 /\ End(m) = End(blk)
<1>1. /\ End(node) = blk.addr /\ node.type = blk.type
      /\ MergedSize(node, blk) = node.size + blk.size
  BY DEF CanMerge, MergedSize, End, Block
<1> QED BY <1>1 DEF End, Block

LEMMA ExtendPair ==
  ASSUME NEW Types, NEW node \in Block(Types), NEW blk \in Block(Types),
         node.size > 0, blk.size > 0, End(node) <= blk.addr \/ End(blk) <= node.addr,
         CanMerge(blk, node)
  PROVE  LET m == [node EXCEPT !.addr = blk.addr, !.size = MergedSize(blk, node)] IN
         /\ End(blk) = node.addr /\ node.type = blk.type
         /\ m \in Block(Types) /\ m.addr = blk.addr /\ m.type = blk.type
         /\ m.size = blk.size + node.size /\ m.size > 0 /\ End(m) = End(node)
<1>1. /\ End(blk) = node.addr /\ node.type = blk.type
      /\ MergedSize(blk, node) = blk.size + node.size
  BY DEF CanMerge, MergedSize, End, Block
<1> DEFINE m == [node EXCEPT !.addr = blk.addr, !.size = MergedSize(blk, node)]
<1>2. m = [addr |-> blk.addr, size |-> blk.size + node.size, type |-> node.type]
  <2>1. [node EXCEPT !.addr = blk.addr] =
          [addr |-> blk.addr, size |-> node.size, type |-> node.type]
    BY DEF Block
  <2>2. [[addr |-> blk.addr, size |-> node.size, type |-> node.type] EXCEPT !.size = blk.size + node.size] =
          [addr |-> blk.addr, size |-> blk.size + node.size, type |-> node.type]
    OBVIOUS
  <2> QED BY <1>1, <2>1, <2>2
<1> HIDE DEF m
<1>3. /\ m \in Block(Types) /\ m.addr = blk.addr /\ m.type = blk.type
      /\ m.size = blk.size + node.size /\ m.size > 0 /\ End(m) = End(node)
  BY <1>1, <1>2 DEF End, Block
<1> QED BY <1>1, <1>3 DEF m

LEMMA AfterPair ==
  ASSUME NEW Types, NEW m \in Block(Types), NEW a \in Block(Types), NEW b \in Block(Types),
         End(m) <= a.addr, a.size > 0, End(a) <= b.addr
  PROVE  End(m) < b.addr
BY DEF End, Block

LEMMA NextPair ==
  ASSUME NEW Types, NEW m \in Block(Types), NEW a \in Block(Types),
         End(m) <= a.addr, ~CanMerge(m, a)
  PROVE  \/ End(m) < a.addr
         \/ End(m) = a.addr /\ m.type # a.type
BY DEF CanMerge, End, Block

LEMMA SecondPair ==
  ASSUME NEW Types, NEW m \in Block(Types), NEW b \in Block(Types),
         m.size > 0, b.size > 0, End(m) <= b.addr, CanMerge(m, b)
  PROVE  /\ End(m) = b.addr /\ m.type = b.type
         /\ MergedSize(m, b) = m.size + b.size
BY DEF CanMerge, MergedSize, End, Block

LEMMA ResizedBlock ==
  ASSUME NEW Types, NEW node \in Block(Types), NEW size \in Nat
  PROVE  LET k == [node EXCEPT !.size = size]
         IN  k \in Block(Types) /\ k.addr = node.addr /\ k.type = node.type /\ k.size = size
BY DEF Block

LEMMA EndOfJoin ==
  ASSUME NEW Types, NEW node \in Block(Types), NEW m \in Block(Types),
         NEW next \in Block(Types), NEW k \in Block(Types),
         m.addr = node.addr, End(m) = next.addr,
         k.addr = node.addr, k.size = m.size + next.size, next.size > 0
  PROVE  End(k) = End(next) /\ k.size > 0
BY DEF End, Block

LEMMA JoinedPages ==
  ASSUME NEW Types, NEW a \in Block(Types), NEW b \in Block(Types), NEW m \in Block(Types),
         End(a) = b.addr, m.addr = a.addr, m.size = a.size + b.size
  PROVE  \A p \in Nat : p \in PagesOf(m) <=> p \in PagesOf(a) \/ p \in PagesOf(b)
BY DEF PagesOf, End, Block

(* blk ends where the node at i begins, and takes its place. *)
LEMMA ExtendTakes ==
  ASSUME NEW Types, NEW list \in Seq(Block(Types)), NEW blk \in Block(Types),
         CanTake(list, blk), NEW i \in 1 .. Len(list),
         \A j \in 1 .. i - 1 : ~StopsAt(list[j], blk),
         CanMerge(blk, list[i])
  PROVE  Extend(list, i, blk) \in Seq(Block(Types)) /\ Took(Extend(list, i, blk), list, blk)
<1> DEFINE m == [list[i] EXCEPT !.addr = blk.addr, !.size = MergedSize(blk, list[i])]
<1>1. list[i] \in Block(Types) /\ list[i].size > 0 /\ blk.size > 0
  BY DEF CanTake, Coalesced
<1>2. End(list[i]) <= blk.addr \/ End(blk) <= list[i].addr
  BY Apart
<1>3. /\ End(blk) = list[i].addr /\ list[i].type = blk.type
      /\ m \in Block(Types) /\ m.addr = blk.addr /\ m.type = blk.type
      /\ m.size = blk.size + list[i].size /\ m.size > 0 /\ End(m) = End(list[i])
  BY <1>1, <1>2, ExtendPair, ZenonT(40)
<1>4. Extend(list, i, blk) = [list EXCEPT ![i] = m]
  BY DEF Extend
<1> HIDE DEF m
<1>6. \A p \in Nat : p \in PagesOf(m) <=> p \in PagesOf(list[i]) \/ p \in PagesOf(blk)
  BY <1>1, <1>3, JoinedPages
<1>7. \A j \in 1 .. i - 1 : \/ End(list[j]) < m.addr
                            \/ End(list[j]) = m.addr /\ list[j].type # m.type
  <2>1. \A j \in 1 .. i - 1 : j \in 1 .. Len(list)
    OBVIOUS
  <2> QED BY <1>3, <2>1, Passed
<1>8. \A j \in i + 1 .. Len(list) : \/ End(m) < list[j].addr
                                    \/ End(m) = list[j].addr /\ m.type # list[j].type
  <2>1. \A j \in i + 1 .. Len(list) : j \in 1 .. Len(list) /\ i < j
    OBVIOUS
  <2> QED BY <1>3, <2>1 DEF CanTake, Coalesced
<1>9. m.type = list[i].type
  BY <1>3
<1>10. [list EXCEPT ![i] = m] \in Seq(Block(Types)) /\ Took([list EXCEPT ![i] = m], list, blk)
  BY <1>3, <1>6, <1>7, <1>8, <1>9, ReplaceTakes
<1> QED BY <1>4, <1>10

(* The block behind the node at i cannot lie before the end of blk. *)
LEMMA BehindAbsorbed ==
  ASSUME NEW Types, NEW list \in Seq(Block(Types)), NEW blk \in Block(Types),
         CanTake(list, blk), NEW i \in 1 .. Len(list), End(list[i]) = blk.addr,
         NEW j \in i + 1 .. Len(list)
  PROVE  End(blk) <= list[j].addr
<1>1. j \in 1 .. Len(list) /\ i < j
  OBVIOUS
<1>2. End(list[j]) <= blk.addr \/ End(blk) <= list[j].addr
  BY <1>1, Apart
<1>3. End(list[i]) <= list[j].addr /\ list[j].size > 0
  <2>1. End(list[i]) < list[j].addr \/ End(list[i]) = list[j].addr
    BY <1>1 DEF CanTake, Coalesced
  <2>2. list[i] \in Block(Types) /\ list[j] \in Block(Types)
    BY <1>1
  <2>3. list[j].size > 0
    BY <1>1 DEF CanTake, Coalesced
  <2>4. End(list[i]) \in Nat /\ list[j].addr \in Nat
    BY <2>2, BlockNumbers
  <2> QED BY ONLY <2>1, <2>3, <2>4
<1>4. /\ End(list[i]) \in Nat /\ End(blk) \in Nat
      /\ list[j].addr \in Nat /\ list[j].size \in Nat /\ End(list[j]) = list[j].addr + list[j].size
  BY <1>1, BlockNumbers
<1> QED BY ONLY <1>2, <1>3, <1>4, End(list[i]) = blk.addr

(* The node at i ends where blk begins, and swallows it; the block behind is *)
(* not reached, or has another type.                                         *)
LEMMA AbsorbTakes ==
  ASSUME NEW Types, NEW list \in Seq(Block(Types)), NEW blk \in Block(Types),
         CanTake(list, blk), NEW i \in 1 .. Len(list),
         CanMerge(list[i], blk),
         LET node == [list[i] EXCEPT !.size = MergedSize(list[i], blk)]
         IN  ~(i < Len(list) /\ CanMerge(node, list[i + 1]))
  PROVE  Absorb(list, i, blk) \in Seq(Block(Types)) /\ Took(Absorb(list, i, blk), list, blk)
<1> DEFINE m == [list[i] EXCEPT !.size = MergedSize(list[i], blk)]
<1>1. list[i] \in Block(Types) /\ list[i].size > 0 /\ blk.size > 0
  BY DEF CanTake, Coalesced
<1>2. End(list[i]) <= blk.addr \/ End(blk) <= list[i].addr
  BY Apart
<1>3. /\ End(list[i]) = blk.addr /\ list[i].type = blk.type
      /\ m \in Block(Types) /\ m.addr = list[i].addr /\ m.type = blk.type
      /\ m.size = list[i].size + blk.size /\ m.size > 0 /\ End(m) = End(blk)
  BY <1>1, <1>2, AbsorbPair
<1>4. Absorb(list, i, blk) = [list EXCEPT ![i] = m]
  BY DEF Absorb
<1>a. i < Len(list) => ~CanMerge(m, list[i + 1])
  OBVIOUS
<1> HIDE DEF m
<1>6. \A p \in Nat : p \in PagesOf(m) <=> p \in PagesOf(list[i]) \/ p \in PagesOf(blk)
  BY <1>1, <1>3, JoinedPages
<1>9. m.type = list[i].type
  BY <1>3
<1>7. \A j \in 1 .. i - 1 : \/ End(list[j]) < m.addr
                            \/ End(list[j]) = m.addr /\ list[j].type # m.type
  <2>1. \A j \in 1 .. i - 1 : j \in 1 .. Len(list) /\ j < i
    OBVIOUS
  <2>2. \A j \in 1 .. i - 1 : \/ End(list[j]) < list[i].addr
                              \/ End(list[j]) = list[i].addr /\ list[j].type # list[i].type
    BY <2>1 DEF CanTake, Coalesced
  <2> QED BY <1>3, <1>9, <2>2
<1>8. ASSUME NEW j \in i + 1 .. Len(list)
      PROVE  \/ End(m) < list[j].addr
             \/ End(m) = list[j].addr /\ m.type # list[j].type
  <2>1. i + 1 \in 1 .. Len(list) /\ i + 1 \in i + 1 .. Len(list) /\ j \in 1 .. Len(list)
    OBVIOUS
  <2>2. End(m) <= list[i + 1].addr
    BY <1>3, <2>1, BehindAbsorbed
  <2>3. list[i + 1] \in Block(Types) /\ list[i + 1].size > 0 /\ list[j] \in Block(Types)
    BY <2>1 DEF CanTake, Coalesced
  <2>4. CASE j = i + 1
    <3>1. ~CanMerge(m, list[j])
      BY <1>a, <2>1, <2>4
    <3> QED BY <1>3, <2>2, <2>3, <2>4, <3>1, NextPair
  <2>5. CASE j # i + 1
    <3>1. i + 1 < j
      BY <2>5
    <3>2. End(list[i + 1]) < list[j].addr \/ End(list[i + 1]) = list[j].addr
      BY <2>1, <3>1 DEF CanTake, Coalesced
    <3>3. End(list[i + 1]) <= list[j].addr
      <4>1. End(list[i + 1]) \in Nat /\ list[j].addr \in Nat
        BY <2>3, BlockNumbers
      <4> QED BY ONLY <3>2, <4>1
    <3> QED BY <1>3, <2>2, <2>3, <3>3, AfterPair
  <2> QED BY <2>4, <2>5
<1>10. [list EXCEPT ![i] = m] \in Seq(Block(Types)) /\ Took([list EXCEPT ![i] = m], list, blk)
  BY <1>3, <1>6, <1>7, <1>8, <1>9, ReplaceTakes
<1> QED BY <1>4, <1>10

(* The node swallows blk and then, since they touch now, the block behind it. *)
LEMMA AbsorbBothTakes ==
  ASSUME NEW Types, NEW list \in Seq(Block(Types)), NEW blk \in Block(Types),
         CanTake(list, blk), NEW i \in 1 .. Len(list), i < Len(list),
         CanMerge(list[i], blk),
         CanMerge([list[i] EXCEPT !.size = MergedSize(list[i], blk)], list[i + 1])
  PROVE  Absorb(list, i, blk) \in Seq(Block(Types)) /\ Took(Absorb(list, i, blk), list, blk)
<1> DEFINE m == [list[i] EXCEPT !.size = MergedSize(list[i], blk)]
           k == [list[i] EXCEPT !.size = MergedSize(m, list[i + 1])]
           s == [list EXCEPT ![i].size = MergedSize(m, list[i + 1])]
           r == RemoveAt(s, i + 1)
           n == Len(list)
<1>1. /\ \A j \in 1 .. n : list[j] \in Block(Types)
      /\ \A j \in 1 .. n : list[j].size > 0
      /\ \A j, l \in 1 .. n : j < l => \/ End(list[j]) < list[l].addr
                                       \/ End(list[j]) = list[l].addr /\ list[j].type # list[l].type
      /\ blk.size > 0 /\ i \in 1 .. n /\ i + 1 \in 1 .. n /\ n \in Nat
  <2>1. \A j \in 1 .. n : list[j] \in Block(Types)
    OBVIOUS
  <2>2. i \in 1 .. n /\ i + 1 \in 1 .. n /\ n \in Nat
    OBVIOUS
  <2> QED BY <2>1, <2>2 DEF CanTake, Coalesced
<1>2. /\ End(list[i]) = blk.addr /\ list[i].type = blk.type
      /\ m \in Block(Types) /\ m.addr = list[i].addr /\ m.type = blk.type
      /\ m.size = list[i].size + blk.size /\ m.size > 0 /\ End(m) = End(blk)
  <2>1. End(list[i]) <= blk.addr \/ End(blk) <= list[i].addr
    BY Apart
  <2> QED BY <1>1, <2>1, AbsorbPair
<1>3. CanMerge(m, list[i + 1])
  OBVIOUS
<1> HIDE DEF m
<1>4. End(m) <= list[i + 1].addr
  <2>1. i + 1 \in i + 1 .. Len(list)
    OBVIOUS
  <2> QED BY <1>2, <2>1, BehindAbsorbed
<1>5. /\ End(m) = list[i + 1].addr /\ m.type = list[i + 1].type
      /\ MergedSize(m, list[i + 1]) = m.size + list[i + 1].size
  <2>1. list[i + 1] \in Block(Types) /\ list[i + 1].size > 0
    BY <1>1
  <2> QED BY <1>2, <1>3, <1>4, <2>1, SecondPair
<1>6. /\ k \in Block(Types) /\ k.addr = list[i].addr /\ k.type = blk.type
      /\ k.size = m.size + list[i + 1].size /\ k.size > 0 /\ End(k) = End(list[i + 1])
  <2>1. k = [list[i] EXCEPT !.size = m.size + list[i + 1].size]
    BY <1>5
  <2>2. list[i] \in Block(Types) /\ list[i + 1] \in Block(Types) /\ list[i + 1].size > 0
    BY <1>1
  <2> HIDE DEF k
  <2>3. m.size + list[i + 1].size \in Nat
    <3>1. m.size \in Nat /\ list[i + 1].size \in Nat
      BY <1>2, <2>2 DEF Block
    <3> QED BY <3>1
  <2>4. /\ k \in Block(Types) /\ k.addr = list[i].addr /\ k.type = blk.type
        /\ k.size = m.size + list[i + 1].size
    BY <1>2, <2>1, <2>2, <2>3, ResizedBlock
  <2>5. k.size > 0 /\ End(k) = End(list[i + 1])
    BY <1>2, <1>5, <2>2, <2>4, EndOfJoin
  <2> QED BY <2>4, <2>5
<1>7. /\ s \in Seq(Block(Types)) /\ Len(s) = n
      /\ \A j \in 1 .. n : s[j] = IF j = i THEN k ELSE list[j]
  BY <1>6
<1>8. Absorb(list, i, blk) = r
  BY <1>3 DEF Absorb, m
<1>9. /\ r \in Seq(Block(Types)) /\ Len(r) = n - 1
      /\ \A j \in 1 .. n - 1 : r[j] = IF j < i + 1 THEN s[j] ELSE s[j + 1]
  <2>1. s \in Seq(Block(Types)) /\ i + 1 \in 1 .. Len(s) /\ Len(s) = n
    BY <1>1, <1>7
  <2> HIDE DEF s, n
  <2> QED BY <2>1, RemoveAtElements
<1> HIDE DEF k, s, r
<1>10. \A j \in 1 .. n - 1 :
         r[j] = IF j < i THEN list[j] ELSE IF j = i THEN k ELSE list[j + 1]
  BY <1>1, <1>7, <1>9
<1>11. \A p \in Nat : p \in PagesOf(k) <=>
         p \in PagesOf(list[i]) \/ p \in PagesOf(blk) \/ p \in PagesOf(list[i + 1])
  <2>1. \A p \in Nat : p \in PagesOf(m) <=> p \in PagesOf(list[i]) \/ p \in PagesOf(blk)
    BY <1>1, <1>2, JoinedPages
  <2>2. \A p \in Nat : p \in PagesOf(k) <=> p \in PagesOf(m) \/ p \in PagesOf(list[i + 1])
    BY <1>1, <1>2, <1>5, <1>6, JoinedPages
  <2> QED BY <2>1, <2>2
<1>12. Coalesced(r)
  <2>1. ASSUME NEW j \in 1 .. n - 1
        PROVE  r[j].size > 0
    <3>1. j \in 1 .. n /\ j + 1 \in 1 .. n
      BY <1>1
    <3> QED BY <1>1, <1>6, <1>10, <3>1
  <2>2. ASSUME NEW j \in 1 .. n - 1, NEW l \in 1 .. n - 1, j < l
        PROVE  \/ End(r[j]) < r[l].addr
               \/ End(r[j]) = r[l].addr /\ r[j].type # r[l].type
    <3>1. CASE l < i
      <4>1. r[j] = list[j] /\ r[l] = list[l] /\ j \in 1 .. n /\ l \in 1 .. n
        BY <1>1, <1>10, <2>2, <3>1
      <4> QED BY <1>1, <2>2, <4>1
    <3>2. CASE l = i
      <4>1. r[j] = list[j] /\ r[l] = k /\ j \in 1 .. n /\ j < i
        BY <1>1, <1>10, <2>2, <3>2
      <4>2. \/ End(list[j]) < list[i].addr
            \/ End(list[j]) = list[i].addr /\ list[j].type # list[i].type
        BY <1>1, <4>1
      <4> QED BY <1>2, <1>6, <4>1, <4>2
    <3>3. CASE l > i /\ j = i
      <4>1. r[j] = k /\ r[l] = list[l + 1] /\ l + 1 \in 1 .. n /\ i + 1 < l + 1
        BY <1>1, <1>10, <2>2, <3>3
      <4>2. \/ End(list[i + 1]) < list[l + 1].addr
            \/ End(list[i + 1]) = list[l + 1].addr /\ list[i + 1].type # list[l + 1].type
        BY <1>1, <4>1
      <4> QED BY <1>2, <1>5, <1>6, <4>1, <4>2
    <3>4. CASE l > i /\ j < i
      <4>1. r[j] = list[j] /\ r[l] = list[l + 1] /\ l + 1 \in 1 .. n /\ j \in 1 .. n /\ j < l + 1
        BY <1>1, <1>10, <2>2, <3>4
      <4>2. \/ End(list[j]) < list[l + 1].addr
            \/ End(list[j]) = list[l + 1].addr /\ list[j].type # list[l + 1].type
        BY <1>1, <4>1
      <4> QED BY <4>1, <4>2
    <3>5. CASE l > i /\ j > i
      <4>1. /\ r[j] = list[j + 1] /\ r[l] = list[l + 1]
            /\ l + 1 \in 1 .. n /\ j + 1 \in 1 .. n /\ j + 1 < l + 1
        BY <1>1, <1>10, <2>2, <3>5
      <4> QED BY <1>1, <4>1
    <3> QED BY <1>1, <3>1, <3>2, <3>3, <3>4, <3>5
  <2> HIDE DEF n
  <2> QED BY <1>1, <1>9, <2>1, <2>2 DEF Coalesced
<1>13. \A p \in Nat : \A t :
         Holds(r, p, t) <=> Holds(list, p, t) \/ (p \in PagesOf(blk) /\ t = blk.type)
  <2> TAKE p \in Nat
  <2> TAKE t
  <2>1. ASSUME NEW j \in 1 .. n - 1, p \in PagesOf(r[j]), r[j].type = t
        PROVE  Holds(list, p, t) \/ (p \in PagesOf(blk) /\ t = blk.type)
    <3>1. CASE j < i
      <4>1. j \in 1 .. n /\ r[j] = list[j]
        BY <1>1, <1>10, <3>1
      <4> QED BY <2>1, <4>1 DEF Holds
    <3>2. CASE j = i
      <4>1. \/ p \in PagesOf(list[i]) \/ p \in PagesOf(blk) \/ p \in PagesOf(list[i + 1])
        BY <1>10, <1>11, <2>1, <3>2
      <4>2. t = list[i].type /\ t = blk.type /\ t = list[i + 1].type
        BY <1>2, <1>5, <1>6, <1>10, <2>1, <3>2
      <4> QED BY <1>1, <4>1, <4>2 DEF Holds
    <3>3. CASE j > i
      <4>1. j + 1 \in 1 .. n /\ r[j] = list[j + 1]
        BY <1>1, <1>10, <3>3
      <4> QED BY <2>1, <4>1 DEF Holds
    <3> QED BY <1>1, <3>1, <3>2, <3>3
  <2>2. ASSUME p \in PagesOf(k), t = k.type
        PROVE  Holds(r, p, t)
    <3>1. i \in 1 .. n - 1 /\ r[i] = k
      BY <1>1, <1>10
    <3> QED BY <1>9, <2>2, <3>1 DEF Holds
  <2>3. ASSUME NEW j \in 1 .. n, p \in PagesOf(list[j]), list[j].type = t
        PROVE  Holds(r, p, t)
    <3>1. CASE j < i
      <4>1. j \in 1 .. n - 1 /\ r[j] = list[j]
        BY <1>1, <1>10, <3>1
      <4> QED BY <1>9, <2>3, <4>1 DEF Holds
    <3>2. CASE j = i \/ j = i + 1
      BY <1>2, <1>5, <1>6, <1>11, <2>2, <2>3, <3>2
    <3>3. CASE j > i + 1
      <4>1. j - 1 \in 1 .. n - 1 /\ r[j - 1] = list[j]
        BY <1>1, <1>10, <3>3
      <4> QED BY <1>9, <2>3, <4>1 DEF Holds
    <3> QED BY <1>1, <3>1, <3>2, <3>3
  <2>4. ASSUME p \in PagesOf(blk), t = blk.type
        PROVE  Holds(r, p, t)
    BY <1>6, <1>11, <2>2, <2>4
  <2> HIDE DEF n
  <2> QED BY <1>9, <2>1, <2>3, <2>4 DEF Holds, n
<1> QED BY <1>8, <1>9, <1>12, <1>13 DEF Took

-----------------------------------------------------------------------------
(* pmm_insert_link, for every list and block: the block's pages join the list, *)
(* under the block's type, and the list is coalesced again.                    *)
THEOREM InsertLinkTakes ==
  ASSUME NEW Types, NEW list \in Seq(Block(Types)), NEW blk \in Block(Types),
         CanTake(list, blk)
  PROVE  InsertLink(list, blk) \in Seq(Block(Types)) /\ Took(InsertLink(list, blk), list, blk)
<1> DEFINE stops == {i \in 1 .. Len(list) : StopsAt(list[i], blk)}
           i == Min(stops)
<1>1. CASE stops = {}
  <2>1. InsertLink(list, blk) = Append(list, blk)
    BY <1>1 DEF InsertLink
  <2> QED BY <1>1, <2>1, AppendTakes
<1>2. CASE stops # {}
  <2>1. i \in stops /\ \A j \in stops : i <= j
    <3>1. Len(list) \in Nat /\ stops \in SUBSET (1 .. Len(list))
      OBVIOUS
    <3> HIDE DEF stops
    <3> QED BY <1>2, <3>1, FirstPosition
  <2>2. i \in 1 .. Len(list) /\ StopsAt(list[i], blk)
    BY <2>1
  <2>3. \A j \in 1 .. i - 1 : ~StopsAt(list[j], blk)
    <3> TAKE j \in 1 .. i - 1
    <3>1. j \in 1 .. Len(list) /\ ~(i <= j)
      BY <2>2
    <3> QED BY <2>1, <3>1
  <2>4. CASE CanMerge(list[i], blk)
    <3>1. InsertLink(list, blk) = Absorb(list, i, blk)
      BY <1>2, <2>4 DEF InsertLink
    <3> HIDE DEF i
    <3> QED BY <2>2, <2>4, <3>1, AbsorbTakes, AbsorbBothTakes
  <2>5. CASE ~CanMerge(list[i], blk) /\ CanMerge(blk, list[i])
    <3>1. InsertLink(list, blk) = Extend(list, i, blk)
      BY <1>2, <2>5 DEF InsertLink
    <3> HIDE DEF i
    <3> QED BY <2>2, <2>3, <2>5, <3>1, ExtendTakes
  <2>6. CASE ~CanMerge(list[i], blk) /\ ~CanMerge(blk, list[i])
    <3>1. InsertLink(list, blk) = InsertAt(list, i, blk)
      BY <1>2, <2>6 DEF InsertLink
    <3> HIDE DEF i
    <3> QED BY <2>2, <2>3, <2>6, <3>1, InsertTakes
  <2> QED BY <2>4, <2>5, <2>6
<1> QED BY <1>1, <1>2

(* The pages of a list are those one of its blocks holds. *)
LEMMA PagesHeld ==
  ASSUME NEW Types, NEW list \in Seq(Block(Types))
  PROVE  /\ Pages(list) \subseteq Nat
         /\ \A p \in Nat : p \in Pages(list) <=> \E t \in Types : Holds(list, p, t)
<1>1. \A i \in 1 .. Len(list) : list[i] \in Block(Types)
  OBVIOUS
<1>2. \A i \in 1 .. Len(list) : PagesOf(list[i]) \subseteq Nat /\ list[i].type \in Types
  BY <1>1 DEF PagesOf, End, Block
<1> QED BY <1>2 DEF Pages, Holds

(* pmm_insert_link adds the pages of the block, and no others. *)
THEOREM InsertLinkPages ==
  ASSUME NEW Types, NEW list \in Seq(Block(Types)), NEW blk \in Block(Types),
         CanTake(list, blk)
  PROVE  /\ InsertLink(list, blk) \in Seq(Block(Types))
         /\ Coalesced(InsertLink(list, blk))
         /\ Pages(InsertLink(list, blk)) = Pages(list) \cup PagesOf(blk)
<1> DEFINE r == InsertLink(list, blk)
<1>1. r \in Seq(Block(Types)) /\ Took(r, list, blk)
  BY InsertLinkTakes
<1> HIDE DEF r
<1>2. PagesOf(blk) \subseteq Nat /\ blk.type \in Types
  BY DEF PagesOf, End, Block
<1>3. \A p \in Nat : p \in Pages(r) <=> p \in Pages(list) \/ p \in PagesOf(blk)
  BY <1>1, <1>2, PagesHeld DEF Took
<1>4. Pages(r) \subseteq Nat /\ Pages(list) \subseteq Nat
  BY <1>1, PagesHeld
<1>5. Pages(r) = Pages(list) \cup PagesOf(blk)
  BY <1>2, <1>3, <1>4
<1> QED BY <1>1, <1>5 DEF Took, r

(* A page is in one block of a coalesced list.                              *)
LEMMA OneBlockHolds ==
  ASSUME NEW Types, NEW list \in Seq(Block(Types)), Coalesced(list),
         NEW i \in 1 .. Len(list), NEW j \in 1 .. Len(list), i # j
  PROVE  PagesOf(list[i]) \cap PagesOf(list[j]) = {}
<1>1. list[i] \in Block(Types) /\ list[j] \in Block(Types)
  OBVIOUS
<1>2. \/ End(list[i]) < list[j].addr \/ End(list[i]) = list[j].addr
      \/ End(list[j]) < list[i].addr \/ End(list[j]) = list[i].addr
  <2>1. i < j \/ j < i
    OBVIOUS
  <2> QED BY <2>1 DEF Coalesced
<1>3. /\ End(list[i]) \in Nat /\ list[i].addr \in Nat
      /\ End(list[j]) \in Nat /\ list[j].addr \in Nat
  BY <1>1, BlockNumbers
<1> QED BY ONLY <1>2, <1>3 DEF PagesOf

(* pmm_delete_link: the pages of the node leave the list, which stays as    *)
(* merged as it was.                                                        *)
LEMMA DeleteLinkDrops ==
  ASSUME NEW Types, NEW list \in Seq(Block(Types)), Coalesced(list),
         NEW i \in 1 .. Len(list)
  PROVE  LET r == DeleteLink(list, i) IN
         /\ r \in Seq(Block(Types))
         /\ Coalesced(r)
         /\ \A p \in Nat : \A t :
              Holds(r, p, t) <=> Holds(list, p, t) /\ p \notin PagesOf(list[i])
<1> DEFINE r == DeleteLink(list, i)
           n == Len(list)
           k(j) == IF j < i THEN j ELSE j + 1
<1>1. /\ r \in Seq(Block(Types)) /\ Len(r) = n - 1 /\ n \in Nat /\ i \in 1 .. n
      /\ \A j \in 1 .. n - 1 : r[j] = list[k(j)]
  <2>1. list \in Seq(Block(Types)) /\ i \in 1 .. Len(list)
    OBVIOUS
  <2> QED BY <2>1, RemoveAtElements DEF DeleteLink
<1>2. \A j \in 1 .. n : list[j] \in Block(Types) /\ list[j].size > 0
  BY DEF Coalesced
<1>3. \A j \in 1 .. n - 1 : k(j) \in 1 .. n /\ k(j) # i
  BY <1>1
<1>4. \A j \in 1 .. n : j # i => \E l \in 1 .. n - 1 : k(l) = j
  <2> TAKE j \in 1 .. n
  <2>1. CASE j < i
    <3>1. j \in 1 .. n - 1 /\ k(j) = j
      BY <1>1, <2>1
    <3> QED BY <3>1
  <2>2. CASE j > i
    <3>1. j - 1 \in 1 .. n - 1 /\ k(j - 1) = j
      BY <1>1, <2>2
    <3> QED BY <3>1
  <2> QED BY <1>1, <2>1, <2>2
<1>5. \A j, l \in 1 .. n - 1 : j < l => k(j) < k(l)
  BY <1>1
<1> HIDE DEF r, k, n
<1>6. Coalesced(r)
  <2>1. \A j \in 1 .. n - 1 : r[j].size > 0
    BY <1>1, <1>2, <1>3
  <2>2. ASSUME NEW j \in 1 .. n - 1, NEW l \in 1 .. n - 1, j < l
        PROVE  \/ End(r[j]) < r[l].addr
               \/ End(r[j]) = r[l].addr /\ r[j].type # r[l].type
    <3>1. k(j) \in 1 .. n /\ k(l) \in 1 .. n /\ k(j) < k(l)
      BY <1>3, <1>5, <2>2
    <3>2. \/ End(list[k(j)]) < list[k(l)].addr
          \/ End(list[k(j)]) = list[k(l)].addr /\ list[k(j)].type # list[k(l)].type
      BY <3>1 DEF Coalesced, n
    <3> QED BY <1>1, <3>2
  <2> QED BY <1>1, <2>1, <2>2 DEF Coalesced
<1>7. ASSUME NEW p \in Nat, NEW t
      PROVE  Holds(r, p, t) <=> Holds(list, p, t) /\ p \notin PagesOf(list[i])
  <2>1. ASSUME Holds(r, p, t) PROVE Holds(list, p, t) /\ p \notin PagesOf(list[i])
    <3>1. PICK j \in 1 .. n - 1 : p \in PagesOf(r[j]) /\ r[j].type = t
      BY <1>1, <2>1 DEF Holds
    <3>2. /\ k(j) \in 1 .. n /\ k(j) # i
          /\ p \in PagesOf(list[k(j)]) /\ list[k(j)].type = t
      BY <1>1, <1>3, <3>1
    <3>3. PagesOf(list[k(j)]) \cap PagesOf(list[i]) = {}
      BY <1>1, <3>2, OneBlockHolds DEF n
    <3> QED BY <3>2, <3>3 DEF Holds, n
  <2>2. ASSUME Holds(list, p, t), p \notin PagesOf(list[i]) PROVE Holds(r, p, t)
    <3>1. PICK j \in 1 .. n : p \in PagesOf(list[j]) /\ list[j].type = t
      BY <2>2 DEF Holds, n
    <3>2. PICK l \in 1 .. n - 1 : k(l) = j
      BY <1>4, <2>2, <3>1
    <3> QED BY <1>1, <3>1, <3>2 DEF Holds
  <2> QED BY <2>1, <2>2
<1> QED BY <1>1, <1>6, <1>7 DEF r
=============================================================================
