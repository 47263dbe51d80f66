------------------------------ MODULE BlockList ------------------------------
(***************************************************************************)
(* The memory block list of mm/pmm.c.  The program keeps physical memory   *)
(* and the address space of every process as a doubly linked list of       *)
(* LINEAR_MEMORY_BLOCK nodes; here a list is the sequence of its blocks in *)
(* NEXT order, so that PREV and NEXT are the neighbours in the sequence.   *)
(*                                                                         *)
(* Addresses and sizes are counted in 4K pages.  A block may carry more    *)
(* fields than the ones used here (module NodePool adds the slot its node  *)
(* lives in): the operators change addr and size of the surviving node and *)
(* leave its other fields alone, as the code does.                         *)
(***************************************************************************)
EXTENDS Integers, Sequences, SequencesExt

(* A block with the type of its XDAT byte.  VALD is 1 in every listed node. *)
Block(Types) == [addr : Nat, size : Nat, type : Types]

End(b) == b.addr + b.size

PagesOf(b) == b.addr .. (End(b) - 1)

Pages(list) == UNION {PagesOf(list[i]) : i \in 1 .. Len(list)}

-----------------------------------------------------------------------------
(* A merge test that leaves blocks apart when they only touch (< for <=). *)
MergesOverlapOnly(dst, src) ==
  /\ dst.type = src.type
  /\ dst.addr <= src.addr
  /\ src.addr < End(dst)

(* pmm_merge(dst, src): same type, and src starts inside dst or at its end. *)
CanMerge(dst, src) ==
  /\ dst.type = src.type
  /\ dst.addr <= src.addr
  /\ src.addr <= End(dst)

(* The size dst gets when it swallows src. *)
MergedSize(dst, src) ==
  (IF End(dst) > End(src) THEN End(dst) ELSE End(src)) - dst.addr

(* The node at which the scan of pmm_insert_link stops for a new block. *)
StopsAt(node, blk) == CanMerge(node, blk) \/ node.addr >= blk.addr

(* node swallows blk; then the node after it, when the two now touch. *)
Absorb(list, i, blk) ==
  LET node   == [list[i] EXCEPT !.size = MergedSize(list[i], blk)]
      joined == [list EXCEPT ![i] = node]
  IN  IF i < Len(list) /\ CanMerge(node, list[i + 1])
      THEN RemoveAt([list EXCEPT ![i].size = MergedSize(node, list[i + 1])], i + 1)
      ELSE joined

(* An Extend that updates SIZE and leaves ADDR (line 49 missing). *)
ExtendKeepsAddr(list, i, blk) == [list EXCEPT ![i].size = MergedSize(blk, list[i])]

(* blk swallows the node, which takes the place of blk and keeps its links. *)
Extend(list, i, blk) ==
  [list EXCEPT ![i].addr = blk.addr, ![i].size = MergedSize(blk, list[i])]

(* pmm_insert_link: the scan, and the four ways it can end. *)
InsertLink(list, blk) ==
  LET stops == {i \in 1 .. Len(list) : StopsAt(list[i], blk)}
      i     == Min(stops)
  IN  CASE stops = {}             -> Append(list, blk)
        [] stops # {} /\ CanMerge(list[i], blk) -> Absorb(list, i, blk)
        [] stops # {} /\ ~CanMerge(list[i], blk) /\ CanMerge(blk, list[i])
                                  -> Extend(list, i, blk)
        [] OTHER                  -> InsertAt(list, i, blk)

(* pmm_delete_link. *)
DeleteLink(list, i) == RemoveAt(list, i)

(* The blocks whose nodes pmm_insert_link hands to freeNode on the way.     *)
FreedByInsert(list, blk) ==
  LET stops == {i \in 1 .. Len(list) : StopsAt(list[i], blk)}
      i     == Min(stops)
  IN  IF stops = {} THEN {}
      ELSE IF CanMerge(list[i], blk) THEN
        {blk} \cup {list[j] : j \in {k \in {i + 1} \cap 1 .. Len(list) :
                   CanMerge([list[i] EXCEPT !.size = MergedSize(list[i], blk)], list[k])}}
      ELSE IF CanMerge(blk, list[i]) THEN {blk}
      ELSE {}

-----------------------------------------------------------------------------
(* The search of vmm_alloc for count pages (its path with virt = 0).        *)
(* allocAddr += (1 << align) - 1; allocAddr &= ~((1 << align) - 1).         *)
RoundUp(addr, align) == ((addr + align - 1) \div align) * align

(* The node holds count pages from its first aligned address on. *)
Fits(node, count, align) == RoundUp(node.addr, align) + count <= End(node)

(* The nodes vmm_alloc does not skip; it takes the first of them. *)
Fitting(list, count, align) == {i \in 1 .. Len(list) : Fits(list[i], count, align)}

FirstFit(list, count, align) == Min(Fitting(list, count, align))

-----------------------------------------------------------------------------
(* Ascending, never overlapping, and no two neighbours left that pmm_merge   *)
(* would join: blocks may touch only when their types differ.               *)
Coalesced(list) ==
  /\ \A i \in 1 .. Len(list) : list[i].size > 0
  /\ \A i, j \in 1 .. Len(list) : i < j =>
       \/ End(list[i]) < list[j].addr
       \/ End(list[i]) = list[j].addr /\ list[i].type # list[j].type

(* Page p belongs to a block of the given type. *)
Holds(list, p, type) ==
  \E i \in 1 .. Len(list) : p \in PagesOf(list[i]) /\ list[i].type = type
=============================================================================
