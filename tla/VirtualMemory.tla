----------------------------- MODULE VirtualMemory -----------------------------
(***************************************************************************)
(* The address space of a process, in mm/vmm.c: VMMA, a block list that    *)
(* covers the whole range with blocks of three types, changed by           *)
(* virtual_alloc (vmm_alloc with virt = 1); the page tables, which         *)
(* virtual_mapping fills and vmm_uncommit empties; and the page fault,     *)
(* INT0E, which gives a committed page its memory when it is touched.      *)
(*                                                                         *)
(* A call is one step: it runs under VMM_LOCK, and the process that makes  *)
(* it stands still.  Page frames come from the allocator of PhysicalMemory,*)
(* whose answer for one page is the lowest free one, and 0 for none.       *)
(***************************************************************************)
EXTENDS BlockList, FiniteSets

CONSTANTS
  FirstPage, LastPage,  \* the range: 0x1000 >> 12, and 0x7FFFFFFFF
  Counts,               \* the page counts callers ask for
  Frames,               \* page frames free when the process is created
  TableSpan             \* pages one page table maps, 512

ASSUME RangeAssumption ==
  /\ FirstPage \in Nat \ {0} /\ LastPage \in Nat /\ FirstPage <= LastPage
  /\ Counts \subseteq Nat \ {0}
  /\ Frames \subseteq Nat \ {0}
  /\ TableSpan \in Nat \ {0}

VARIABLES
  vmma,         \* VMMA, as the sequence of its blocks
  entry,        \* the page table entry of each page: a frame, or Absent
  table,        \* the frame of each page table, or Absent
  free,         \* free page frames
  status        \* "running", or how the kernel came to a standstill

vars == <<vmma, entry, table, free, status>>

-----------------------------------------------------------------------------
FREE    == 0
RESERVE == 1
COMMIT  == 2

Page   == FirstPage .. LastPage
Tables == {p \div TableSpan : p \in Page}
Absent == -1

Region(addr, size, type) == [addr |-> addr, size |-> size, type |-> type]

(* The type a call leaves. *)
Stored(call, type) ==
  CASE call = "RESERVE"             -> RESERVE
    [] call \in {"COMMIT", "COMMITXF"} -> COMMIT
    [] call = "UNCOMMIT"            -> IF type # FREE THEN RESERVE ELSE FREE
    [] call = "FREE"                -> FREE

(* The type a block must have for vmm_alloc not to pass it. *)
Wanted(call) == IF call = "COMMIT" THEN RESERVE ELSE FREE

From(node, hint) == IF node.addr < hint THEN hint ELSE node.addr

Candidates(list, call, hint, count) ==
  {i \in 1 .. Len(list) :
     /\ list[i].type = Wanted(call)
     /\ From(list[i], hint) + count <= End(list[i])}

(* What is behind the changed pages becomes of the new type too, ...        *)
RetypeAll(list, i, start, count, type) ==
  LET node  == list[i]
      left  == Region(node.addr, start - node.addr, node.type)
      mid   == Region(start, End(node) - start, type)
      rest  == DeleteLink(list, i)
      lower == IF left.size > 0 THEN InsertLink(rest, left) ELSE rest
  IN  InsertLink(lower, mid)

(* ... or, in the code, is a block of its own: the node is deleted, and     *)
(* what was before the pages, the pages, and what was behind them are       *)
(* inserted one after the other.                                            *)
Retype(list, i, start, count, type) ==
  LET node  == list[i]
      left  == Region(node.addr, start - node.addr, node.type)
      right == Region(start + count, End(node) - start - count, node.type)
      rest  == DeleteLink(list, i)
      lower == IF left.size > 0 THEN InsertLink(rest, left) ELSE rest
      mid   == InsertLink(lower, Region(start, count, type))
  IN  IF right.size > 0 THEN InsertLink(mid, right) ELSE mid

-----------------------------------------------------------------------------
(* create_process: vmm_free(&VMMA, 0x1000, 0x7FFFFFFFF). *)
Init ==
  /\ vmma = <<Region(FirstPage, LastPage - FirstPage + 1, FREE)>>
  /\ entry = [p \in Page |-> Absent]
  /\ table = [t \in Tables |-> Absent]
  /\ free = Frames
  /\ status = "running"

(* virtual_alloc from hint on: the first block that fits.                   *)
Place(call, hint, count) ==
  /\ status = "running"
  /\ LET i == Min(Candidates(vmma, call, hint, count))
     IN  /\ Candidates(vmma, call, hint, count) # {}
         /\ vmma' = Retype(vmma, i, From(vmma[i], hint), count, Stored(call, vmma[i].type))
  /\ UNCHANGED <<entry, table, free, status>>

(* No block fits: the answer is 1 and the address 0. *)
PlaceFails(call, hint, count) ==
  /\ status = "running"
  /\ Candidates(vmma, call, hint, count) = {}
  /\ UNCHANGED vars

(* one that does not give the frames back, ... *)
UncommitLeaks(run) ==
  /\ entry' = [p \in Page |-> IF p \in run THEN Absent ELSE entry[p]]
  /\ UNCHANGED free

(* ... and the code's, page by page. *)
Uncommit(run) ==
  /\ free' = free \cup ({entry[p] : p \in run} \ {Absent})
  /\ entry' = [p \in Page |-> IF p \in run THEN Absent ELSE entry[p]]

(* VMM_TYPE_UNCOMMIT and VMM_TYPE_FREE, for pages of one block: what all    *)
(* callers ask for (heap_free, of its one committed region).                *)
Withdraw(call, addr, count) ==
  /\ status = "running"
  /\ LET run == addr .. (addr + count - 1)
     IN  \E i \in 1 .. Len(vmma) :
           /\ run \subseteq PagesOf(vmma[i])
           /\ vmma' = IF call = "FREE" /\ vmma[i].type = FREE THEN vmma
                      ELSE Retype(vmma, i, addr, count, Stored(call, vmma[i].type))
           /\ IF vmma[i].type = COMMIT THEN Uncommit(run) ELSE UNCHANGED <<entry, free>>
  /\ UNCHANGED <<table, status>>

-----------------------------------------------------------------------------
(* alloc_physical_memory(1, 0). *)
Lowest(frames) == IF frames = {} THEN 0 ELSE Min(frames)

Missing(p) == table[p \div TableSpan] = Absent

(* INT0E for a page without an entry.  The frame of the page is taken       *)
(* before that of a table for it.  With no frame left the answer 0 is       *)
(* mapped like any other.                                                   *)
Fault(p) ==
  /\ status = "running"
  /\ entry[p] = Absent
  /\ Holds(vmma, p, COMMIT)
  /\ LET frame == Lowest(free)
         rest  == free \ {frame}
     IN  /\ Missing(p) => rest # {}
         /\ entry' = [entry EXCEPT ![p] = frame]
         /\ IF Missing(p)
            THEN /\ table' = [table EXCEPT ![p \div TableSpan] = Lowest(rest)]
                 /\ free' = rest \ {Lowest(rest)}
            ELSE free' = rest /\ UNCHANGED table
  /\ UNCHANGED <<vmma, status>>

(* No frame for the table: page 0 of the machine becomes one.  What follows *)
(* is not modelled.                                                         *)
FaultWild(p) ==
  /\ status = "running"
  /\ entry[p] = Absent
  /\ Holds(vmma, p, COMMIT)
  /\ Missing(p) /\ free \ {Lowest(free)} = {}
  /\ status' = "wild"
  /\ UNCHANGED <<vmma, entry, table, free>>

Panic(p) ==
  /\ status = "running"
  /\ entry[p] = Absent
  /\ ~Holds(vmma, p, COMMIT)
  /\ status' = "panic"
  /\ UNCHANGED <<vmma, entry, table, free>>

Next ==
  \/ \E call \in {"RESERVE", "COMMIT", "COMMITXF"}, hint \in Page, count \in Counts :
       Place(call, hint, count) \/ PlaceFails(call, hint, count)
  \/ \E call \in {"UNCOMMIT", "FREE"}, addr \in Page, count \in Counts :
       Withdraw(call, addr, count)
  \/ \E p \in Page : Fault(p) \/ FaultWild(p) \/ Panic(p)

Spec == Init /\ [][Next]_vars

-----------------------------------------------------------------------------
(* Every variable has its type.                                             *)
TypeOK ==
  /\ vmma \in Seq(Block({FREE, RESERVE, COMMIT}))
  /\ entry \in [Page -> Frames \cup {0, Absent}]
  /\ table \in [Tables -> Frames \cup {0, Absent}]
  /\ free \subseteq Frames \cup {0}
  /\ status \in {"running", "panic", "wild"}

(* The list covers the range without a gap, and two blocks of one type are  *)
(* never neighbours, whatever was reserved, committed and given back: the   *)
(* three insertions of vmm_alloc find the neighbours to merge with.         *)
Tiled ==
  /\ Coalesced(vmma)
  /\ Pages(vmma) = Page

(* virtual_alloc refuses only when there is no such run of pages from the   *)
(* hint on: no run is hidden by being cut in two blocks.                    *)
RefusalHonest ==
  \A call \in {"RESERVE", "COMMIT"}, hint \in Page, count \in Counts :
    Candidates(vmma, call, hint, count) = {} =>
      ~ \E addr \in hint .. LastPage : \A p \in addr .. (addr + count - 1) :
          Holds(vmma, p, Wanted(call))

(* Every frame is free, or a page table, or mapped at one page: giving      *)
(* pages back frees each of their frames once, also when a call covers      *)
(* pages that were never touched.                                           *)
FramesConserved ==
  \A f \in Frames :
    Cardinality({p \in Page : entry[p] = f}) + Cardinality({t \in Tables : table[t] = f})
      + (IF f \in free THEN 1 ELSE 0) = 1

(* The list of typed blocks covers the space without a gap or an overlap,   *)
(* merged, every frame is free, in one place of the tables, or a table, and *)
(* a call is refused only when there is no such run of pages.               *)
SpaceSound == TypeOK /\ Tiled /\ FramesConserved /\ RefusalHonest

(* A process's view of the list and of the page tables is the abstract one. *)
Abstract == INSTANCE AddressSpace WITH
  kind   <- [p \in Page |-> CHOOSE type \in {FREE, RESERVE, COMMIT} : Holds(vmma, p, type)],
  backed <- {p \in Page : entry[p] # Absent}

ImplementsAddressSpace == Abstract!Spec
=============================================================================
