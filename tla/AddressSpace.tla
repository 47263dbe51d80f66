----------------------------- MODULE AddressSpace -----------------------------
(***************************************************************************)
(* What a process may rely on: every page of its range is free, reserved   *)
(* or committed, a call changes a run of pages that were all alike and no  *)
(* other page, and only committed pages ever have memory behind them.      *)
(***************************************************************************)
EXTENDS Integers

CONSTANT Page           \* the page numbers of the range

VARIABLES
  kind,                 \* 0, 1 or 2: VMM_TYPE_FREE, _RESERVE, _COMMIT
  backed                \* pages with memory behind them

vars == <<kind, backed>>

Init == kind = [p \in Page |-> 0] /\ backed = {}

(* The runs a call may change, and what it makes of them. *)
Changes == {<<0, 1>>, <<1, 2>>, <<0, 2>>, <<2, 1>>, <<1, 0>>, <<2, 0>>}

Change(first, last, change) ==
  /\ first .. last \subseteq Page
  /\ \A p \in first .. last : kind[p] = change[1]
  /\ kind' = [p \in Page |-> IF p \in first .. last THEN change[2] ELSE kind[p]]
  /\ backed' = IF change[1] = 2 THEN backed \ (first .. last) ELSE backed

Back(p) ==
  /\ kind[p] = 2
  /\ backed' = backed \cup {p}
  /\ UNCHANGED kind

Next ==
  \/ \E first, last \in Page, change \in Changes :
       first <= last /\ Change(first, last, change)
  \/ \E p \in Page : Back(p)

Spec == Init /\ [][Next]_vars
=============================================================================
