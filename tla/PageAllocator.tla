---------------------------- MODULE PageAllocator ----------------------------
(***************************************************************************)
(* What the physical page allocator promises its callers, without saying   *)
(* how it keeps track: every page it manages is either free or held by     *)
(* exactly one caller, a caller receives a run of consecutive free pages,  *)
(* and what a caller gives back becomes free again.                        *)
(***************************************************************************)
EXTENDS Integers

CONSTANT Page           \* the page numbers of the machine

VARIABLES free, held

vars == <<free, held>>

Init == free = {} /\ held = {}

(* Start-up brings the run first..last of new pages, keeping some of them. *)
Add(first, last, kept) ==
  /\ (first .. last) \cap (free \cup held) = {}
  /\ kept \subseteq first .. last
  /\ free' = free \cup ((first .. last) \ kept)
  /\ held' = held \cup kept

Take(first, last) ==
  /\ first .. last \subseteq free
  /\ free' = free \ (first .. last)
  /\ held' = held \cup (first .. last)

Give(first, last) ==
  /\ first .. last \subseteq held
  /\ free' = free \cup (first .. last)
  /\ held' = held \ (first .. last)

Next ==
  \E first, last \in Page :
    \/ \E kept \in {{}, {first}} : Add(first, last, kept)
    \/ Take(first, last)
    \/ Give(first, last)

Spec == Init /\ [][Next]_vars
=============================================================================
