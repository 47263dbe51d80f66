---------------------------- MODULE MCPageAllocator ----------------------------
(***************************************************************************)
(* The two descriptions of the page allocator on one small machine each.   *)
(* A behaviour is one of PhysicalMemory or, with level = "pool", one of    *)
(* NodePool; the variables of the other one stay as they began.            *)
(*                                                                         *)
(* The list has thirteen pages: a region below the limit, two free regions *)
(* that touch (their blocks must be merged at start-up), a reserved hole,  *)
(* and free memory behind it.  The pool has seven free pages in two        *)
(* regions, the first page for nodes; with six slots a page runs low at    *)
(* the third node, so that the pool grows in the middle of start-up, of    *)
(* carving, of freeing and of other lists' requests.                       *)
(***************************************************************************)
EXTENDS PhysicalMemory, NodePool

VARIABLE level

R(addr, size, free) == [addr |-> addr, size |-> size, free |-> free]

MCRegions ==
  << R(0, 2, TRUE), R(2, 4, TRUE), R(6, 2, TRUE), R(8, 1, FALSE), R(9, 4, TRUE) >>

MCPoolRegions == << R(0, 2, TRUE), R(2, 4, TRUE), R(7, 3, TRUE) >>

MCInit == level \in {"list", "pool"} /\ Init /\ PoolInit

MCNext ==
  \/ level = "list" /\ Next /\ UNCHANGED <<level, poolVars>>
  \/ level = "pool" /\ PoolNext /\ UNCHANGED <<level, vars>>

MCSpec == MCInit /\ [][MCNext]_<<level, vars, poolVars>>
=============================================================================
