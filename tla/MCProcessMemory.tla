---------------------------- MODULE MCProcessMemory ----------------------------
(***************************************************************************)
(* The memory of a process: its address space, and the heap it keeps in a  *)
(* range of it.  A behaviour is one of VirtualMemory or, with part =       *)
(* "heap", one of Heap (which is also that of the kernel); the variables   *)
(* of the other one stay as they began.                                    *)
(***************************************************************************)
EXTENDS VirtualMemory, Heap

VARIABLE part

MCInit == part \in {"space", "heap"} /\ Init /\ HeapInit

MCNext ==
  \/ part = "space" /\ Next /\ UNCHANGED <<part, heapVars>>
  \/ part = "heap" /\ HeapNext /\ UNCHANGED <<part, vars>>

MCSpec == MCInit /\ [][MCNext]_<<part, vars, heapVars>>
=============================================================================
