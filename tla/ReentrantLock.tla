----------------------------- MODULE ReentrantLock -----------------------------
(***************************************************************************)
(* async_lock and async_unlock of async/async.c, the lock of the console,  *)
(* of vmm_alloc and of every AHCI port.  A step is one access to the lock  *)
(* word by one processor, so that processors interleave, and interrupts    *)
(* strike, between any two of them.                                        *)
(*                                                                         *)
(* calls[c] is the stack of the calls that are between async_lock and the  *)
(* end of async_unlock on processor c, the running one last.  Code inside  *)
(* the lock may take it again (vmm_alloc does, when the node pool grows or *)
(* a page fault is served meanwhile).  Interrupt handlers that take it,    *)
(* wherever they strike, are in module Multiprocessor (they use Enter).    *)
(***************************************************************************)
EXTENDS Integers, Sequences

CONSTANTS
  Cpus,         \* local APIC ids
  MaxCalls      \* bound on the calls nested on one processor

ASSUME LockAssumption ==
  /\ Cpus \subseteq 0 .. 254
  /\ MaxCalls \in Nat \ {0}

VARIABLES
  core,         \* lock->CORE: 0, or one more than the APIC id of the owner
  cont,         \* lock->CONT
  calls         \* the calls in progress on each processor

vars == <<core, cont, calls>>

-----------------------------------------------------------------------------
Me(c) == c + 1

Points == {"compare", "exchange", "count", "inside", "test", "clear"}

Running(c, point) == calls[c] # <<>> /\ calls[c][Len(calls[c])] = point

Goto(c, point) == calls' = [calls EXCEPT ![c][Len(calls[c])] = point]

Return(c) == calls' = [calls EXCEPT ![c] = SubSeq(@, 1, Len(@) - 1)]

Init ==
  /\ core = 0
  /\ cont = 0
  /\ calls = [c \in Cpus |-> <<>>]

Enter(c) ==
  /\ Len(calls[c]) < MaxCalls
  /\ calls' = [calls EXCEPT ![c] = Append(@, "compare")]
  /\ UNCHANGED <<core, cont>>

(* async_lock is called, outside the lock or from inside. *)
Call(c) ==
  /\ calls[c] = <<>> \/ Running(c, "inside")
  /\ Enter(c)

(* A lock that its owner enters only once: a handler waits for its own      *)
(* thread.                                                                  *)
CompareUncounted(c) ==
  /\ Running(c, "compare")
  /\ Goto(c, IF core = Me(c) /\ cont = 0 THEN "count" ELSE "exchange")
  /\ UNCHANGED <<core, cont>>

(* while (core != lock->CORE) *)
Compare(c) ==
  /\ Running(c, "compare")
  /\ Goto(c, IF core = Me(c) THEN "count" ELSE "exchange")
  /\ UNCHANGED <<core, cont>>

(* A plain exchange, that takes the lock from its owner ... *)
ExchangeAlways(c) ==
  /\ Running(c, "exchange")
  /\ core' = Me(c)
  /\ Goto(c, "compare")
  /\ UNCHANGED cont

(* _InterlockedCompareExchange16, whose result is not looked at. *)
Exchange(c) ==
  /\ Running(c, "exchange")
  /\ core' = IF core = 0 THEN Me(c) ELSE core
  /\ Goto(c, "compare")
  /\ UNCHANGED cont

(* lock->CONT++ *)
Count(c) ==
  /\ Running(c, "count")
  /\ cont' = cont + 1
  /\ Goto(c, "inside")
  /\ UNCHANGED core

(* async_unlock: lock->CONT-- *)
Uncount(c) ==
  /\ Running(c, "inside")
  /\ cont' = cont - 1
  /\ Goto(c, "test")
  /\ UNCHANGED core

(* The test made with the count as it was before the decrement. *)
TestsOldCount(c) ==
  /\ Running(c, "test")
  /\ IF cont = 1 THEN Goto(c, "clear") ELSE Return(c)
  /\ UNCHANGED <<core, cont>>

(* if (!lock->CONT) *)
Test(c) ==
  /\ Running(c, "test")
  /\ IF cont = 0 THEN Goto(c, "clear") ELSE Return(c)
  /\ UNCHANGED <<core, cont>>

(* An unlock that leaves CORE as it is. *)
ClearKeepsOwner(c) ==
  /\ Running(c, "clear")
  /\ Return(c)
  /\ UNCHANGED <<core, cont>>

(* lock->CORE = 0 *)
Clear(c) ==
  /\ Running(c, "clear")
  /\ core' = 0
  /\ Return(c)
  /\ UNCHANGED cont

Step(c) ==
  Compare(c) \/ Exchange(c) \/ Count(c) \/ Uncount(c) \/ Test(c) \/ Clear(c)

Next == \E c \in Cpus : Call(c) \/ Step(c)

Spec == Init /\ [][Next]_vars

(* A processor keeps executing, and code inside the lock leaves it; nothing *)
(* decides who wins an exchange, and nobody has to call again.              *)
FairSpec == Spec /\ \A c \in Cpus : WF_vars(Step(c))

-----------------------------------------------------------------------------
TypeOK ==
  /\ core \in {0} \cup {Me(c) : c \in Cpus}
  /\ cont \in Int
  /\ calls \in [Cpus -> Seq(Points)]

Inside(c) == \E i \in 1 .. Len(calls[c]) : calls[c][i] = "inside"

(* Two processors are never inside the lock together, whatever the nesting: *)
(* the inner unlock does not let go of what the outer call still needs.     *)
MutualExclusion == \A c, d \in Cpus : Inside(c) /\ Inside(d) => c = d

(* When nobody is in a call the lock is as it was at the start: neither a   *)
(* count nor an owner is left behind, whatever interrupted whom.            *)
LeftFree == (\A c \in Cpus : calls[c] = <<>>) => core = 0 /\ cont = 0

(* A processor that waits is not waiting for nothing: somebody gets in.     *)
Progress ==
  \A c \in Cpus : (Running(c, "compare") ~> \E d \in Cpus : Inside(d))
=============================================================================
