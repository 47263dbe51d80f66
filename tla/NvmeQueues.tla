------------------------------- MODULE NvmeQueues -------------------------------
(***************************************************************************)
(* A pair of NVM Express queues, with which the driver gives a command to  *)
(* the controller (nvm_express_submission) and then waits for the answer   *)
(* (nvm_express_completion), one command at a time.  The driver tells the  *)
(* controller how far it has come by a doorbell; the controller tells the  *)
(* driver by the phase of a completion, which changes every round.         *)
(***************************************************************************)
EXTENDS Integers, Sequences

CONSTANTS
  SqSize,       \* SIZE of the submission queue, its last index: 63
  CqSize,       \* SIZE of the completion queue, its last index: 255
  Ids           \* one more than the last command id: 0xFFFF

ASSUME QueuesAssumption ==
  SqSize \in Nat \ {0} /\ CqSize \in Nat \ {0} /\ Ids \in Nat \ {0, 1}

VARIABLES
  sq,           \* the driver's side of the submission queue, and its ring
  cq,           \* the driver's side of the completion queue, and its ring
  ctrl,         \* the controller: its head, tail, phase, and what it executes
  asked,        \* the id nvm_express_transfer waits for, or 0
  answered      \* the id of the completion that came last

queueVars == <<sq, cq, ctrl, asked, answered>>

-----------------------------------------------------------------------------
Completion(coid, phas) == [coid |-> coid, phas |-> phas]

SubmissionQueue ==
  [ring |-> [i \in 0 .. SqSize |-> 0], bell |-> 0, coid |-> 0, indx |-> 0]

CompletionQueue ==
  [ring |-> [i \in 0 .. CqSize |-> Completion(0, 0)], bell |-> 0, indx |-> 0, cycl |-> 1]

QInit ==
  /\ sq = SubmissionQueue
  /\ cq = CompletionQueue
  /\ ctrl = [head |-> 0, tail |-> 0, phas |-> 1, runs |-> 0]
  /\ asked = 0
  /\ answered = 0

(* Neither 0 nor Ids is an id; COID counts on from the last one.            *)
NextId == IF sq.coid + 1 = Ids THEN 1 ELSE sq.coid + 1

(* A ring whose last entry is left out although the controller uses it, ... *)
StepsShort(i, size) == IF i >= size - 1 THEN 0 ELSE i + 1

(* and one used to its end.                                                 *)
Steps(i, size) == IF i >= size THEN 0 ELSE i + 1

Submission ==
  /\ asked = 0
  /\ sq' = [ring |-> [sq.ring EXCEPT ![sq.indx] = NextId], coid |-> NextId,
            indx |-> Steps(sq.indx, SqSize), bell |-> Steps(sq.indx, SqSize)]
  /\ asked' = NextId
  /\ UNCHANGED <<cq, ctrl, answered>>

HasCompletion == cq.ring[cq.indx].phas = cq.cycl

(* The id is only compared after the completion is taken.                   *)
CompletionTaken ==
  /\ asked # 0 /\ HasCompletion
  /\ cq' = [cq EXCEPT !.indx = Steps(@, CqSize), !.bell = Steps(cq.indx, CqSize),
                      !.cycl = IF cq.indx = CqSize THEN 1 - @ ELSE @]
  /\ answered' = cq.ring[cq.indx].coid
  /\ asked' = 0
  /\ UNCHANGED <<sq, ctrl>>

(* The controller: takes a command, and answers if there is room.           *)
TakeCommand ==
  /\ ctrl.runs = 0 /\ ctrl.head # sq.bell
  /\ ctrl' = [ctrl EXCEPT !.runs = sq.ring[ctrl.head],
                          !.head = IF @ = SqSize THEN 0 ELSE @ + 1]
  /\ UNCHANGED <<sq, cq, asked, answered>>

After(tail) == IF tail = CqSize THEN 0 ELSE tail + 1

PostCompletion ==
  /\ ctrl.runs # 0 /\ After(ctrl.tail) # cq.bell
  /\ cq' = [cq EXCEPT !.ring[ctrl.tail] = Completion(ctrl.runs, ctrl.phas)]
  /\ ctrl' = [ctrl EXCEPT !.runs = 0, !.tail = After(@),
                          !.phas = IF ctrl.tail = CqSize THEN 1 - @ ELSE @]
  /\ UNCHANGED <<sq, asked, answered>>

QNext == Submission \/ CompletionTaken \/ TakeCommand \/ PostCompletion

QSpec == QInit /\ [][QNext]_queueVars

-----------------------------------------------------------------------------
(* A command is answered by its own completion and by no other, round after *)
(* round of either queue and of the ids: nvm_express_transfer has no cause  *)
(* to return 2, and an answer is never looked at twice.                     *)
Asked == IF asked = 0 THEN <<>> ELSE <<asked>>

AbstractQueue == INSTANCE Fifo WITH
  Request <- 1 .. Ids - 1, Capacity <- 1, Nothing <- 0,
  queue <- Asked, taken <- answered

ImplementsFifo == AbstractQueue!Spec
=============================================================================
