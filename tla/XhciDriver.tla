------------------------------- MODULE XhciDriver -------------------------------
(***************************************************************************)
(* The xHCI driver at work: the kernel's thread, which queues a command or *)
(* a control transfer and waits for its completion (xhci_send_command,     *)
(* xhci_transfer), the interrupt handler, which takes events off the event *)
(* ring and hands them on (xhci_interrupt, xhc_event_ring_process), the    *)
(* keyboard's callback, which queues the next request from inside the      *)
(* handler, and the controller.                                            *)
(*                                                                         *)
(* The handler runs on the processor of the thread, so the thread stands   *)
(* still while it runs; the controller goes on between any two steps of    *)
(* either.  The rings are sequences here: module XhcRing shows that the    *)
(* rings of xhc_ring.c are.                                                *)
(***************************************************************************)
EXTENDS Integers, Sequences, FiniteSets

CONSTANTS
  Waited,       \* rings the thread waits on: commands, control transfers
  Stages,       \* TRBs of a control transfer, 2 without data or 3 with
  EventRoom     \* events the event ring can hold

ASSUME DriverAssumption ==
  /\ Waited \subseteq {"command", "control"} /\ Waited # {}
  /\ Stages \in 2 .. 3 /\ EventRoom \in Nat \ {0}

VARIABLES
  prompt,       \* the controller stops looking at a ring when it is empty
  ring,         \* the TRBs queued and not yet fetched, of each ring
  comp,         \* COMP of each ring: the completion of its last request
  rung,         \* the controller looks at the ring
  halted,       \* rings whose endpoint stopped at an error
  event,        \* events posted and not yet popped
  popped,       \* events popped since the controller was told so
  notify,       \* events were posted that no interrupt was sent for
  busy,         \* EHBS: no further interrupt until it is cleared
  irr,          \* an interrupt waits to be taken by the processor
  changed,      \* the root port has change bits set that nobody acknowledged
  thread,       \* where the thread is, on which ring, and what it asks for
  keyboard,     \* "off", "on", or "failed" after an error
  handler       \* where the interrupt handler is

controller == <<prompt, halted>>
events == <<event, popped, notify>>
lines  == <<busy, irr, changed>>
vars == <<ring, comp, rung, controller, events, lines, thread, keyboard, handler>>

-----------------------------------------------------------------------------
Rings == Waited \cup {"keyboard"}

(* Only the last TRB of a transfer asks for an event (IONC).                *)
Length(r) == IF r = "control" THEN Stages ELSE 1

(* Requests carry one of two marks in turn, to tell a late answer.          *)
Marks == {"ask0", "ask1"}
Other(mark) == CHOOSE m \in Marks : m # mark

(* The stages of a control transfer; commands and normal TRBs ask for an    *)
(* event, or get one without asking.                                        *)
SetupStage(mark) == [ask |-> mark, ioc |-> FALSE]
DataStage(mark) == [ask |-> mark, ioc |-> FALSE]
StatusStage(mark) == [ask |-> mark, ioc |-> TRUE]
Normal(mark) == [ask |-> mark, ioc |-> TRUE]
CommandTrb(mark) == [ask |-> mark, ioc |-> TRUE]

Trb(r, mark, left) ==
  IF r = "command" THEN CommandTrb(mark)
  ELSE IF left = Stages THEN SetupStage(mark)
  ELSE IF left > 1 THEN DataStage(mark) ELSE StatusStage(mark)

(* A completion: of which request, and whether the code is success.  The    *)
(* code 0 stands for no completion.                                         *)
Completion(mark, good) == [ask |-> mark, good |-> good]
None == Completion("none", TRUE)

(* A transfer event names slot and endpoint, which is to name the ring.     *)
TransferEvent(r, completion) == [ring |-> r, answer |-> completion]
CommandCompletion(completion) == [ring |-> "command", answer |-> completion]
PortStatusChange == [ring |-> "port", answer |-> None]

Report(r, completion) ==
  IF r = "command" THEN CommandCompletion(completion) ELSE TransferEvent(r, completion)

Init ==
  /\ prompt \in BOOLEAN
  /\ ring = [r \in Rings |-> <<>>]
  /\ comp = [r \in Rings |-> None]
  /\ rung = [r \in Rings |-> FALSE]
  /\ halted = {}
  /\ event = <<>> /\ popped = 0 /\ notify = FALSE
  /\ busy = FALSE /\ irr = FALSE /\ changed = FALSE
  /\ thread = [at |-> "idle", ring |-> "keyboard", ask |-> "ask0", left |-> 0]
  /\ keyboard = "off"
  /\ handler = "off"

-----------------------------------------------------------------------------
(* The thread. *)
Runs(at) == handler = "off" /\ thread.at = at

(* All callers give a device up whose control transfer failed.              *)
Begin(r) ==
  /\ Runs("idle")
  /\ r \notin halted
  /\ thread' = [at |-> "queue", ring |-> r, ask |-> Other(thread.ask), left |-> Length(r)]
  /\ UNCHANGED <<ring, comp, rung, controller, events, lines, keyboard, handler>>

QueueTrb ==
  /\ Runs("queue")
  /\ ring' = [ring EXCEPT ![thread.ring] = Append(@, Trb(thread.ring, thread.ask, thread.left))]
  /\ thread' = [thread EXCEPT !.left = @ - 1, !.at = IF thread.left = 1 THEN "clear" ELSE @]
  /\ UNCHANGED <<comp, rung, controller, events, lines, keyboard, handler>>

(* A driver that does not clear the last completion ... *)
ClearNothing ==
  /\ Runs("clear")
  /\ thread' = [thread EXCEPT !.at = "doorbell"]
  /\ UNCHANGED <<ring, comp, rung, controller, events, lines, keyboard, handler>>

(* CCOD = 0, with the request already in the ring. *)
ClearCompletion ==
  /\ Runs("clear")
  /\ comp' = [comp EXCEPT ![thread.ring] = None]
  /\ thread' = [thread EXCEPT !.at = "doorbell"]
  /\ UNCHANGED <<ring, rung, controller, events, lines, keyboard, handler>>

RingDoorbell ==
  /\ Runs("doorbell")
  /\ rung' = [rung EXCEPT ![thread.ring] = TRUE]
  /\ thread' = [thread EXCEPT !.at = "wait"]
  /\ UNCHANGED <<ring, comp, controller, events, lines, keyboard, handler>>

(* while (!comp->CCOD) delay(1), and the answer is copied. *)
Answered ==
  /\ Runs("wait")
  /\ comp[thread.ring] # None
  /\ thread' = [thread EXCEPT !.at = "idle"]
  /\ UNCHANGED <<ring, comp, rung, controller, events, lines, keyboard, handler>>

(* xhci_transfer without waiting: one step, because the controller does not *)
(* look at this ring before its first doorbell, and nothing interrupts the  *)
(* handler, from where it is called later.                                  *)
ListenForKeys ==
  /\ ring' = [ring EXCEPT !["keyboard"] = Append(@, Normal("ask0"))]
  /\ comp' = [comp EXCEPT !["keyboard"] = None]
  /\ rung' = [rung EXCEPT !["keyboard"] = TRUE]

(* The end of xhci_usb_keyboard_setup: the callback is called by hand, with *)
(* CCOD set to success before.                                              *)
SetupKeyboard ==
  /\ Runs("idle")
  /\ keyboard = "off"
  /\ keyboard' = "on"
  /\ ListenForKeys
  /\ UNCHANGED <<controller, events, lines, thread, handler>>

-----------------------------------------------------------------------------
(* The interrupt handler. *)
Enter ==
  /\ handler = "off" /\ irr
  /\ irr' = FALSE
  /\ handler' = "pop"
  /\ UNCHANGED <<ring, comp, rung, controller, events, busy, changed, thread, keyboard>>

PopEvent ==
  /\ handler = "pop" /\ event # <<>>
  /\ event' = Tail(event)
  /\ popped' = popped + 1

(* A completion is handed to its ring; with CALL set the callback follows.  *)
HandleCompletion ==
  /\ PopEvent
  /\ Head(event).ring # "port"
  /\ comp' = [comp EXCEPT ![Head(event).ring] = Head(event).answer]
  /\ handler' = IF Head(event).ring = "keyboard" THEN "call" ELSE "pop"
  /\ UNCHANGED <<ring, rung, controller, notify, lines, thread, keyboard>>

(* The change bits are acknowledged; the port's status is not kept here.    *)
HandlePortChange ==
  /\ PopEvent
  /\ Head(event).ring = "port"
  /\ changed' = FALSE
  /\ UNCHANGED <<ring, comp, rung, controller, notify, busy, irr, thread, keyboard, handler>>

(* The callback listens again whatever the completion code ... *)
CallbackAlways ==
  /\ handler = "call"
  /\ handler' = "pop"
  /\ keyboard' = IF ~comp["keyboard"].good THEN "failed" ELSE keyboard
  /\ ListenForKeys
  /\ UNCHANGED <<controller, events, lines, thread>>

(* ... or, as it does, only when there was no error.                        *)
Callback ==
  /\ handler = "call"
  /\ handler' = "pop"
  /\ IF ~comp["keyboard"].good
     THEN keyboard' = "failed" /\ UNCHANGED <<ring, comp, rung>>
     ELSE ListenForKeys /\ UNCHANGED keyboard
  /\ UNCHANGED <<controller, events, lines, thread>>

(* A handler that takes one event per interrupt ...                         *)
LeaveAfterOne ==
  /\ handler = "pop" /\ (event = <<>> \/ popped > 0)
  /\ handler' = "pointer"
  /\ UNCHANGED <<ring, comp, rung, controller, events, lines, thread, keyboard>>

(* ... and the code's, which leaves when there is no event; one may still   *)
(* come before the pointer is written.                                      *)
NoEventLeft ==
  /\ handler = "pop" /\ event = <<>>
  /\ handler' = "pointer"
  /\ UNCHANGED <<ring, comp, rung, controller, events, lines, thread, keyboard>>

(* A handler that forgets to tell the controller how far it has come ...    *)
WriteNoPointer ==
  /\ handler = "pointer"
  /\ busy' = FALSE
  /\ handler' = "clear"
  /\ UNCHANGED <<ring, comp, rung, controller, events, irr, changed, thread, keyboard>>

(* ... and the code's.  ERDP and EHBS are fields of one register: writing   *)
(* the pointer writes back the busy bit that was read, which clears it.     *)
(* The controller forgets its pending interrupt when the ring is empty.     *)
WritePointer ==
  /\ handler = "pointer"
  /\ popped' = 0
  /\ notify' = (notify /\ event # <<>>)
  /\ busy' = FALSE
  /\ handler' = "clear"
  /\ UNCHANGED <<ring, comp, rung, controller, event, irr, changed, thread, keyboard>>

(* EHBS = 1, once more, the acknowledgement, and the end of the interrupt.  *)
ClearBusy ==
  /\ handler = "clear"
  /\ busy' = FALSE
  /\ handler' = "off"
  /\ UNCHANGED <<ring, comp, rung, controller, events, irr, changed, thread, keyboard>>

-----------------------------------------------------------------------------
(* The controller. *)
HasRoom == Len(event) + popped < EventRoom

Post(what) ==
  /\ HasRoom
  /\ event' = Append(event, what)
  /\ notify' = TRUE
  /\ UNCHANGED popped

Work(r) == rung[r] /\ r \notin halted /\ ring[r] # <<>>

(* The ring is found empty at once, or later (FindEmpty); until then TRBs   *)
(* are seen without a doorbell.                                             *)
Advance(r) ==
  /\ ring' = [ring EXCEPT ![r] = Tail(@)]
  /\ rung' = [rung EXCEPT ![r] = prompt => Tail(ring[r]) # <<>>]
  /\ UNCHANGED <<comp, lines, thread, keyboard, handler>>

Fetch(r) ==
  /\ Work(r)
  /\ IF Head(ring[r]).ioc
     THEN Post(Report(r, Completion(Head(ring[r]).ask, TRUE)))
     ELSE UNCHANGED events
  /\ Advance(r)
  /\ UNCHANGED controller

(* An error is reported for whatever TRB it happens at, and the endpoint    *)
(* stops there.  (The command ring goes on after any completion code.)      *)
FetchFails(r) ==
  /\ Work(r) /\ r # "command"
  /\ Post(Report(r, Completion(Head(ring[r]).ask, FALSE)))
  /\ halted' = halted \cup {r}
  /\ Advance(r)
  /\ UNCHANGED prompt

FindEmpty(r) ==
  /\ rung[r] /\ ring[r] = <<>>
  /\ rung' = [rung EXCEPT ![r] = FALSE]
  /\ UNCHANGED <<ring, comp, controller, events, lines, thread, keyboard, handler>>

(* A port reports a change when it has none reported already.               *)
PortChange ==
  /\ ~changed
  /\ changed' = TRUE
  /\ Post(PortStatusChange)
  /\ UNCHANGED <<ring, comp, rung, controller, busy, irr, thread, keyboard, handler>>

Interrupt ==
  /\ notify /\ ~busy
  /\ notify' = FALSE
  /\ busy' = TRUE
  /\ irr' = TRUE
  /\ UNCHANGED <<ring, comp, rung, controller, event, popped, changed, thread, keyboard, handler>>

-----------------------------------------------------------------------------
Thread == QueueTrb \/ ClearCompletion \/ RingDoorbell \/ Answered

Handler == Enter \/ HandleCompletion \/ HandlePortChange \/ Callback \/ NoEventLeft
             \/ WritePointer \/ ClearBusy

Next ==
  \/ \E r \in Waited : Begin(r)
  \/ SetupKeyboard
  \/ Thread
  \/ Handler
  \/ \E r \in Rings : Fetch(r) \/ FetchFails(r) \/ FindEmpty(r)
  \/ PortChange
  \/ Interrupt

Spec == Init /\ [][Next]_vars

(* The processor takes interrupts and runs the handler; between interrupts  *)
(* the thread gets on (keys and port changes are rare, so it is enough that *)
(* it could again and again); the controller sends the interrupts that are  *)
(* due, and works on what it was told of when it can report it again and    *)
(* again.  Nobody has to press a key, to change a port, or to begin.        *)
FairSpec ==
  /\ Spec
  /\ SF_vars(Thread) /\ WF_vars(Handler) /\ WF_vars(Interrupt)
  /\ \A r \in Waited : SF_vars(Fetch(r) \/ FetchFails(r))

-----------------------------------------------------------------------------
Completions == [ask : Marks \cup {"none"}, good : BOOLEAN]

(* Every variable has its type: no ring gets longer than one request, and   *)
(* the event ring is never fuller than it can be.                           *)
TypeOK ==
  /\ \A r \in Rings : /\ ring[r] \in Seq([ask : Marks, ioc : BOOLEAN])
                      /\ Len(ring[r]) <= Length(r)
  /\ comp \in [Rings -> Completions]
  /\ rung \in [Rings -> BOOLEAN] /\ halted \subseteq Rings /\ prompt \in BOOLEAN
  /\ event \in Seq([ring : Rings \cup {"port"}, answer : Completions])
  /\ popped \in Nat /\ Len(event) + popped <= EventRoom
  /\ notify \in BOOLEAN /\ busy \in BOOLEAN /\ irr \in BOOLEAN /\ changed \in BOOLEAN
  /\ thread \in [at : {"idle", "queue", "clear", "doorbell", "wait"}, ring : Rings,
                 ask : Marks, left : 0 .. Stages]
  /\ keyboard \in {"off", "on", "failed"}
  /\ handler \in {"off", "pop", "call", "pointer", "clear"}

(* The completion a waiting thread sees is that of the request it queued,   *)
(* never that of the one before (while (!comp->CCOD) looks at nothing else).*)
AnswersItsOwn ==
  thread.at = "wait" /\ comp[thread.ring] # None
    => comp[thread.ring].ask = thread.ask

KeyReports == {i \in DOMAIN event : event[i].ring = "keyboard"}

(* The keyboard always has exactly one request under way: queued, reported, *)
(* or being handled; never none, which would end all input, and never two,  *)
(* which would share the one buffer KEYEVENT.  After an error there is none.*)
OneKeyRequest ==
  Len(ring["keyboard"]) + Cardinality(KeyReports) + (IF handler = "call" THEN 1 ELSE 0)
    = IF keyboard = "on" THEN 1 ELSE 0

(* Whoever waits for a completion gets one: no interrupt is lost between    *)
(* the last look at the event ring and the end of the handler, and the      *)
(* event ring does not stay full.  (From a controller that is not prompt an *)
(* answer may come before COMP is cleared for it.)                          *)
WaitEnds == prompt /\ thread.at = "wait" ~> thread.at = "idle"

(* A key that was reported reaches the callback, also when it came while    *)
(* the handler was about to leave.                                          *)
KeysHandled == prompt /\ KeyReports # {} ~> KeyReports = {}
=============================================================================
