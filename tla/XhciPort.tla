------------------------------- MODULE XhciPort -------------------------------
(***************************************************************************)
(* One root port of an xHCI controller while it is reset for the first     *)
(* time: the kernel's thread in xhci_port_reset, the interrupt handler,    *)
(* which turns the port's change bits into the driver's own status word    *)
(* (xhc_event_ring_process) and acknowledges them, and the port, whose     *)
(* device may come and go.                                                 *)
(*                                                                         *)
(* The handler runs on the processor of the thread, so the thread stands   *)
(* still while it runs; the port goes on between any two steps of either.  *)
(* A port posts an event when its first change bit is set, and none for    *)
(* further bits until all are acknowledged (PSCEG, xHCI 4.19.2).           *)
(***************************************************************************)
EXTENDS Integers

VARIABLES
  port,         \* the port's status and control register (PORTSC)
  status,       \* device->status[portId]: bits RST and ERR
  events,       \* port events posted and not yet popped
  handler,      \* where the interrupt handler is with the port's event
  reset,        \* where xhci_port_reset is
  resetAnswer,  \* what it returned
  history       \* what happened, for the properties

portVars == <<port, status, events, handler, reset, resetAnswer, history>>

-----------------------------------------------------------------------------
(* The change bits: connect, reset, warm reset, configuration error.        *)
Changes == {"CSCH", "PRCH", "WRCH", "CECH"}

NoAnswer == -1

NoStatus == [RST |-> FALSE, ERR |-> FALSE]

(* The controller has just been reset and started: a port that has a device *)
(* reports it, a USB 3 port has enabled itself.                             *)
PortInit ==
  /\ port \in [usb3 : BOOLEAN, CCSS : {TRUE}, POEN : BOOLEAN, PPWR : BOOLEAN,
               resetting : {FALSE}, changes : {{"CSCH"}}]
  /\ port.POEN => port.usb3 /\ port.PPWR
  /\ status = NoStatus
  /\ events = 1
  /\ handler = "off"
  /\ reset = "clear"
  /\ resetAnswer = NoAnswer
  /\ history = [completed |-> FALSE, raced |-> FALSE]

-----------------------------------------------------------------------------
(* The thread. *)
Runs(at) == handler = "off" /\ reset = at

Return(code) == reset' = "done" /\ resetAnswer' = code

ClearStatus ==
  /\ Runs("clear")
  /\ status' = NoStatus
  /\ reset' = "check"
  /\ UNCHANGED <<port, events, handler, resetAnswer, history>>

CheckEnabled ==
  /\ Runs("check")
  /\ IF port.POEN THEN Return(0)
     ELSE /\ reset' = IF port.PPWR THEN "acknowledge" ELSE "power"
          /\ UNCHANGED resetAnswer
  /\ UNCHANGED <<port, status, events, handler, history>>

(* Written, and looked at after a second.                                   *)
PowerOn ==
  /\ Runs("power")
  /\ \E on \in BOOLEAN :
       /\ port' = [port EXCEPT !.PPWR = on]
       /\ IF on THEN reset' = "acknowledge" /\ UNCHANGED resetAnswer ELSE Return(1)
  /\ UNCHANGED <<status, events, handler, history>>

(* The mask is XHCI_PORTSC_W1C_MASK, which holds the enable bit too: a one  *)
(* written to it disables the port.                                         *)
Acknowledge ==
  /\ Runs("acknowledge")
  /\ port' = [port EXCEPT !.changes = {}, !.POEN = FALSE]
  /\ reset' = "reset"
  /\ UNCHANGED <<status, events, handler, resetAnswer, history>>

StartReset ==
  /\ Runs("reset")
  /\ port' = [port EXCEPT !.resetting = TRUE, !.POEN = FALSE]
  /\ reset' = "wait"
  /\ UNCHANGED <<status, events, handler, resetAnswer, history>>

WaitOver ==
  /\ Runs("wait")
  /\ status.RST
  /\ status' = [status EXCEPT !.RST = FALSE]
  /\ reset' = "settle"
  /\ UNCHANGED <<port, events, handler, resetAnswer, history>>

(* Half a second is long enough for the handler to run.                     *)
TimesOut ==
  /\ Runs("wait")
  /\ ~status.RST /\ events = 0
  /\ Return(2)
  /\ UNCHANGED <<port, status, events, handler, history>>

CheckError ==
  /\ Runs("settle")
  /\ IF status.ERR THEN Return(3) ELSE reset' = "verify" /\ UNCHANGED resetAnswer
  /\ UNCHANGED <<port, status, events, handler, history>>

VerifyEnabled ==
  /\ Runs("verify")
  /\ Return(IF port.POEN THEN 0 ELSE 4)
  /\ UNCHANGED <<port, status, events, handler, history>>

-----------------------------------------------------------------------------
(* The interrupt handler. *)
TakeEvent ==
  /\ handler = "off" /\ events > 0
  /\ events' = events - 1
  /\ handler' = "read"
  /\ UNCHANGED <<port, status, reset, resetAnswer, history>>

(* A handler that takes any change for the end of the reset ...             *)
AnyChange ==
  /\ handler = "read"
  /\ status' = [RST |-> TRUE, ERR |-> status.ERR \/ "CECH" \in port.changes]
  /\ handler' = "acknowledge"
  /\ UNCHANGED <<port, events, reset, resetAnswer, history>>

(* ... and the code's. *)
ReadChanges ==
  /\ handler = "read"
  /\ status' = [RST |-> status.RST \/ port.changes \cap {"WRCH", "PRCH"} # {},
                ERR |-> status.ERR \/ "CECH" \in port.changes]
  /\ handler' = "acknowledge"
  /\ UNCHANGED <<port, events, reset, resetAnswer, history>>

(* All change bits (XHCI_PORTSC_PSC_MASK), read before or not.              *)
AcknowledgeChanges ==
  /\ handler = "acknowledge"
  /\ port' = [port EXCEPT !.changes = {}]
  /\ handler' = "off"
  /\ UNCHANGED <<status, events, reset, resetAnswer, history>>

-----------------------------------------------------------------------------
(* The port. *)
Report(changed, changes) ==
  /\ port' = [changed EXCEPT !.changes = @ \cup changes]
  /\ events' = IF port.changes = {} THEN events + 1 ELSE events
  /\ UNCHANGED <<status, handler, reset, resetAnswer>>

(* What comes between the look at the bits and their acknowledgement is     *)
(* acknowledged with them.                                                  *)
ResetDone ==
  /\ port.resetting /\ port.CCSS
  /\ Report([port EXCEPT !.resetting = FALSE, !.POEN = TRUE],
            IF port.usb3 THEN {"WRCH", "PRCH"} ELSE {"PRCH"})
  /\ history' = IF reset = "done" THEN history
                ELSE [completed |-> TRUE, raced |-> handler = "acknowledge"]

ConfigurationFails ==
  /\ port.usb3 /\ port.CCSS /\ port.POEN
  /\ "CECH" \notin port.changes
  /\ Report([port EXCEPT !.POEN = FALSE], {"CECH"})
  /\ UNCHANGED history

Disconnect ==
  /\ port.CCSS
  /\ Report([port EXCEPT !.CCSS = FALSE, !.POEN = FALSE], {"CSCH"})
  /\ UNCHANGED history

Connect ==
  /\ ~port.CCSS /\ port.PPWR
  /\ Report([port EXCEPT !.CCSS = TRUE, !.POEN = port.usb3], {"CSCH"})
  /\ UNCHANGED history

-----------------------------------------------------------------------------
PortReset == \/ ClearStatus \/ CheckEnabled \/ PowerOn \/ Acknowledge \/ StartReset
             \/ WaitOver \/ TimesOut \/ CheckError \/ VerifyEnabled

PortInterrupt == TakeEvent \/ ReadChanges \/ AcknowledgeChanges

PortNext ==
  \/ PortReset
  \/ PortInterrupt
  \/ ResetDone \/ ConfigurationFails \/ Disconnect \/ Connect

PortSpec == PortInit /\ [][PortNext]_portVars

-----------------------------------------------------------------------------
(* The driver knows whether its reset has ended: it goes on only after the  *)
(* port reported the end of the reset it asked for, no matter which changes *)
(* were pending when it asked, and it gives up on a reset that did end only *)
(* when the end came between the handler's look at the change bits and      *)
(* their acknowledgement (xhci.c:294 to 301), where nobody sees it.         *)
ResetKnown ==
  /\ reset \in {"settle", "verify"} \/ resetAnswer \in {3, 4} => history.completed
  /\ resetAnswer = 2 /\ history.completed => history.raced
=============================================================================
