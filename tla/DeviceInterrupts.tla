---------------------------- MODULE DeviceInterrupts ----------------------------
(***************************************************************************)
(* How an interrupt gets to the code that serves it: the vectors in use    *)
(* (interrupt.c), the routine of each vector, the redirection of the       *)
(* system control interrupt (setup_fadt, ioapic_redirect), the messages of *)
(* the xHCI controllers (pcie_setup_interrupt, MSI and MSI-X), and their   *)
(* common handler, which looks for its controller by the vector it was     *)
(* entered with.  Controllers raise interrupts while the boot thread still *)
(* sets up the next one.                                                   *)
(***************************************************************************)
EXTENDS Integers, Sequences, FiniteSets

CONSTANTS
  Devices,      \* the xHCI controllers, 1 .. n, in the order they are found
  Vectors,      \* number of vectors (256)
  Half,         \* the first vector whose byte is negative (128)
  Reserved,     \* 0 .. Reserved - 1 are not for devices (48)
  Timer,        \* the vector of interrupt line 0 (32)
  Apics,        \* numbers of the local APICs: the boot processor's, and all that are up
  Kinds,        \* what a controller has for messages: some of "msix", "msi", "none"
  Lines,        \* lines the system control interrupt may be on
  Madts         \* tables of I/O APICs and overrides

(* The entries of a table are numbered as they come, and override a line    *)
(* once.                                                                    *)
ASSUME InterruptsAssumption ==
  /\ Devices \subseteq Nat \ {0}
  /\ Vectors \in Nat /\ Half \in 1 .. Vectors - 1
  /\ Reserved \in 1 .. Vectors /\ Timer \in 1 .. Reserved - 1
  /\ Lines \subseteq Nat
  /\ \A a \in Apics : a.boot \in Nat
  /\ \A m \in Madts :
       /\ DOMAIN m \subseteq Nat
       /\ \A k \in DOMAIN m : m[k].is = "ioapic" => m[k].gsi \in Nat /\ m[k].last \in Nat
       /\ \A k, n \in DOMAIN m : m[k].is = "override" => m[k].gsi \in Nat
            /\ (m[n].is = "override" /\ m[n].irq = m[k].irq => n = k)

VARIABLES
  madt, line,   \* what ACPI says
  apic,         \* the local APICs of the machine
  kind,         \* of each controller
  used,         \* INTE_VECTOR
  routine,      \* INTERRUPT_ROUTINE
  redirect,     \* the redirection programmed: <<I/O APIC, pin>>, or <<>>
  list,         \* XHCI_CONTROLLER, newest first
  interrupt,    \* the vector noted for each controller
  message,      \* each controller's message: on or off, to whom, and the vector in it
  running,      \* controllers that may raise an interrupt
  early,        \* those the firmware left running
  waiting,      \* those that have raised one and wait for its service
  pending,      \* vectors the local APIC will deliver
  thread,       \* controller and place the boot thread is at
  panic         \* the vector that had no routine, or -1

acpi == <<madt, line, apic, kind, early>>
tables == <<used, routine, redirect>>
drivers == <<list, interrupt>>
devices == <<message, running, waiting>>
vars == <<acpi, tables, drivers, devices, pending, thread, panic>>

None == -1
IsFixed(v) == v < Reserved \/ v = Half     \* setup_interrupt: also 0x80
Illegal == 0                               \* no local APIC delivers it

(* A message is a write to an address with the number of the local APIC it  *)
(* is for in bits 12 to 19: PCI_EXPRESS_CAPABILITY_MSI32 has it, or an      *)
(* entry of the table of MSI-X.                                             *)
Target(address) == (address \div 4096) % 256
MsiCapability(on, address, data) == [on |-> on, to |-> Target(address), vector |-> data]
MsixEntry(address, data) == MsiCapability(TRUE, address, data)
NoMessage == [on |-> FALSE, to |-> 0, vector |-> Illegal]

(* MSI_ADDRESS_BASE | apic_current_id(), without the base.                  *)
MessageAddress == apic.boot

Initial ==
  /\ used = {v \in 0 .. Vectors - 1 : IsFixed(v)}
  /\ routine = [v \in 0 .. Vectors - 1 |-> "none"]
  /\ redirect = <<>>
  /\ list = <<>> /\ interrupt = [d \in Devices |-> 0]
  /\ message = [d \in Devices |-> NoMessage]
  /\ running = early /\ waiting = {} /\ pending = {}
  /\ thread = [at |-> "fadt", device |-> 1]
  /\ panic = None

Init ==
  /\ madt \in Madts /\ line \in Lines
  /\ apic \in Apics
  /\ kind \in [Devices -> Kinds]
  /\ early \in SUBSET Devices
  /\ Initial

-----------------------------------------------------------------------------
(* The line is looked up among the overrides of the whole table first, then *)
(* among the I/O APICs.  "last" is the number of a chip's last pin, which   *)
(* the register has; the code takes it for the number of pins.              *)
SciVector == line + Timer
Chips(gsi) == {k \in DOMAIN madt : madt[k].is = "ioapic" /\ madt[k].gsi <= gsi
                                   /\ madt[k].gsi + madt[k].last > gsi}
Overrides == {k \in DOMAIN madt : madt[k].is = "override" /\ madt[k].irq = line}
First(set) == CHOOSE k \in set : \A n \in set : k <= n

(* A kernel that does not look at the overrides ...                         *)
GsiOfLine == line

(* ... and the code's.                                                      *)
Gsi == IF Overrides = {} THEN line ELSE madt[First(Overrides)].gsi

SetupFadt ==
  /\ thread.at = "fadt"
  /\ IF Chips(Gsi) = {}
     THEN UNCHANGED <<redirect, routine>>
     ELSE /\ redirect' = <<First(Chips(Gsi)), Gsi - madt[First(Chips(Gsi))].gsi>>
          /\ routine' = [routine EXCEPT ![SciVector] = "sci"]
  /\ thread' = [thread EXCEPT !.at = "timer"]
  /\ UNCHANGED <<acpi, used, drivers, devices, pending, panic>>

(* setup_timer comes after the tables, and takes its vector from whoever    *)
(* has it.                                                                  *)
SetupTimer ==
  /\ thread.at = "timer"
  /\ routine' = [routine EXCEPT ![Timer] = "timer"]
  /\ thread' = [thread EXCEPT !.at = "alloc"]
  /\ UNCHANGED <<acpi, used, redirect, drivers, devices, pending, panic>>

-----------------------------------------------------------------------------
Goto(at) == thread' = [thread EXCEPT !.at = at]
This == thread.device

(* interrupt_alloc_intx: the lowest vector that is free, or 0.  The boot    *)
(* thread keeps it in a variable of its own until it has a controller to    *)
(* note it in; here "interrupt" has it from the beginning, and             *)
(* HandlerFinds looks only at controllers in the list.  A kernel that does  *)
(* not mark the vector ...                                                  *)
Lowest(set) == IF set = {} THEN 0 ELSE First(set)
AllocForgets ==
  /\ thread.at = "alloc" /\ This \in Devices
  /\ interrupt' = [interrupt EXCEPT ![This] = Lowest((0 .. Vectors - 1) \ used)]
  /\ Goto("message")
  /\ UNCHANGED <<acpi, tables, list, devices, pending, panic>>

(* ... and the code's.                                                      *)
AllocVector ==
  /\ thread.at = "alloc" /\ This \in Devices
  /\ interrupt' = [interrupt EXCEPT ![This] = Lowest((0 .. Vectors - 1) \ used)]
  /\ used' = used \cup {interrupt'[This]}
  /\ Goto("message")
  /\ UNCHANGED <<acpi, routine, redirect, list, devices, pending, panic>>

(* MSI-X: the entry of the table has address and vector before messages     *)
(* are enabled.  MSI: they are enabled first, with what there was.          *)
SetMessage(at, next, content) ==
  /\ thread.at = at
  /\ message' = [message EXCEPT ![This] = content]
  /\ Goto(next)
  /\ UNCHANGED <<acpi, tables, drivers, running, waiting, pending, panic>>

EnableMessages ==
  /\ This \in Devices
  /\ \/ kind[This] = "msix" /\ SetMessage("message", "register", MsixEntry(MessageAddress, interrupt[This]))
     \/ kind[This] = "msi" /\ SetMessage("message", "vector", [message[This] EXCEPT !.on = TRUE])
     \/ kind[This] = "none" /\ SetMessage("message", "list", NoMessage)
     \/ SetMessage("vector", "register", MsiCapability(TRUE, MessageAddress, interrupt[This]))

(* The routine is registered for an interrupt of either kind.               *)
Register ==
  /\ thread.at = "register"
  /\ routine' = [routine EXCEPT ![interrupt[This]] = "xhci"]
  /\ Goto("list")
  /\ UNCHANGED <<acpi, used, redirect, drivers, devices, pending, panic>>

Insert ==
  /\ thread.at = "list"
  /\ list' = <<This>> \o list
  /\ Goto("reset")
  /\ UNCHANGED <<acpi, tables, interrupt, devices, pending, panic>>

(* A controller that was reset has nothing to tell.                         *)
Reset ==
  /\ thread.at = "reset"
  /\ running' = running \ {This}
  /\ waiting' = waiting \ {This}
  /\ Goto("start")
  /\ UNCHANGED <<acpi, tables, drivers, message, pending, panic>>

Start ==
  /\ thread.at = "start"
  /\ running' = running \cup {This}
  /\ thread' = [at |-> "alloc", device |-> This + 1]
  /\ UNCHANGED <<acpi, tables, drivers, message, waiting, pending, panic>>

-----------------------------------------------------------------------------
(* A controller sends its message, and no other before it is served.  A     *)
(* processor that is up takes it, whichever it is (aproc_startup).          *)
Raise(d) ==
  /\ d \in running \ waiting
  /\ message[d].on
  /\ waiting' = waiting \cup {d}
  /\ pending' = IF message[d].to \in apic.up THEN pending \cup ({message[d].vector} \ {Illegal}) ELSE pending
  /\ UNCHANGED <<acpi, tables, drivers, message, running, thread, panic>>

(* What the handler compares: the stub pushed the vector as a byte, which   *)
(* the processor extends with its sign.                                     *)
StackInt(v) == IF v >= Half THEN v - Vectors ELSE v

HandlerFinds(v) == {k \in DOMAIN list : interrupt[list[k]] = StackInt(v)}

(* __isr_common, with interrupts off: the routine, or the panic.            *)
Take(v) ==
  /\ v \in pending
  /\ pending' = pending \ {v}
  /\ panic' = IF routine[v] = "none" THEN v ELSE None
  /\ waiting' = IF routine[v] = "xhci" /\ HandlerFinds(v) # {}
                THEN waiting \ {list[First(HandlerFinds(v))]} ELSE waiting
  /\ UNCHANGED <<acpi, tables, drivers, message, running, thread>>

Interrupts == \E v \in pending : Take(v)

Next ==
  /\ panic = None
  /\ \/ SetupFadt \/ SetupTimer \/ AllocVector \/ EnableMessages \/ Register \/ Insert \/ Reset \/ Start
     \/ \E d \in Devices : Raise(d)
     \/ Interrupts

Spec == Init /\ [][Next]_vars

Fairness == WF_vars(panic = None /\ Interrupts)

-----------------------------------------------------------------------------
SetUp(d) == d < This

(* A controller with messages whose handler can tell it by its vector, on a *)
(* machine with a processor that messages get to.                           *)
Reachable(d) == kind[d] # "none" /\ interrupt[d] \in 1 .. Half - 1 /\ 0 \in apic.up

(* What a controller raises after it was set up is served, for as many      *)
(* controllers as have a vector below 0x80 (xhci.c:318) and messages        *)
(* (pcie.c:162), whatever comes in while others are set up, when the        *)
(* processor is up whose local APIC has the number 0: no other number gets  *)
(* into bits 12 to 19 of the address (msi.c:16, msix.c:44).                 *)
InterruptsServed ==
  \A d \in Devices :
    (d \in waiting /\ SetUp(d) /\ Reachable(d)) ~> (d \notin waiting \/ panic # None)

(* No interrupt finds its vector without a routine, but that of a           *)
(* controller which the firmware left running and which raises it between   *)
(* the enabling of its messages and the registration (pcie.c:149).          *)
PanicHonest ==
  panic # None =>
    \E d \in early : /\ thread.device = d /\ thread.at \in {"vector", "register"}
                     /\ interrupt[d] = panic

(* The system control interrupt goes from its pin, as the overrides say, to *)
(* its routine, when an I/O APIC has the pin, and does not have it last     *)
(* (apic.c:361); and nobody takes its routine away if its vector is one of  *)
(* those that are reserved, and not the timer's (fadt.c:68).                *)
PinOf(k, gsi) == madt[k].is = "ioapic" /\ gsi \in madt[k].gsi .. madt[k].gsi + madt[k].last - 1
LineAt == {madt[k].gsi : k \in Overrides} \cup {gsi \in {line} : Overrides = {}}

SystemControlRouted ==
  thread.at # "fadt" =>
    \A gsi \in LineAt :
      (\E k \in DOMAIN madt : PinOf(k, gsi))
      => /\ redirect # <<>> /\ madt[redirect[1]].gsi + redirect[2] = gsi
         /\ IsFixed(SciVector) /\ line # 0 => routine[SciVector] = "sci"

(* The routine of a vector is there when an interrupt comes, and stays.     *)
RoutinesKept == PanicHonest /\ SystemControlRouted
=============================================================================
