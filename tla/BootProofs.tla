------------------------------- MODULE BootProofs -------------------------------
(***************************************************************************)
(* Three parts of the way up, for any number of controllers and any map.   *)
(*                                                                         *)
(* Interrupts (DeviceInterrupts): an interrupt finds the routine of its    *)
(* vector, but in the one gap pcie_setup_interrupt leaves, and the system  *)
(* control interrupt keeps its own.  The invariant follows a vector from   *)
(* the controller to the processor: what may be pending was in a message   *)
(* that was on, and such a message is empty or has a vector with a         *)
(* routine, unless it is that of the controller whose routine is the next  *)
(* to be registered, which runs then only if the firmware left it running. *)
(*                                                                         *)
(* The set-up of the controllers (PcieDevices): no bit that starts or      *)
(* stops a controller is switched before the last switch was followed,     *)
(* every controller is driven at the address it decodes and told of pages  *)
(* of its own, and the list of storage devices has those that can be read. *)
(* The invariant, PcieInv, says how far the boot thread is with each       *)
(* controller, and of each what its registers, its record, its pages and   *)
(* its disks then are; each step of the thread or of a controller changes  *)
(* those of one place, and what the invariant says of the others stays.    *)
(*                                                                         *)
(* The memory map (MemoryMap): what the allocator is given is free memory  *)
(* above 1 MB, each page once, and all of it but what is joined to the     *)
(* low memory.  The invariant, MapInv, says that at every stage the map    *)
(* tells of each page what the firmware told, how much of it is in order,  *)
(* and which entries each region of the kernel's map was put together of.  *)
(***************************************************************************)
EXTENDS DeviceInterrupts, PcieDevices, MemoryMap, FiniteSetTheorems, WellFoundedInduction, TLAPS

-----------------------------------------------------------------------------
(* Interrupts.                                                              *)
Vector == 0 .. Vectors - 1
Positions == {"fadt", "timer", "alloc", "message", "vector", "register", "list", "reset", "start"}
Routines == {"none", "sci", "timer", "xhci"}

Types ==
  /\ madt \in Madts /\ line \in Lines /\ apic \in Apics /\ early \subseteq Devices
  /\ used \subseteq Vector /\ \A v \in Vector : IsFixed(v) => v \in used
  /\ routine \in [Vector -> Routines]
  /\ interrupt \in [Devices -> Vector]
  /\ message \in [Devices -> [on : BOOLEAN, to : Nat, vector : Vector]]
  /\ running \subseteq Devices
  /\ thread \in [at : Positions, device : Nat]
  /\ thread.at \notin {"fadt", "timer", "alloc"} => thread.device \in Devices

(* Vectors of devices are no fixed ones, unless there was none left.        *)
VectorsFree ==
  thread.at \in {"message", "vector", "register"} =>
    interrupt[This] = Illegal \/ ~IsFixed(interrupt[This])

(* Behind the place of the thread only what the firmware started runs.      *)
RunningKnown == \A d \in running : d \in early \/ d < This

(* Messages the thread has not come to are off, and the one of MSI it has   *)
(* just enabled is empty.                                                   *)
MessagesAhead ==
  \A d \in Devices :
    /\ d > This => message[d].vector = Illegal
    /\ d = This /\ thread.at \in {"fadt", "timer", "alloc", "message", "vector"}
         => message[d].vector = Illegal

(* The vector whose routine comes next.                                     *)
InGap(v) == thread.at = "register" /\ v = interrupt[This]

MessagesServed ==
  \A d \in Devices :
    LET v == message[d].vector
    IN  v # Illegal => routine[v] # "none" \/ (d = This /\ InGap(v))

PendingServed ==
  \A v \in pending : v \in Vector /\ (routine[v] # "none" \/ (InGap(v) /\ This \in early))

PanicKnown == panic # None => InGap(panic) /\ This \in early

RoutesInv ==
  /\ Types /\ VectorsFree /\ RunningKnown /\ MessagesAhead
  /\ MessagesServed /\ PendingServed /\ PanicKnown /\ SystemControlRouted

-----------------------------------------------------------------------------
LEMMA FirstIn ==
  ASSUME NEW T \in SUBSET Nat, T # {}
  PROVE  First(T) \in T
<1> DEFINE R == {ss \in Nat \X Nat : ss[1] < ss[2]}
<1>1. IsWellFoundedOn(R, Nat)
  <2>1. R = OpToRel(<, Nat)
    BY DEF OpToRel
  <2>2. IsWellFoundedOn(OpToRel(<, Nat), Nat)
    BY NatLessThanWellFounded, Zenon
  <2> HIDE DEF R
  <2> QED BY <2>1, <2>2, Zenon
<1>2. \A x, y \in T : y < x => <<y, x>> \in R
  OBVIOUS
<1>3. \E x \in T : \A y \in T : x <= y
  <2> HIDE DEF R
  <2>1. PICK x \in T : \A y \in T : ~(<<y, x>> \in R)
    BY <1>1, WFMin, Zenon
  <2>2. \A y \in T : ~(y < x)
    BY <2>1, <1>2, Zenon
  <2> QED BY <2>2
<1> QED BY <1>3, Zenon DEF First

LEMMA RoutesInit == Init => RoutesInv
<1> SUFFICES ASSUME Init PROVE RoutesInv
  OBVIOUS
<1>1. Types
  BY InterruptsAssumption DEF Init, Initial, Types, Vector, IsFixed, NoMessage, Illegal, Routines, Positions
<1>2. VectorsFree /\ RunningKnown /\ PendingServed /\ PanicKnown /\ SystemControlRouted
  BY DEF Init, Initial, VectorsFree, RunningKnown, PendingServed, PanicKnown, SystemControlRouted
<1>3. MessagesAhead /\ MessagesServed
  BY DEF Init, Initial, MessagesAhead, MessagesServed, NoMessage
<1> QED BY <1>1, <1>2, <1>3 DEF RoutesInv

-----------------------------------------------------------------------------
(* The tables, which only the thread changes.                               *)
LEMMA SetupFadtKeeps ==
  ASSUME RoutesInv, panic = None, SetupFadt
  PROVE  RoutesInv'
<1>1. /\ thread.at = "fadt" /\ thread' = [thread EXCEPT !.at = "timer"]
      /\ UNCHANGED <<acpi, used, drivers, devices, pending, panic>>
  BY DEF SetupFadt
<1>2. /\ UNCHANGED <<madt, line, apic, early, interrupt, message, running, pending, panic, used>>
      /\ thread'.at = "timer" /\ This' = This /\ thread' \in [at : Positions, device : Nat]
  BY <1>1 DEF acpi, drivers, devices, This, RoutesInv, Types, Positions
<1>3. /\ SciVector \in Nat /\ line \in Nat /\ SciVector # Illegal
      /\ IsFixed(SciVector) => SciVector \in Vector
  BY InterruptsAssumption DEF RoutesInv, Types, SciVector, IsFixed, Illegal, Vector
<1>4. /\ routine' \in [Vector -> Routines]
      /\ \A v \in Vector : routine[v] # "none" => routine'[v] # "none"
      /\ Chips(Gsi) # {} /\ IsFixed(SciVector) => routine'[SciVector] = "sci"
  BY <1>3 DEF SetupFadt, RoutesInv, Types, Routines
<1>5. SystemControlRouted'
  <2> SUFFICES ASSUME NEW gsi \in LineAt, NEW k \in DOMAIN madt, PinOf(k, gsi)
      PROVE  /\ redirect' # <<>> /\ madt[redirect'[1]].gsi + redirect'[2] = gsi
             /\ IsFixed(SciVector) /\ line # 0 => routine'[SciVector] = "sci"
    BY <1>2 DEF SystemControlRouted, LineAt, PinOf, Overrides, SciVector, IsFixed
  <2>1. Overrides \in SUBSET Nat /\ Chips(Gsi) \in SUBSET Nat
    BY InterruptsAssumption DEF RoutesInv, Types, Overrides, Chips
  <2>2. gsi = Gsi
    <3>1. CASE Overrides = {}
      BY <3>1 DEF LineAt, Gsi
    <3>2. CASE Overrides # {}
      <4>1. First(Overrides) \in Overrides
        BY <2>1, <3>2, FirstIn
      <4>2. PICK n \in Overrides : gsi = madt[n].gsi
        BY <3>2 DEF LineAt
      <4>3. n = First(Overrides)
        BY <4>1, <4>2, InterruptsAssumption DEF Overrides, RoutesInv, Types
      <4> QED BY <3>2, <4>2, <4>3 DEF Gsi
    <3> QED BY <3>1, <3>2
  <2>3. /\ madt[k].gsi \in Nat /\ madt[k].last \in Nat
    BY InterruptsAssumption DEF PinOf, RoutesInv, Types
  <2>4. k \in Chips(Gsi)
    BY <2>2, <2>3 DEF Chips, PinOf
  <2>5. First(Chips(Gsi)) \in Chips(Gsi)
    BY <2>1, <2>4, FirstIn
  <2>6. madt[First(Chips(Gsi))].gsi \in Nat
    BY <2>5, InterruptsAssumption DEF Chips, RoutesInv, Types
  <2>7. redirect' = <<First(Chips(Gsi)), Gsi - madt[First(Chips(Gsi))].gsi>>
    BY <2>4 DEF SetupFadt
  <2>8. Gsi \in Nat
    BY <2>2, <2>3 DEF PinOf
  <2> QED BY <1>4, <2>2, <2>4, <2>6, <2>7, <2>8
<1>6. Types'
  BY <1>2, <1>4 DEF RoutesInv, Types
<1>7. VectorsFree' /\ RunningKnown' /\ MessagesAhead' /\ MessagesServed' /\ PendingServed' /\ PanicKnown'
  BY <1>1, <1>2, <1>4
     DEF RoutesInv, Types, VectorsFree, RunningKnown, MessagesAhead, MessagesServed, PendingServed,
         PanicKnown, InGap
<1> QED BY <1>5, <1>6, <1>7 DEF RoutesInv

(* The thread goes on, and nothing else happens that the invariant is       *)
(* about.                                                                   *)
LEMMA SciKept ==
  ASSUME RoutesInv, UNCHANGED <<madt, line, redirect>>, thread.at # "fadt",
         IsFixed(SciVector) /\ line # 0 => routine'[SciVector] = routine[SciVector]
  PROVE  SystemControlRouted'
<1>1. LineAt' = LineAt /\ SciVector' = SciVector /\ madt' = madt /\ line' = line /\ redirect' = redirect
  BY DEF LineAt, Overrides, SciVector
<1>2. \A gsi \in LineAt :
        (\E k \in DOMAIN madt : PinOf(k, gsi))
        => /\ redirect # <<>> /\ madt[redirect[1]].gsi + redirect[2] = gsi
           /\ IsFixed(SciVector) /\ line # 0 => routine[SciVector] = "sci"
  BY DEF RoutesInv, SystemControlRouted
<1>3. \A gsi : (\E k \in DOMAIN madt : PinOf(k, gsi))' <=> (\E k \in DOMAIN madt : PinOf(k, gsi))
  BY <1>1 DEF PinOf
<1> QED BY <1>1, <1>2, <1>3 DEF SystemControlRouted

LEMMA SetupTimerKeeps ==
  ASSUME RoutesInv, panic = None, SetupTimer
  PROVE  RoutesInv'
<1>1. /\ thread.at = "timer" /\ routine' = [routine EXCEPT ![Timer] = "timer"]
      /\ thread' = [thread EXCEPT !.at = "alloc"]
      /\ UNCHANGED <<madt, line, apic, early, used, redirect, interrupt, message, running, pending, panic>>
  BY DEF SetupTimer, acpi, drivers, devices
<1>2. /\ thread'.at = "alloc" /\ This' = This /\ thread' \in [at : Positions, device : Nat]
  BY <1>1 DEF This, RoutesInv, Types, Positions
<1>3. /\ routine' \in [Vector -> Routines]
      /\ \A v \in Vector : routine[v] # "none" => routine'[v] # "none"
      /\ line # 0 => routine'[SciVector] = routine[SciVector]
  BY <1>1, InterruptsAssumption DEF RoutesInv, Types, Routines, Vector, SciVector
<1>4. SystemControlRouted'
  BY <1>1, <1>3, SciKept
<1>5. Types'
  BY <1>1, <1>2, <1>3 DEF RoutesInv, Types
<1>6. VectorsFree' /\ RunningKnown' /\ MessagesAhead' /\ MessagesServed' /\ PendingServed' /\ PanicKnown'
  BY <1>1, <1>2, <1>3
     DEF RoutesInv, Types, VectorsFree, RunningKnown, MessagesAhead, MessagesServed, PendingServed,
         PanicKnown, InGap
<1> QED BY <1>4, <1>5, <1>6 DEF RoutesInv

-----------------------------------------------------------------------------
(* The lowest vector that is not in use, or the one that stands for none.   *)
LEMMA AllocVectorKeeps ==
  ASSUME RoutesInv, panic = None, AllocVector
  PROVE  RoutesInv'
<1> DEFINE v == Lowest(Vector \ used)
<1>1. /\ thread.at = "alloc" /\ This \in Devices /\ thread' = [thread EXCEPT !.at = "message"]
      /\ interrupt' = [interrupt EXCEPT ![This] = v] /\ used' = used \cup {interrupt'[This]}
      /\ UNCHANGED <<madt, line, apic, early, routine, redirect, message, running, pending, panic>>
  BY DEF AllocVector, Goto, Vector, acpi, devices
<1>2. v \in Vector /\ (v = Illegal \/ ~IsFixed(v))
  <2>1. Vector \ used \in SUBSET Nat /\ 0 \in Vector
    BY InterruptsAssumption DEF Vector
  <2>2. CASE Vector \ used = {}
    BY <2>1, <2>2 DEF Lowest, Illegal
  <2>3. CASE Vector \ used # {}
    <3>1. First(Vector \ used) \in Vector \ used
      BY <2>1, <2>3, FirstIn
    <3> QED BY <2>3, <3>1 DEF Lowest, RoutesInv, Types
  <2> QED BY <2>2, <2>3
<1> HIDE DEF v
<1>3. /\ thread'.at = "message" /\ This' = This /\ thread' \in [at : Positions, device : Nat]
      /\ interrupt'[This] = v /\ interrupt' \in [Devices -> Vector]
  BY <1>1, <1>2 DEF This, RoutesInv, Types, Positions
<1>4. Types'
  BY <1>1, <1>2, <1>3 DEF RoutesInv, Types, This, IsFixed
<1>5. SystemControlRouted'
  BY <1>1, SciKept
<1>6. VectorsFree' /\ RunningKnown' /\ MessagesAhead' /\ MessagesServed' /\ PendingServed' /\ PanicKnown'
  BY <1>1, <1>2, <1>3
     DEF RoutesInv, VectorsFree, RunningKnown, MessagesAhead, MessagesServed, PendingServed,
         PanicKnown, InGap, IsFixed
<1> QED BY <1>4, <1>5, <1>6 DEF RoutesInv

(* The message of the controller is on, empty or with its vector.           *)
LEMMA SetMessageKeeps ==
  ASSUME RoutesInv, panic = None, This \in Devices,
         NEW at \in {"message", "vector"}, NEW next \in {"vector", "register", "list"}, NEW content,
         content \in [on : BOOLEAN, to : Nat, vector : Vector],
         content.vector = IF next = "register" THEN interrupt[This] ELSE Illegal,
         SetMessage(at, next, content)
  PROVE  RoutesInv'
<1>1. /\ thread.at = at /\ thread' = [thread EXCEPT !.at = next]
      /\ message' = [message EXCEPT ![This] = content]
      /\ UNCHANGED <<madt, line, apic, early, used, routine, redirect, interrupt, running, pending, panic>>
  BY DEF SetMessage, Goto, acpi, tables, drivers
<1>2. /\ thread'.at = next /\ This' = This /\ thread' \in [at : Positions, device : Nat]
      /\ message' \in [Devices -> [on : BOOLEAN, to : Nat, vector : Vector]]
      /\ message'[This] = content /\ \A d \in Devices \ {This} : message'[d] = message[d]
  BY <1>1 DEF This, RoutesInv, Types, Positions
<1>3. Types'
  BY <1>1, <1>2 DEF RoutesInv, Types, This, IsFixed
<1>4. SystemControlRouted'
  BY <1>1, SciKept
<1>5. VectorsFree' /\ RunningKnown'
  BY <1>1, <1>2 DEF RoutesInv, VectorsFree, RunningKnown, IsFixed
<1>6. This \in Nat /\ Devices \subseteq Nat
  BY InterruptsAssumption
<1>7. MessagesAhead'
  BY <1>1, <1>2, <1>6 DEF RoutesInv, MessagesAhead
<1>8. MessagesServed'
  BY <1>1, <1>2 DEF RoutesInv, MessagesServed, InGap
<1>9. PendingServed' /\ PanicKnown'
  BY <1>1, <1>2 DEF RoutesInv, PendingServed, PanicKnown, InGap
<1> QED BY <1>3, <1>4, <1>5, <1>7, <1>8, <1>9 DEF RoutesInv

LEMMA EnableMessagesKeeps ==
  ASSUME RoutesInv, panic = None, EnableMessages
  PROVE  RoutesInv'
<1> DEFINE Content == [on : BOOLEAN, to : Nat, vector : Vector]
<1>1. This \in Devices
  BY DEF EnableMessages
<1>2. interrupt[This] \in Vector /\ Illegal \in Vector /\ message[This] \in Content
  BY <1>1, InterruptsAssumption DEF RoutesInv, Types, Vector, Illegal
<1>3. Target(MessageAddress) \in Nat
  <2>1. apic.boot \in Nat
    BY InterruptsAssumption DEF RoutesInv, Types
  <2> QED BY <2>1 DEF Target, MessageAddress
<1>4. /\ MsixEntry(MessageAddress, interrupt[This]) \in Content
      /\ MsixEntry(MessageAddress, interrupt[This]).vector = interrupt[This]
      /\ MsiCapability(TRUE, MessageAddress, interrupt[This]) \in Content
      /\ MsiCapability(TRUE, MessageAddress, interrupt[This]).vector = interrupt[This]
      /\ NoMessage \in Content /\ NoMessage.vector = Illegal
  BY <1>2, <1>3 DEF MsixEntry, MsiCapability, NoMessage
<1>5. CASE SetMessage("message", "register", MsixEntry(MessageAddress, interrupt[This]))
  BY <1>1, <1>4, <1>5, SetMessageKeeps
<1>6. CASE SetMessage("message", "vector", [message[This] EXCEPT !.on = TRUE])
  <2> DEFINE content == [message[This] EXCEPT !.on = TRUE]
  <2>1. thread.at = "message"
    BY <1>6 DEF SetMessage
  <2>2. content \in Content /\ content.vector = Illegal
    BY <1>1, <1>2, <2>1 DEF RoutesInv, MessagesAhead
  <2>3. SetMessage("message", "vector", content)
    BY <1>6
  <2> HIDE DEF content
  <2> QED BY <1>1, <2>2, <2>3, SetMessageKeeps
<1>7. CASE SetMessage("message", "list", NoMessage)
  BY <1>1, <1>4, <1>7, SetMessageKeeps
<1>8. CASE SetMessage("vector", "register", MsiCapability(TRUE, MessageAddress, interrupt[This]))
  BY <1>1, <1>4, <1>8, SetMessageKeeps
<1> QED BY <1>5, <1>6, <1>7, <1>8 DEF EnableMessages

(* The routine is there, and what was in the gap is not any longer.         *)
LEMMA RegisterKeeps ==
  ASSUME RoutesInv, panic = None, Register
  PROVE  RoutesInv'
<1>1. /\ thread.at = "register" /\ thread' = [thread EXCEPT !.at = "list"]
      /\ routine' = [routine EXCEPT ![interrupt[This]] = "xhci"]
      /\ UNCHANGED <<madt, line, apic, early, used, redirect, interrupt, message, running, pending, panic>>
  BY DEF Register, Goto, acpi, drivers, devices
<1>2. This \in Devices /\ interrupt[This] \in Vector
  BY <1>1 DEF RoutesInv, Types, This
<1>3. /\ thread'.at = "list" /\ This' = This /\ thread' \in [at : Positions, device : Nat]
      /\ routine' \in [Vector -> Routines] /\ routine'[interrupt[This]] = "xhci"
      /\ \A v \in Vector \ {interrupt[This]} : routine'[v] = routine[v]
  BY <1>1, <1>2 DEF This, RoutesInv, Types, Positions, Routines
<1>4. Types'
  BY <1>1, <1>2, <1>3 DEF RoutesInv, Types, This, IsFixed
<1>5. IsFixed(SciVector) /\ line # 0 => routine'[SciVector] = routine[SciVector]
  <2>1. IsFixed(SciVector) /\ line # 0 => SciVector \in Vector /\ SciVector # interrupt[This]
    BY <1>1, InterruptsAssumption, SMTT(20)
       DEF RoutesInv, Types, VectorsFree, SciVector, IsFixed, Illegal, Vector
  <2> QED BY <1>3, <2>1
<1>6. SystemControlRouted'
  BY <1>1, <1>5, SciKept
<1>7. VectorsFree' /\ RunningKnown' /\ MessagesAhead'
  BY <1>1, <1>3 DEF RoutesInv, VectorsFree, RunningKnown, MessagesAhead
<1>8. \A v \in Vector : routine[v] # "none" \/ v = interrupt[This] => routine'[v] # "none"
  BY <1>3
<1>9. MessagesServed'
  BY <1>1, <1>3, <1>8 DEF RoutesInv, Types, MessagesServed, InGap
<1>10. PendingServed' /\ PanicKnown'
  BY <1>1, <1>3, <1>8 DEF RoutesInv, PendingServed, PanicKnown, InGap
<1> QED BY <1>4, <1>6, <1>7, <1>9, <1>10 DEF RoutesInv

(* The rest of the set-up of a controller.                                  *)
LEMMA InsertKeeps ==
  ASSUME RoutesInv, panic = None, Insert \/ Reset \/ Start
  PROVE  RoutesInv'
<1>1. /\ thread.at \in {"list", "reset", "start"}
      /\ UNCHANGED <<madt, line, apic, early, used, routine, redirect, interrupt, message, pending, panic>>
  BY DEF Insert, Reset, Start, Goto, acpi, tables, drivers, devices
<1>2. This \in Devices /\ Devices \subseteq Nat /\ This \in Nat
  BY <1>1, InterruptsAssumption DEF RoutesInv, Types, This
<1>3. \/ /\ thread' \in [at : Positions, device : Nat] /\ thread'.at \in {"reset", "start"}
         /\ This' = This /\ running' \subseteq running
      \/ /\ thread' \in [at : Positions, device : Nat] /\ thread'.at = "alloc"
         /\ This' = This + 1 /\ running' = running \cup {This}
  BY <1>1, <1>2 DEF Insert, Reset, Start, Goto, devices, This, RoutesInv, Types, Positions
<1>4. Types'
  BY <1>1, <1>2, <1>3 DEF RoutesInv, Types, This, IsFixed
<1>5. SystemControlRouted'
  BY <1>1, SciKept
<1>6. RunningKnown'
  <2>1. \A d \in running : d \in Nat /\ (d \in early \/ d < This)
    BY <1>2 DEF RoutesInv, Types, RunningKnown
  <2>2. CASE This' = This /\ running' \subseteq running
    BY <1>1, <2>1, <2>2 DEF RunningKnown
  <2>3. CASE This' = This + 1 /\ running' = running \cup {This}
    <3>1. \A d \in running' : d \in early \/ d < This + 1
      BY <1>2, <2>1, <2>3
    <3> QED BY <1>1, <2>3, <3>1 DEF RunningKnown
  <2> QED BY <1>3, <2>2, <2>3
<1>7. MessagesAhead'
  BY <1>1, <1>2, <1>3 DEF RoutesInv, MessagesAhead
<1>8. VectorsFree' /\ MessagesServed' /\ PendingServed' /\ PanicKnown'
  BY <1>1, <1>3 DEF RoutesInv, VectorsFree, MessagesServed, PendingServed, PanicKnown, InGap
<1> QED BY <1>4, <1>5, <1>6, <1>7, <1>8 DEF RoutesInv

-----------------------------------------------------------------------------
(* Controllers and the processor leave the tables alone.                    *)
LEMMA RaiseKeeps ==
  ASSUME RoutesInv, panic = None, NEW d \in Devices, Raise(d)
  PROVE  RoutesInv'
<1>1. /\ d \in running
      /\ pending' \subseteq pending \cup ({message[d].vector} \ {Illegal})
      /\ UNCHANGED <<madt, line, apic, early, used, routine, redirect, interrupt, message, running, thread, panic>>
  BY DEF Raise, acpi, tables, drivers
<1>2. SystemControlRouted'
  BY <1>1 DEF RoutesInv, SystemControlRouted, LineAt, PinOf, Overrides, SciVector, IsFixed
<1>3. message[d].vector \in Vector
  BY DEF RoutesInv, Types
<1>4. \A v \in pending' : v \in Vector /\ (routine[v] # "none" \/ (InGap(v) /\ This \in early))
  <2> SUFFICES ASSUME NEW v \in pending', v \notin pending
      PROVE  v \in Vector /\ (routine[v] # "none" \/ (InGap(v) /\ This \in early))
    BY DEF RoutesInv, PendingServed
  <2>1. v = message[d].vector /\ v # Illegal /\ v \in Vector
    BY <1>1, <1>3
  <2>2. routine[v] # "none" \/ (d = This /\ InGap(v))
    BY <2>1 DEF RoutesInv, MessagesServed
  <2>3. d = This => d \in early
    BY <1>1, InterruptsAssumption DEF RoutesInv, RunningKnown
  <2> QED BY <2>1, <2>2, <2>3
<1>5. Types' /\ VectorsFree' /\ RunningKnown' /\ MessagesAhead' /\ MessagesServed' /\ PanicKnown'
  BY <1>1 DEF RoutesInv, Types, VectorsFree, RunningKnown, MessagesAhead, MessagesServed, PanicKnown,
              InGap, This
<1>6. PendingServed'
  BY <1>1, <1>4 DEF PendingServed, InGap, This
<1> QED BY <1>2, <1>5, <1>6 DEF RoutesInv

LEMMA TakeKeeps ==
  ASSUME RoutesInv, panic = None, NEW v \in pending, Take(v)
  PROVE  RoutesInv'
<1>1. /\ pending' \subseteq pending /\ panic' = IF routine[v] = "none" THEN v ELSE None
      /\ UNCHANGED <<madt, line, apic, early, used, routine, redirect, interrupt, message, running, thread>>
  BY DEF Take, acpi, tables, drivers
<1>2. SystemControlRouted'
  BY <1>1 DEF RoutesInv, SystemControlRouted, LineAt, PinOf, Overrides, SciVector, IsFixed
<1>3. Types' /\ VectorsFree' /\ RunningKnown' /\ MessagesAhead' /\ MessagesServed' /\ PendingServed'
  BY <1>1 DEF RoutesInv, Types, VectorsFree, RunningKnown, MessagesAhead, MessagesServed, PendingServed,
              InGap, This
<1>4. PanicKnown'
  BY <1>1 DEF RoutesInv, PendingServed, PanicKnown, InGap, This
<1> QED BY <1>2, <1>3, <1>4 DEF RoutesInv

LEMMA RoutesNext ==
  ASSUME RoutesInv, [Next]_vars
  PROVE  RoutesInv'
<1>1. CASE UNCHANGED vars
  BY <1>1 DEF vars, acpi, tables, drivers, devices, RoutesInv, Types, VectorsFree, RunningKnown, MessagesAhead,
              MessagesServed, PendingServed, PanicKnown, InGap, This, SystemControlRouted, LineAt, PinOf,
              Overrides, SciVector, IsFixed
<1>2. CASE Next
  <2>1. panic = None
    BY <1>2 DEF Next
  <2>2. CASE SetupFadt \/ SetupTimer \/ AllocVector \/ EnableMessages \/ Register
    BY <2>1, <2>2, SetupFadtKeeps, SetupTimerKeeps, AllocVectorKeeps, EnableMessagesKeeps, RegisterKeeps
  <2>3. CASE Insert \/ Reset \/ Start
    BY <2>1, <2>3, InsertKeeps
  <2>4. CASE \E d \in Devices : Raise(d)
    BY <2>1, <2>4, RaiseKeeps
  <2>5. CASE Interrupts
    BY <2>1, <2>5, TakeKeeps DEF Interrupts
  <2> QED BY <1>2, <2>2, <2>3, <2>4, <2>5 DEF Next
<1> QED BY <1>1, <1>2

(* Every interrupt finds the routine of its vector, but that of a           *)
(* controller the firmware left running which comes between the enabling of *)
(* its messages and the registration (pcie.c:149), and the system control   *)
(* interrupt keeps the pin the overrides name and its routine.              *)
THEOREM RoutinesStay == Spec => []RoutinesKept
<1>1. RoutesInv => PanicHonest
  BY DEF RoutesInv, PanicKnown, InGap, PanicHonest, This, Types
<1>2. RoutesInv => RoutinesKept
  BY <1>1 DEF RoutesInv, RoutinesKept
<1>3. RoutesInv /\ [Next]_vars => RoutesInv'
  BY RoutesNext
<1> QED BY RoutesInit, <1>2, <1>3, PTL DEF Spec

-----------------------------------------------------------------------------
(* A set of numbers has a least one.                                        *)
LEMMA LeastNumber ==
  ASSUME NEW T \in SUBSET Nat, T # {}
  PROVE  \E x \in T : \A y \in T : x <= y
<1> DEFINE R == {ss \in Nat \X Nat : ss[1] < ss[2]}
<1>1. IsWellFoundedOn(R, Nat)
  <2>1. R = OpToRel(<, Nat)
    BY DEF OpToRel
  <2>2. IsWellFoundedOn(OpToRel(<, Nat), Nat)
    BY NatLessThanWellFounded, Zenon
  <2> HIDE DEF R
  <2> QED BY <2>1, <2>2, Zenon
<1>2. \A x, y \in T : y < x => <<y, x>> \in R
  OBVIOUS
<1> HIDE DEF R
<1>3. PICK x \in T : \A y \in T : ~(<<y, x>> \in R)
  BY <1>1, WFMin, Zenon
<1>4. \A y \in T : ~(y < x)
  BY <1>3, <1>2, Zenon
<1> QED BY <1>4

-----------------------------------------------------------------------------
(* Pages of a set that are not above p, of which NthOf(S, n) has n.        *)
Below(S, p) == {q \in S : q <= p}

FreePages == free \subseteq Nat /\ IsFiniteSet(free)

LEMMA LowestThere ==
  ASSUME NEW S, S \subseteq Nat, IsFiniteSet(S), NEW n \in Nat \ {0}, Cardinality(S) >= n
  PROVE  NthOf(S, n) \in S /\ Cardinality(Below(S, NthOf(S, n))) = n
<1> DEFINE T == {k \in 1 .. n : ~ \E p \in S : Cardinality(Below(S, p)) = k}
<1>1. \A p : IsFiniteSet(Below(S, p)) /\ Cardinality(Below(S, p)) \in Nat
  BY FS_Subset, FS_CardinalityType DEF Below
<1>2. Cardinality(S) \in Nat /\ Cardinality(S) >= n
  BY FS_CardinalityType
<1>3. T = {}
  <2> SUFFICES ASSUME T # {} PROVE FALSE
    OBVIOUS
  <2>0. T \in SUBSET Nat
    OBVIOUS
  <2>1. PICK k \in T : \A y \in T : k <= y
    <3> HIDE DEF T
    <3> QED BY <2>0, LeastNumber
  <2>2. k \in 1 .. n /\ ~ \E p \in S : Cardinality(Below(S, p)) = k
    BY <2>1
  <2>3. PICK low \in SUBSET S : IsFiniteSet(low) /\ Cardinality(low) = k - 1
                                   /\ \A x \in S, y \in low : x <= y => x \in low
    <3>1. CASE k = 1
      <4>1. {} \in SUBSET S /\ IsFiniteSet({}) /\ Cardinality({}) = 0
        BY FS_EmptySet
      <4> QED BY <3>1, <4>1
    <3>2. CASE k # 1
      <4>1. k - 1 \in 1 .. n /\ k - 1 \notin T
        BY <2>1, <2>2, <3>2
      <4>2. PICK p \in S : Cardinality(Below(S, p)) = k - 1
        BY <4>1
      <4>3. \A x \in S, y \in Below(S, p) : x <= y => x \in Below(S, p)
        BY <4>2 DEF Below
      <4> QED BY <1>1, <4>2, <4>3 DEF Below
    <3> QED BY <3>1, <3>2
  <2>4. S \ low # {}
    <3> SUFFICES ASSUME S = low PROVE FALSE
      OBVIOUS
    <3> QED BY <1>2, <2>2, <2>3
  <2>5. PICK p \in S \ low : \A y \in S \ low : p <= y
    BY <2>4, LeastNumber
  <2>6. Below(S, p) = low \cup {p}
    <3>1. low \subseteq Below(S, p)
      <4> SUFFICES ASSUME NEW y \in low PROVE y <= p
        BY DEF Below
      <4>1. ~(p <= y)
        BY <2>3, <2>5
      <4> QED BY <4>1, <2>5, <2>3
    <3>2. \A y \in Below(S, p) : y \in low \/ y = p
      BY <2>5 DEF Below
    <3> QED BY <3>1, <3>2, <2>5 DEF Below
  <2>7. Cardinality(Below(S, p)) = k
    BY <2>2, <2>3, <2>5, <2>6, FS_AddElement
  <2> QED BY <2>2, <2>5, <2>7
<1>4. \E p \in S : Cardinality(Below(S, p)) = n
  BY <1>3
<1> HIDE DEF T
<1> QED BY <1>4 DEF NthOf, Below

(* The lowest pages of a set are of it and differ, those that are free as   *)
(* well.                                                                    *)
LEMMA LowestApart ==
  ASSUME NEW S, S \subseteq Nat, IsFiniteSet(S), NEW n \in Nat \ {0}, Cardinality(S) >= n
  PROVE  /\ \A i \in 1 .. n : NthOf(S, i) \in S
         /\ \A i, j \in 1 .. n : NthOf(S, i) = NthOf(S, j) => i = j
<1>1. ASSUME NEW i \in 1 .. n PROVE NthOf(S, i) \in S /\ Cardinality(Below(S, NthOf(S, i))) = i
  <2>1. Cardinality(S) >= i /\ i \in Nat \ {0}
    BY FS_CardinalityType
  <2> QED BY <2>1, LowestThere
<1> QED BY <1>1

LEMMA PagesGivenOut ==
  ASSUME FreePages, NEW n \in Nat \ {0}, Enough(n)
  PROVE  /\ \A i \in 1 .. n : Page(i) \in free
         /\ \A i, j \in 1 .. n : Page(i) = Page(j) => i = j
<1>1. free \subseteq Nat /\ IsFiniteSet(free) /\ Cardinality(free) >= n
  BY DEF FreePages, Enough
<1> QED BY <1>1, LowestApart DEF Page

-----------------------------------------------------------------------------
(* The record of the controller at hand gets pages under new names.         *)
Names(p) == DOMAIN driver[p].page

Distinct(names, n) ==
  /\ n \in Nat \ {0} /\ DOMAIN names = 1 .. n
  /\ \A i, j \in 1 .. n : names[i] = names[j] => i = j

LEMMA FilledPages ==
  ASSUME NEW names, NEW pages, NEW n, Distinct(names, n),
         Record = [base |-> Record.base, page |-> Record.page, data |-> Record.data, count |-> Record.count]
  PROVE  LET r == Filled(names, pages) IN
         /\ r = [base |-> Record.base, page |-> r.page, data |-> Record.data, count |-> Record.count]
         /\ DOMAIN r.page = DOMAIN Record.page \cup {names[i] : i \in 1 .. n}
         /\ r.page = [name \in DOMAIN r.page |-> r.page[name]]
         /\ \A i \in 1 .. n : r.page[names[i]] = pages[i]
         /\ \A name \in DOMAIN Record.page : name \notin {names[i] : i \in 1 .. n} => r.page[name] = Record.page[name]
<1> DEFINE r == Filled(names, pages)
           at(name) == CHOOSE i \in 1 .. n : names[i] = name
           filled == [name \in DOMAIN Record.page \cup {names[i] : i \in 1 .. n} |->
                       IF \E i \in 1 .. n : names[i] = name THEN pages[at(name)] ELSE Record.page[name]]
<1>1. r = [Record EXCEPT !.page = filled]
  BY DEF Filled, Distinct
<1>2. \A i \in 1 .. n : at(names[i]) = i
  BY DEF Distinct
<1> HIDE DEF at
<1> DEFINE new == {names[i] : i \in 1 .. n}
<1>3. \A i \in 1 .. n : filled[names[i]] = pages[i]
  BY <1>2
<1>4. DOMAIN filled = DOMAIN Record.page \cup new
  OBVIOUS
<1>5. filled = [name \in DOMAIN filled |-> filled[name]]
  OBVIOUS
<1>6. \A name \in DOMAIN Record.page : name \notin new => filled[name] = Record.page[name]
  <2> SUFFICES ASSUME NEW name \in DOMAIN Record.page, name \notin new PROVE filled[name] = Record.page[name]
    BY Zenon
  <2>1. ~ \E i \in 1 .. n : names[i] = name
    OBVIOUS
  <2> QED BY <2>1
<1> HIDE DEF filled, new
<1>7. r.page = filled /\ r = [base |-> Record.base, page |-> filled, data |-> Record.data, count |-> Record.count]
  BY <1>1
<1>8. /\ r = [base |-> Record.base, page |-> r.page, data |-> Record.data, count |-> Record.count]
      /\ DOMAIN r.page = DOMAIN Record.page \cup new
      /\ r.page = [name \in DOMAIN r.page |-> r.page[name]]
      /\ \A i \in 1 .. n : r.page[names[i]] = pages[i]
      /\ \A name \in DOMAIN Record.page : name \notin new => r.page[name] = Record.page[name]
  <2> HIDE DEF r
  <2> QED BY <1>3, <1>4, <1>5, <1>6, <1>7, Zenon
<1> QED BY <1>8 DEF r, new

-----------------------------------------------------------------------------
(* How far the walk is with the controller at place p.                      *)
NvmeAt == {"reset", "admin", "enable", "enabled", "verify", "identify", "identified",
           "completions", "namespaces", "namespace", "table"}
AhciAt == {"general", "port", "stop", "signature", "command", "restart", "link", "name"}
XhciAt == {"halt", "halting", "resetting", "configure", "start", "starting"}

Before(p) == p > Here \/ (p = Here /\ boot.at \in {"function", "open", "done"})
Over(p) == p < Here
In(p, positions) == p = Here /\ boot.at \in positions

BootTypes ==
  /\ boot \in [place : Nat, at : {"function", "open", "done", "panic"} \cup NvmeAt \cup AhciAt \cup XhciAt,
               unit : Nat \ {0}, wait : Nat]
  /\ boot.at \in {"open"} \cup NvmeAt \cup AhciAt \cup XhciAt => Here \in Places
  /\ boot.at \in NvmeAt => Function.class = "nvme"
  /\ boot.at \in AhciAt => Function.class = "ahci"
  /\ boot.at \in XhciAt => Function.class = "xhci"
  /\ boot.at = "open" => Function.class \in Classes
  /\ boot.at = "function" => boot.wait = 0
  /\ boot.at \in {"function", "open", "general"} => boot.unit = 1

(* The machine is one of those assumed.                                     *)
MachineKnown ==
  /\ \A p \in Places : FunctionAssumption(function[p])
  /\ \E n \in Nat : owned = 1 .. n

(* Records, with pages of the machine.                                      *)
RecordTyped(p) ==
  LET r == driver[p]
  IN  /\ r = [base |-> r.base, page |-> r.page, data |-> r.data, count |-> r.count]
      /\ r.page = [name \in Names(p) |-> r.page[name]]
      /\ \A name \in Names(p) : r.page[name] \in Nat
      /\ Before(p) => r = NoRecord

RecordsTyped == DOMAIN driver = Places /\ \A p \in Places : RecordTyped(p)

-----------------------------------------------------------------------------
(* NVM Express.                                                             *)
Commands ==
  {NoCommand, Read}
  \cup {IdentifyController(q) : q \in Nat}
  \cup {IdentifyNamespace(n, q) : n \in Nat, q \in Nat}
  \cup {CreateCompletionQueue(q, CqSize) : q \in Nat}
  \cup {CreateSubmissionQueue(q, SqSize) : q \in Nat}

NvmeDevice ==
  [CC : [EN : BOOLEAN, CSS : Nat, MPS : Nat, IOSQES : Nat, IOCQES : Nat],
   CSTS : [RDY : BOOLEAN, CFS : BOOLEAN], master : BOOLEAN,
   ASQ : Nat, ACQ : Nat, sq : Nat, cq : Nat, command : Commands, told : SUBSET Nat]

AdminPages == {The("asq"), The("acq")}
AllPages == AdminPages \cup {The("identify"), The("iocq")}

(* The pages the record has ...                                             *)
NvmePages(p) ==
  /\ Names(p) \subseteq AllPages
  /\ In(p, {"reset", "admin"}) => Names(p) = {}
  /\ In(p, {"enable", "enabled", "verify", "identify"}) => Names(p) = AdminPages
  /\ In(p, {"identified"}) => Names(p) = AdminPages \cup {The("identify")}
  /\ In(p, {"completions", "namespaces", "namespace", "table"}) => Names(p) = AllPages

(* ... and where the controller has them.                                   *)
NvmeQueuesAt(p) ==
  /\ The("asq") \in Names(p) =>
       The("acq") \in Names(p) /\ hw[p].ASQ = driver[p].page[The("asq")] /\ hw[p].ACQ = driver[p].page[The("acq")]
  /\ hw[p].cq # 0 => The("iocq") \in Names(p) /\ hw[p].cq = driver[p].page[The("iocq")]
  /\ hw[p].sq # 0 => The("identify") \in Names(p) /\ hw[p].sq = driver[p].page[The("identify")]

(* The command under way is the one whose answer the thread waits for.      *)
NvmeCommand(p) ==
  LET c == hw[p].command
      identify == driver[p].page[The("identify")]
  IN  c # NoCommand =>
        \/ In(p, {"identified"}) /\ c = IdentifyController(identify)
        \/ In(p, {"completions"}) /\ c = CreateCompletionQueue(driver[p].page[The("iocq")], CqSize)
        \/ In(p, {"namespaces"}) /\ c = CreateSubmissionQueue(identify, SqSize)
        \/ In(p, {"namespace"}) /\ c = IdentifyNamespace(boot.unit, identify)
        \/ In(p, {"table"}) /\ c = Read

(* Off until it is enabled, on and ready from the first command on.         *)
NvmeOn(p) ==
  /\ In(p, {"admin", "enable"}) => ~hw[p].CC.EN /\ ~hw[p].CSTS.RDY
  /\ In(p, {"enabled", "verify"}) => hw[p].CC.EN
  /\ In(p, {"identified", "completions", "identify", "namespaces", "namespace", "table"})
       => hw[p].CC.EN /\ hw[p].CSTS.RDY

(* What it told of, and the answer in the page.                             *)
NvmeTold(p) ==
  LET f == function[p] told == hw[p].told data == driver[p].data
  IN  /\ Before(p) \/ In(p, {"reset", "admin", "enable", "enabled", "verify", "identify"}) => told = {}
      /\ In(p, {"identified"}) => told \subseteq {0} /\ data \in {Zeros, Told(f, 0)}
      /\ In(p, {"completions"}) => told \subseteq {0}
      /\ In(p, {"namespaces"}) => \A n \in told : n < boot.unit
      /\ In(p, {"namespace", "table"}) => \A n \in told : n <= boot.unit
      /\ In(p, {"namespace"}) =>
           /\ data = (IF boot.unit \in told THEN Told(f, boot.unit) ELSE Zeros)
           /\ boot.unit \in told => hw[p].command = NoCommand
      /\ In(p, {"namespace", "table"}) => boot.unit \in 1 .. Len(f.namespaces)
      /\ In(p, {"completions", "namespaces", "namespace", "table"}) =>
           driver[p].count \in {0, Len(f.namespaces)}

NvmeInv(p) ==
  function[p].class = "nvme" =>
    /\ hw[p] \in NvmeDevice
    /\ NvmePages(p) /\ NvmeQueuesAt(p) /\ NvmeCommand(p) /\ NvmeOn(p) /\ NvmeTold(p)

-----------------------------------------------------------------------------
(* AHCI.                                                                    *)
PortStates(said) ==
  [ST : BOOLEAN, CR : BOOLEAN, sign : {said.sign, "none"}, link : BOOLEAN, reset : BOOLEAN,
   CLB : Nat, FB : Nat \X Nat]

AhciTypes(p) ==
  LET d == hw[p] ports == function[p].ports
  IN  /\ d = [AE |-> d.AE, master |-> d.master, port |-> d.port]
      /\ d.AE \in BOOLEAN /\ d.master \in BOOLEAN
      /\ d.port = [i \in DOMAIN ports |-> d.port[i]]
      /\ \A i \in DOMAIN ports : d.port[i] \in PortStates(ports[i])

AhciPages(p) ==
  /\ \A name \in Names(p) : \E i \in DOMAIN function[p].ports :
       /\ name \in {<<"port", i>>, <<"name", i>>}
       /\ In(p, {"port", "stop", "signature", "command"}) => i < boot.unit
       /\ In(p, {"restart", "link", "name"}) => i < boot.unit \/ name = <<"port", boot.unit>>
  /\ In(p, {"general"}) => Names(p) = {}

AhciQueuesAt(p) ==
  \A i \in DOMAIN function[p].ports : <<"port", i>> \in Names(p) =>
    /\ hw[p].port[i].CLB = driver[p].page[<<"port", i>>]
    /\ hw[p].port[i].FB = <<hw[p].port[i].CLB, FisOffset>>
    /\ hw[p].AE /\ hw[p].master

(* The port at hand was told to stop, and its signature is its device's.    *)
AhciStopped(p) ==
  LET u == boot.unit
  IN  /\ \A i \in DOMAIN function[p].ports :
           ~hw[p].port[i].reset => hw[p].port[i].sign = function[p].ports[i].sign
      /\ In(p, AhciAt \ {"general"}) => hw[p].AE /\ hw[p].master
      /\ In(p, AhciAt \ {"general", "port"}) =>
           /\ u \in DOMAIN function[p].ports
           /\ function[p].ports[u].implemented /\ function[p].ports[u].det = 3 /\ function[p].ports[u].ipm = 1
      /\ In(p, {"stop", "signature", "command", "restart"}) => ~hw[p].port[u].ST
      /\ In(p, {"signature", "command"}) => ~hw[p].port[u].CR \/ hw[p].port[u].reset
      /\ In(p, {"command", "restart", "link", "name"}) => function[p].ports[u].sign = "ata"

AhciInv(p) ==
  function[p].class = "ahci" =>
    AhciTypes(p) /\ AhciPages(p) /\ AhciQueuesAt(p) /\ AhciStopped(p)

-----------------------------------------------------------------------------
(* xHCI.                                                                    *)
Operational == [DCBAAP : Nat, CRCR : Nat, DNCTRL : Nat, CONFIG : Nat]

XhciDevice ==
  [RS : BOOLEAN, INTE : BOOLEAN, HCRST : BOOLEAN, HCH : BOOLEAN, CNR : BOOLEAN, master : BOOLEAN,
   operational : Operational,
   interrupter : [IE : BOOLEAN, ERSTSZ : Nat, ERSTBA : Nat \X Nat, ERDP : Nat]]

XhciPages(p) ==
  /\ Names(p) = {} \/ Names(p) = {XhcPages(function[p])[i] : i \in DOMAIN XhcPages(function[p])}
  /\ In(p, {"halt", "halting", "resetting", "configure"}) => Names(p) = {}

XhciRegistersAt(p) ==
  The("command") \in Names(p) =>
    /\ {The("context"), The("event")} \subseteq Names(p)
    /\ \A i \in 1 .. ArrayPages(function[p]) :
         driver[p].page[<<"array", i>>] = driver[p].page[<<"array", 1>>] + i - 1
    /\ hw[p].operational.DCBAAP = driver[p].page[The("context")]
    /\ hw[p].operational.CRCR = driver[p].page[The("command")]
    /\ hw[p].interrupter.ERSTBA = <<driver[p].page[The("context")], SegmentTable>>
    /\ hw[p].interrupter.ERDP = driver[p].page[The("event")]
    /\ driver[p].data = Segment(driver[p].page[The("event")])

(* Stopped, and halted, from the halt to the start; in reset only while the *)
(* thread waits for its end.                                                *)
XhciHalted(p) ==
  /\ hw[p].HCRST => In(p, {"resetting"})
  /\ In(p, {"halting", "resetting", "configure", "start"}) => ~hw[p].RS
  /\ In(p, {"resetting", "configure", "start"}) => hw[p].HCH
  /\ In(p, {"configure", "start"}) => ~hw[p].CNR

XhciInv(p) ==
  function[p].class = "xhci" =>
    hw[p] \in XhciDevice /\ XhciPages(p) /\ XhciRegistersAt(p) /\ XhciHalted(p)

-----------------------------------------------------------------------------
(* The lists.                                                               *)
ChainKnown ==
  /\ chain \in Seq(Places)
  /\ \A k \in DOMAIN chain :
       /\ ~Before(chain[k]) /\ function[chain[k]].class \in Classes
       /\ driver[chain[k]].base = BaseAddress(function[chain[k]], BaseRegister(function[chain[k]].class))

Disk == [place : Places, unit : Nat, capacity : Nat]

(* The disks so far are of units the walk has come to.                      *)
Reached(p, unit) ==
  /\ In(p, {"namespaces", "namespace", "port", "stop", "signature", "command", "restart", "link"})
       => unit < boot.unit
  /\ In(p, {"table", "name"}) => unit <= boot.unit
  /\ ~In(p, {"reset", "admin", "enable", "enabled", "verify", "identify", "identified", "completions", "general"})

RegistryKnown ==
  /\ registry \in Seq(Disk)
  /\ \A k, l \in DOMAIN registry :
       registry[k].place = registry[l].place /\ registry[k].unit = registry[l].unit => k = l
  /\ \A k \in DOMAIN registry :
       /\ ~Before(registry[k].place) /\ function[registry[k].place].class \in {"nvme", "ahci"}
       /\ Reached(registry[k].place, registry[k].unit)

Listed(p, n) == \E k \in UnitsOf(p) : registry[k].unit = n

NvmeDisksKnown(p) ==
  LET f == function[p] plain == {n \in DOMAIN f.namespaces : f.namespaces[n].index.upper = 0}
  IN  function[p].class = "nvme" =>
        /\ \A k \in UnitsOf(p) :
             /\ registry[k].unit \in DOMAIN f.namespaces
             /\ registry[k].capacity = f.namespaces[registry[k].unit].size
             /\ registry[k].unit \in plain => registry[k].unit \in hw[p].told /\ NvmeDisk(f, registry[k].unit)
        /\ \A n \in plain \cap hw[p].told :
             NvmeDisk(f, n) /\ ~In(p, {"panic"}) => (In(p, {"namespace"}) /\ n = boot.unit) \/ Listed(p, n)

AhciDisksKnown(p) ==
  LET f == function[p]
  IN  f.class = "ahci" =>
        /\ \A k \in UnitsOf(p) : registry[k].unit \in DOMAIN f.ports /\ AhciDisk(f, registry[k].unit)
        /\ \A i \in DOMAIN f.ports :
             AhciDisk(f, i) /\ ~hw[p].port[i].reset =>
               \/ Listed(p, i) \/ Before(p) \/ In(p, {"general", "panic"})
               \/ In(p, AhciAt) /\ (i > boot.unit \/ (i = boot.unit /\ boot.at # "name"))

PcieInv ==
  /\ BootTypes /\ MachineKnown /\ DOMAIN hw = Places
  /\ RecordsTyped /\ PagesApart
  /\ \A p \in Places : NvmeInv(p) /\ AhciInv(p) /\ XhciInv(p)
  /\ ChainKnown /\ RegistryKnown
  /\ \A p \in Places : NvmeDisksKnown(p) /\ AhciDisksKnown(p)

(* A step leaves place p alone: that of a controller elsewhere, or of the   *)
(* thread while it works elsewhere, with disks of its own place at most.    *)
Walks ==
  /\ boot'.place \in Nat
  /\ boot'.place = Here \/ (boot'.place = Here + 1 /\ boot'.at = "function")

SameDisks(p) ==
  \/ registry' = registry
  \/ \E d \in Disk : registry' = <<d>> \o registry /\ d.place # p

LeftAlone(p) ==
  /\ p \in Places /\ UNCHANGED function
  /\ hw'[p] = hw[p] /\ driver'[p] = driver[p]
  /\ boot' = boot \/ (p # Here /\ Walks)
  /\ SameDisks(p)

LEMMA NumbersPlaces == Places \subseteq Nat /\ IsFiniteSet(Places)
<1>1. Cardinality(Places) \in Nat
  BY SetupAssumption, FS_CardinalityType
<1> QED BY <1>1, SetupAssumption

(* What is said of a place changes only with what it is said of.            *)
LEMMA SameStage ==
  ASSUME BootTypes, NEW p, LeftAlone(p)
  PROVE  /\ Before(p)' <=> Before(p)
         /\ Over(p)' <=> Over(p)
         /\ \A S : "function" \notin S => (p = boot'.place /\ boot'.at \in S <=> p = Here /\ boot.at \in S)
<1>1. Here \in Nat /\ p \in Nat
  BY NumbersPlaces DEF BootTypes, LeftAlone, Here
<1>2. CASE boot' = boot
  BY <1>2 DEF Before, Over, Here
<1>3. CASE p # Here /\ Walks
  BY <1>1, <1>3 DEF Before, Over, Here, Walks
<1> QED BY <1>2, <1>3 DEF LeftAlone

LEMMA Prepended ==
  ASSUME registry \in Seq(Disk), NEW d \in Disk, registry' = <<d>> \o registry
  PROVE  /\ registry' \in Seq(Disk)
         /\ DOMAIN registry' = 1 .. Len(registry) + 1 /\ DOMAIN registry = 1 .. Len(registry)
         /\ Len(registry) \in Nat
         /\ registry'[1] = d
         /\ \A k \in DOMAIN registry : k + 1 \in DOMAIN registry' /\ registry'[k + 1] = registry[k]
         /\ \A k \in DOMAIN registry' : k = 1 \/ (k - 1 \in DOMAIN registry /\ registry'[k] = registry[k - 1])
OBVIOUS

(* The units of a place's disks.                                            *)
LEMMA SameUnits ==
  ASSUME registry \in Seq(Disk), NEW p, SameDisks(p)
  PROVE  /\ \A n : Listed(p, n)' <=> Listed(p, n)
         /\ \A k \in UnitsOf(p)' : \E l \in UnitsOf(p) : registry'[k] = registry[l]
<1>1. CASE registry' = registry
  BY <1>1 DEF Listed, UnitsOf
<1>2. ASSUME NEW d \in Disk, registry' = <<d>> \o registry, d.place # p
      PROVE  /\ \A n : Listed(p, n)' <=> Listed(p, n)
             /\ \A k \in UnitsOf(p)' : \E l \in UnitsOf(p) : registry'[k] = registry[l]
  <2>1. \A k \in UnitsOf(p)' : k - 1 \in UnitsOf(p) /\ registry'[k] = registry[k - 1]
    BY <1>2, Prepended DEF UnitsOf
  <2>2. \A k \in UnitsOf(p) : k + 1 \in UnitsOf(p)' /\ registry'[k + 1] = registry[k]
    BY <1>2, Prepended DEF UnitsOf
  <2> QED BY <2>1, <2>2 DEF Listed
<1> QED BY <1>1, <1>2 DEF SameDisks

LEMMA NvmeFrame ==
  ASSUME BootTypes, NEW p, LeftAlone(p), NvmeInv(p)
  PROVE  NvmeInv(p)'
<1>1. CASE boot' = boot
  BY <1>1, SameStage DEF LeftAlone, NvmeInv, NvmePages, NvmeQueuesAt, NvmeCommand, NvmeOn, NvmeTold, Names, In, Before, Here
<1>2. CASE p # Here /\ Walks
  <2>1. ~(p = boot'.place) \/ boot'.at = "function"
    BY <1>2 DEF Walks, Here
  <2>2. p = boot'.place => boot'.at = "function"
    BY <2>1
  <2> USE SameStage DEF LeftAlone
  <2>3. function[p].class = "nvme" => NvmePages(p)' /\ NvmeQueuesAt(p)'
    BY <1>2, <2>2 DEF NvmeInv, NvmePages, NvmeQueuesAt, Names, In, Here
  <2>4. function[p].class = "nvme" => NvmeCommand(p)'
    BY <1>2, <2>2 DEF NvmeInv, NvmeCommand, In, Here
  <2>5. function[p].class = "nvme" => NvmeOn(p)' /\ NvmeTold(p)'
    BY <1>2, <2>2 DEF NvmeInv, NvmeOn, NvmeTold, In, Here
  <2> QED BY <2>3, <2>4, <2>5 DEF NvmeInv
<1> QED BY <1>1, <1>2 DEF LeftAlone

LEMMA AhciFrame ==
  ASSUME BootTypes, NEW p, LeftAlone(p), AhciInv(p)
  PROVE  AhciInv(p)'
<1>1. CASE boot' = boot
  BY <1>1 DEF LeftAlone, AhciInv, AhciTypes, AhciPages, AhciQueuesAt, AhciStopped, Names, In, Here
<1>2. CASE p # Here /\ Walks
  <2>2. p = boot'.place => boot'.at = "function"
    BY <1>2 DEF Walks, Here
  <2> QED BY <1>2, <2>2 DEF LeftAlone, AhciInv, AhciTypes, AhciPages, AhciQueuesAt, AhciStopped, AhciAt, Names, In, Here
<1> QED BY <1>1, <1>2 DEF LeftAlone

LEMMA XhciFrame ==
  ASSUME BootTypes, NEW p, LeftAlone(p), XhciInv(p)
  PROVE  XhciInv(p)'
<1>1. CASE boot' = boot
  BY <1>1 DEF LeftAlone, XhciInv, XhciPages, XhciRegistersAt, XhciHalted, Names, In, Here
<1>2. CASE p # Here /\ Walks
  <2>2. p = boot'.place => boot'.at = "function"
    BY <1>2 DEF Walks, Here
  <2> QED BY <1>2, <2>2 DEF LeftAlone, XhciInv, XhciPages, XhciRegistersAt, XhciHalted, Names, In, Here
<1> QED BY <1>1, <1>2 DEF LeftAlone

LEMMA DisksFrame ==
  ASSUME BootTypes, registry \in Seq(Disk), NEW p, LeftAlone(p), NvmeDisksKnown(p), AhciDisksKnown(p)
  PROVE  NvmeDisksKnown(p)' /\ AhciDisksKnown(p)'
<1>1. /\ \A n : Listed(p, n)' <=> Listed(p, n)
      /\ \A k \in UnitsOf(p)' : \E l \in UnitsOf(p) : registry'[k] = registry[l]
  BY SameUnits DEF LeftAlone
<1>2. Before(p)' <=> Before(p)
  BY SameStage
<1>3. boot' = boot \/ (p # Here /\ (p = boot'.place => boot'.at = "function"))
  BY DEF LeftAlone, Walks, Here
<1>4. UNCHANGED function /\ hw'[p] = hw[p]
  BY DEF LeftAlone
<1>5. NvmeDisksKnown(p)'
  <2> SUFFICES ASSUME function[p].class = "nvme" PROVE NvmeDisksKnown(p)'
    BY <1>4 DEF NvmeDisksKnown
  <2>1. /\ \A k \in UnitsOf(p)' :
             /\ registry'[k].unit \in DOMAIN function[p].namespaces
             /\ registry'[k].capacity = function[p].namespaces[registry'[k].unit].size
             /\ function[p].namespaces[registry'[k].unit].index.upper = 0 =>
                  registry'[k].unit \in hw[p].told /\ NvmeDisk(function[p], registry'[k].unit)
    BY <1>1 DEF NvmeDisksKnown
  <2>2. \A n \in DOMAIN function[p].namespaces \cap hw[p].told :
          function[p].namespaces[n].index.upper = 0 /\ NvmeDisk(function[p], n) /\ ~In(p, {"panic"})
            => (In(p, {"namespace"}) /\ n = boot.unit) \/ Listed(p, n)
    BY DEF NvmeDisksKnown
  <2>3. \A n \in DOMAIN function[p].namespaces \cap hw[p].told :
          function[p].namespaces[n].index.upper = 0 /\ NvmeDisk(function[p], n) /\ ~In(p, {"panic"})'
            => (In(p, {"namespace"})' /\ n = boot'.unit) \/ Listed(p, n)'
    BY <1>1, <1>3, <2>2 DEF In, Here
  <2> HIDE DEF Listed
  <2> QED BY <1>4, <2>1, <2>3 DEF NvmeDisksKnown
<1>6. AhciDisksKnown(p)'
  <2> SUFFICES ASSUME function[p].class = "ahci" PROVE AhciDisksKnown(p)'
    BY <1>4 DEF AhciDisksKnown
  <2>1. \A k \in UnitsOf(p)' : registry'[k].unit \in DOMAIN function[p].ports /\ AhciDisk(function[p], registry'[k].unit)
    BY <1>1 DEF AhciDisksKnown
  <2> QED BY <1>1, <1>2, <1>3, <1>4, <2>1 DEF AhciDisksKnown, In, Here, AhciAt
<1> QED BY <1>5, <1>6

-----------------------------------------------------------------------------
(* Pages.                                                                   *)
LEMMA PagesFree ==
  ASSUME MachineKnown, PagesApart
  PROVE  FreePages /\ free \subseteq owned /\ owned \subseteq Nat
<1>1. PICK n \in Nat : owned = 1 .. n
  BY DEF MachineKnown
<1>2. free \subseteq owned /\ owned \subseteq Nat /\ IsFiniteSet(owned)
  BY <1>1, FS_Interval DEF PagesApart
<1> QED BY <1>2, FS_Subset DEF FreePages

SamePages(p) ==
  /\ Names(p)' = Names(p) /\ Kept(p)' = Kept(p)
  /\ \A n \in Names(p) : driver'[p].page[n] = driver[p].page[n]

LEMMA KeptNamed == \A p : Kept(p) \subseteq Names(p)
BY DEF Kept, Names

(* What PagesApart says of the pages of two names.                          *)
ApartAt(p, q, n, m) ==
  driver[p].page[n] = driver[q].page[m] =>
    \/ p = q /\ n = m
    \/ p < q /\ n \notin Kept(p)
    \/ q < p /\ m \notin Kept(q)

LEMMA NamesApart ==
  PagesApart <=>
    /\ \A p, q \in Places : \A n \in Names(p), m \in Names(q) : ApartAt(p, q, n, m)
    /\ free \cup UNION {{driver[p].page[n] : n \in Kept(p)} : p \in Places} = owned
    /\ \A p \in Places : \A n \in Kept(p) : driver[p].page[n] \notin free
BY DEF PagesApart, ApartAt, Names

LEMMA NamesApartThen ==
  PagesApart' <=>
    /\ \A p, q \in Places : \A n \in Names(p)', m \in Names(q)' : ApartAt(p, q, n, m)'
    /\ free' \cup UNION {{driver'[p].page[n] : n \in Kept(p)'} : p \in Places} = owned'
    /\ \A p \in Places : \A n \in Kept(p)' : driver'[p].page[n] \notin free'
BY DEF PagesApart, ApartAt, Names

LEMMA PagesStay ==
  ASSUME PagesApart, UNCHANGED <<free, owned>>, \A p \in Places : SamePages(p)
  PROVE  PagesApart'
<1> DEFINE held(q) == {driver[q].page[n] : n \in Kept(q)}
           holds(q) == {driver'[q].page[n] : n \in Kept(q)'}
<1>1. \A q \in Places : Names(q)' = Names(q) /\ Kept(q)' = Kept(q)
                        /\ \A n \in Names(q) : driver'[q].page[n] = driver[q].page[n]
  BY DEF SamePages
<1>2. \A q \in Places : \A n \in Kept(q) : n \in Names(q)
  BY KeptNamed
<1>3. \A q \in Places : holds(q) = held(q)
  BY <1>1, <1>2
<1>4. (UNION {holds(q) : q \in Places}) = (UNION {held(q) : q \in Places})
  <2> HIDE DEF holds, held
  <2> QED BY <1>3
<1>5. free' \cup (UNION {holds(q) : q \in Places}) = owned'
  <2>1. free \cup (UNION {held(q) : q \in Places}) = owned
    BY NamesApart
  <2> HIDE DEF holds, held
  <2> QED BY <1>4, <2>1
<1>6. ASSUME NEW p \in Places, NEW q \in Places, NEW n \in Names(p)', NEW m \in Names(q)'
      PROVE  ApartAt(p, q, n, m)'
  <2>1. n \in Names(p) /\ m \in Names(q)
    BY <1>1
  <2>2. ApartAt(p, q, n, m)
    BY <2>1, NamesApart
  <2> QED BY <1>1, <2>1, <2>2 DEF ApartAt
<1>7. \A q \in Places : \A n \in Kept(q)' : driver'[q].page[n] \notin free'
  BY <1>1, <1>2, NamesApart
<1> QED BY <1>5, <1>6, <1>7, NamesApartThen

(* The newest of the records gets pages.                                    *)
LEMMA PagesGained ==
  ASSUME PagesApart, owned' = owned, Places \subseteq Nat, NEW p \in Places, NEW new,
         \A q \in Places \ {p} : SamePages(q) /\ (q < p \/ Names(q) = {}),
         Kept(p) = Names(p), Kept(p)' = Names(p)',
         Names(p)' = Names(p) \cup new, new \cap Names(p) = {},
         \A n \in Names(p) : driver'[p].page[n] = driver[p].page[n],
         \A n \in new : driver'[p].page[n] \in free,
         \A n, m \in new : driver'[p].page[n] = driver'[p].page[m] => n = m,
         free' = free \ {driver'[p].page[n] : n \in new}
  PROVE  PagesApart'
<1> DEFINE held(q) == {driver[q].page[n] : n \in Kept(q)}
           holds(q) == {driver'[q].page[n] : n \in Kept(q)'}
           spent == {driver'[p].page[n] : n \in new}
<1>1. \A q \in Places : \A n \in Kept(q) : n \in Names(q)
  BY KeptNamed
<1>2. \A q \in Places : q # p => /\ Names(q)' = Names(q) /\ Kept(q)' = Kept(q)
                                /\ \A n \in Names(q) : driver'[q].page[n] = driver[q].page[n]
  BY DEF SamePages
<1>3. \A q \in Places : q # p => holds(q) = held(q)
  BY <1>1, <1>2
<1>4. holds(p) = held(p) \cup spent
  OBVIOUS
<1>5. spent \subseteq free /\ free' = free \ spent
  OBVIOUS
<1>6. (UNION {holds(q) : q \in Places}) = (UNION {held(q) : q \in Places}) \cup spent
  <2> HIDE DEF holds, held, spent
  <2>1. \A x \in (UNION {holds(q) : q \in Places}) : x \in (UNION {held(q) : q \in Places}) \cup spent
    BY <1>3, <1>4
  <2>2. \A x \in (UNION {held(q) : q \in Places}) \cup spent : x \in (UNION {holds(q) : q \in Places})
    BY <1>3, <1>4
  <2> QED BY <2>1, <2>2
<1>7. free \cup (UNION {held(q) : q \in Places}) = owned
  BY NamesApart
<1>8. free' \cup (UNION {holds(q) : q \in Places}) = owned
  <2> HIDE DEF holds, held, spent
  <2> QED BY <1>5, <1>6, <1>7
<1>9. ASSUME NEW q \in Places, NEW n \in Names(q)'
      PROVE  \/ n \in Names(q) /\ driver'[q].page[n] = driver[q].page[n]
             \/ q = p /\ n \in new /\ driver'[q].page[n] \in free
  <2>1. CASE q = p
    BY <2>1
  <2>2. CASE q # p
    BY <1>2, <2>2
  <2> QED BY <2>1, <2>2
<1>10. ASSUME NEW q \in Places, NEW n \in Names(q), n \notin new \/ q # p
       PROVE  /\ n \in Kept(q)' <=> n \in Kept(q)
              /\ driver[q].page[n] \in free => q < p /\ n \notin Kept(q)'
  <2>1. n \in Kept(q)' <=> n \in Kept(q)
    BY <1>2
  <2>2. driver[q].page[n] \in free => n \notin Kept(q)
    BY NamesApart
  <2> QED BY <2>1, <2>2
<1>11. ASSUME NEW q \in Places, NEW r \in Places, NEW n \in Names(q)', NEW m \in Names(r)',
              driver'[q].page[n] = driver'[r].page[m]
       PROVE  \/ q = r /\ n = m
              \/ q < r /\ n \notin Kept(q)'
              \/ r < q /\ m \notin Kept(r)'
  <2>1. \/ n \in Names(q) /\ driver'[q].page[n] = driver[q].page[n]
        \/ q = p /\ n \in new /\ driver'[q].page[n] \in free
    BY <1>9
  <2>2. \/ m \in Names(r) /\ driver'[r].page[m] = driver[r].page[m]
        \/ r = p /\ m \in new /\ driver'[r].page[m] \in free
    BY <1>9
  <2>3. \A k \in new : k \notin Names(p)
    OBVIOUS
  <2>4. CASE q = p /\ n \in new /\ r = p /\ m \in new
    BY <1>11, <2>4
  <2>5. CASE q = p /\ n \in new /\ ~(r = p /\ m \in new)
    <3>1. m \in Names(r) /\ driver[r].page[m] \in free
      BY <1>11, <2>1, <2>2, <2>3, <2>5
    <3>2. r < p /\ m \notin Kept(r)'
      BY <3>1, <2>5, <1>10
    <3> QED BY <3>2, <2>5
  <2>6. CASE ~(q = p /\ n \in new) /\ r = p /\ m \in new
    <3>1. n \in Names(q) /\ driver[q].page[n] \in free
      BY <1>11, <2>1, <2>2, <2>3, <2>6
    <3>2. q < p /\ n \notin Kept(q)'
      BY <3>1, <2>6, <1>10
    <3> QED BY <3>2, <2>6
  <2>7. CASE ~(q = p /\ n \in new) /\ ~(r = p /\ m \in new)
    <3>1. n \in Names(q) /\ m \in Names(r) /\ driver[q].page[n] = driver[r].page[m]
      BY <1>11, <2>1, <2>2, <2>7
    <3>2. \/ q = r /\ n = m
          \/ q < r /\ n \notin Kept(q)
          \/ r < q /\ m \notin Kept(r)
      BY <3>1, NamesApart DEF ApartAt
    <3>3. (n \in Kept(q)' <=> n \in Kept(q)) /\ (m \in Kept(r)' <=> m \in Kept(r))
      BY <3>1, <2>7, <1>10
    <3> QED BY <3>2, <3>3
  <2> QED BY <2>4, <2>5, <2>6, <2>7
<1>12. \A q, r \in Places : \A n \in Names(q)', m \in Names(r)' : ApartAt(q, r, n, m)'
  BY <1>11 DEF ApartAt
<1>13. ASSUME NEW q \in Places, NEW n \in Kept(q)' PROVE driver'[q].page[n] \notin free'
  <2>1. CASE q = p /\ n \in new
    BY <2>1
  <2>2. CASE q = p /\ n \notin new
    <3>1. driver[p].page[n] \notin free /\ driver'[p].page[n] = driver[p].page[n]
      BY <2>2, <1>13, NamesApart
    <3> QED BY <3>1, <2>2, <1>5
  <2>3. CASE q # p
    <3>1. n \in Kept(q) /\ n \in Names(q)
      BY <2>3, <1>13, <1>2, <1>1
    <3>2. driver[q].page[n] \notin free /\ driver'[q].page[n] = driver[q].page[n]
      BY <3>1, <2>3, <1>2, NamesApart
    <3> QED BY <3>2, <1>5
  <2> QED BY <2>1, <2>2, <2>3
<1> HIDE DEF held, spent
<1> QED BY <1>8, <1>12, <1>13, NamesApartThen

LEMMA PageReturned ==
  ASSUME PagesApart, owned' = owned, NEW p \in Places, NEW name \in Kept(p), Places \subseteq Nat,
         \A q \in Places \ {p} : SamePages(q),
         Names(p)' = Names(p), Kept(p)' = Kept(p) \ {name},
         \A n \in Names(p) : driver'[p].page[n] = driver[p].page[n],
         free' = free \cup {driver[p].page[name]}
  PROVE  PagesApart'
<1> DEFINE held(q) == {driver[q].page[n] : n \in Kept(q)}
           holds(q) == {driver'[q].page[n] : n \in Kept(q)'}
<1>1. \A q \in Places : \A n \in Kept(q) : n \in Names(q)
  BY KeptNamed
<1>2. \A q \in Places : /\ Names(q)' = Names(q)
                        /\ \A n \in Names(q) : driver'[q].page[n] = driver[q].page[n]
                        /\ Kept(q)' \subseteq Kept(q) /\ (q # p => Kept(q)' = Kept(q))
  BY DEF SamePages
<1>3. \A q \in Places : q # p => holds(q) = held(q)
  BY <1>1, <1>2
<1>4. held(p) = holds(p) \cup {driver[p].page[name]}
  BY <1>1
<1>5. free' \cup (UNION {holds(q) : q \in Places}) = free \cup (UNION {held(q) : q \in Places})
  <2> HIDE DEF holds, held
  <2>1. \A x \in (UNION {holds(q) : q \in Places}) : x \in (UNION {held(q) : q \in Places})
    BY <1>3, <1>4
  <2>2. \A x \in (UNION {held(q) : q \in Places}) : x \in (UNION {holds(q) : q \in Places}) \cup {driver[p].page[name]}
    BY <1>3, <1>4
  <2>3. driver[p].page[name] \in (UNION {held(q) : q \in Places})
    BY <1>4
  <2> QED BY <2>1, <2>2, <2>3
<1>6. ASSUME NEW q \in Places, NEW r \in Places, NEW n \in Names(q)', NEW m \in Names(r)'
      PROVE  ApartAt(q, r, n, m)'
  <2>1. n \in Names(q) /\ m \in Names(r) /\ driver'[q].page[n] = driver[q].page[n] /\ driver'[r].page[m] = driver[r].page[m]
    BY <1>2
  <2>2. ApartAt(q, r, n, m)
    BY <2>1, NamesApart
  <2> QED BY <1>2, <2>1, <2>2 DEF ApartAt
<1>7. ASSUME NEW q \in Places, NEW n \in Kept(q)' PROVE driver'[q].page[n] \notin free'
  <2>1. n \in Kept(q) /\ n \in Names(q) /\ (q # p \/ n # name) /\ driver'[q].page[n] = driver[q].page[n]
    BY <1>1, <1>2, <1>7
  <2>2. driver[q].page[n] # driver[p].page[name]
    <3>1. ApartAt(q, p, n, name) /\ name \in Kept(p)
      BY <1>1, <2>1, NamesApart
    <3> QED BY <2>1, <3>1 DEF ApartAt
  <2>3. driver[q].page[n] \notin free
    BY <2>1, NamesApart
  <2> QED BY <2>1, <2>2, <2>3
<1>8. free' \cup (UNION {holds(q) : q \in Places}) = owned'
  <2>1. free \cup (UNION {held(q) : q \in Places}) = owned
    BY NamesApart
  <2> HIDE DEF holds, held
  <2> QED BY <1>5, <2>1
<1> QED BY <1>6, <1>7, <1>8, NamesApartThen

-----------------------------------------------------------------------------
(* What a step at place p leaves of the other places.                       *)
StepAt(p) ==
  /\ p \in Places /\ UNCHANGED world
  /\ DOMAIN hw' = Places /\ DOMAIN driver' = Places
  /\ \A q \in Places \ {p} : hw'[q] = hw[q] /\ driver'[q] = driver[q]
  /\ boot' = boot \/ (p = Here /\ Walks)
  /\ registry' = registry \/ \E d \in Disk : registry' = <<d>> \o registry /\ d.place = p

LEMMA LeavesOthers ==
  ASSUME NEW p, StepAt(p), NEW q \in Places \ {p}
  PROVE  LeftAlone(q)
BY DEF StepAt, LeftAlone, SameDisks, world

LEMMA OthersPages ==
  ASSUME BootTypes, NEW p, StepAt(p), NEW q \in Places \ {p}
  PROVE  SamePages(q)
<1>1. LeftAlone(q)
  BY LeavesOthers
<1>2. Passed(q)' <=> Passed(q)
  <2>1. Here \in Nat /\ q \in Nat
    BY NumbersPlaces DEF BootTypes, Here
  <2> QED BY <1>1, <2>1, SameStage DEF Over, Passed, Here
<1> QED BY <1>1, <1>2 DEF SamePages, Kept, Names, LeftAlone

LEMMA OthersRecords ==
  ASSUME BootTypes, RecordsTyped, NEW p, StepAt(p), NEW q \in Places \ {p}
  PROVE  RecordTyped(q)'
<1>1. LeftAlone(q)
  BY LeavesOthers
<1>2. Before(q)' <=> Before(q)
  BY <1>1, SameStage
<1> HIDE DEF Before
<1> QED BY <1>1, <1>2 DEF RecordsTyped, RecordTyped, LeftAlone, Names

(* So it keeps the invariant when it keeps what is said of its own place.   *)
Own(p) ==
  /\ RecordTyped(p) /\ NvmeInv(p) /\ AhciInv(p) /\ XhciInv(p)
  /\ NvmeDisksKnown(p) /\ AhciDisksKnown(p)

LEMMA StepKeeps ==
  ASSUME PcieInv, NEW p, StepAt(p), BootTypes', Own(p)', PagesApart', ChainKnown', RegistryKnown'
  PROVE  PcieInv'
<1> USE DEF PcieInv
<1>1. MachineKnown'
  BY DEF MachineKnown, StepAt, world
<1>2. DOMAIN hw' = Places /\ DOMAIN driver' = Places
  BY DEF StepAt
<1>3. ASSUME NEW q \in Places PROVE Own(q)'
  <2>1. CASE q = p
    BY <2>1
  <2>2. CASE q # p
    <3>1. LeftAlone(q) /\ q \in Places \ {p}
      BY <2>2, LeavesOthers
    <3>2. RecordTyped(q)'
      BY <3>1, OthersRecords
    <3>3. NvmeInv(q)' /\ AhciInv(q)' /\ XhciInv(q)'
      BY <3>1, NvmeFrame, AhciFrame, XhciFrame
    <3>4. NvmeDisksKnown(q)' /\ AhciDisksKnown(q)'
      BY <3>1, DisksFrame DEF RegistryKnown
    <3> QED BY <3>2, <3>3, <3>4 DEF Own
  <2> QED BY <2>1, <2>2
<1>4. RecordsTyped'
  BY <1>2, <1>3, Zenon DEF RecordsTyped, Own
<1> QED BY <1>1, <1>2, <1>3, <1>4, Zenon DEF Own

-----------------------------------------------------------------------------
(* The lists.                                                               *)
LEMMA ListsStay ==
  ASSUME BootTypes, ChainKnown, RegistryKnown, UNCHANGED lists, NEW p, StepAt(p),
         driver'[p].base = driver[p].base,
         Before(p)' => Before(p),
         \A unit \in Nat : Reached(p, unit) => Reached(p, unit)'
  PROVE  ChainKnown' /\ RegistryKnown'
<1>1. UNCHANGED function /\ chain' = chain /\ registry' = registry
  BY DEF StepAt, world, lists
<1>2. ASSUME NEW q \in Places, ~Before(q) PROVE ~Before(q)' /\ driver'[q].base = driver[q].base
  <2>1. CASE q = p
    BY <1>2, <2>1
  <2>2. CASE q # p
    <3>1. LeftAlone(q)
      BY <2>2, LeavesOthers
    <3> QED BY <1>2, <3>1, SameStage DEF LeftAlone
  <2> QED BY <2>1, <2>2
<1>3. ASSUME NEW q \in Places, NEW unit \in Nat, Reached(q, unit) PROVE Reached(q, unit)'
  <2>1. CASE q = p
    BY <1>3, <2>1
  <2>2. CASE q # p
    <3>1. LeftAlone(q)
      BY <2>2, LeavesOthers
    <3>2. boot' = boot \/ (q = boot'.place => boot'.at = "function")
      BY <3>1 DEF LeftAlone, Walks, Here
    <3>3. CASE boot' = boot
      BY <1>3, <3>3 DEF Reached, In, Here
    <3>4. CASE q = boot'.place => boot'.at = "function"
      BY <3>4 DEF Reached, In, Here
    <3> QED BY <3>2, <3>3, <3>4
  <2> QED BY <2>1, <2>2
<1> HIDE DEF Before, Reached
<1>4. ChainKnown'
  <2>1. \A k \in DOMAIN chain : chain[k] \in Places
    BY DEF ChainKnown
  <2> QED BY <1>1, <1>2, <2>1 DEF ChainKnown
<1>5. RegistryKnown'
  <2>1. \A k \in DOMAIN registry : registry[k].place \in Places /\ registry[k].unit \in Nat
    <3>1. registry \in Seq(Disk)
      BY DEF RegistryKnown
    <3>2. \A k \in DOMAIN registry : registry[k] \in Disk
      BY <3>1
    <3> QED BY <3>2 DEF Disk
  <2> QED BY <1>1, <1>2, <1>3, <2>1 DEF RegistryKnown
<1> QED BY <1>4, <1>5

-----------------------------------------------------------------------------
(* A device goes on by itself.                                              *)
DeviceAt(p) ==
  /\ p \in Places /\ UNCHANGED <<world, lists, free, boot>>
  /\ DOMAIN hw' = Places /\ DOMAIN driver' = Places
  /\ \A q \in Places \ {p} : hw'[q] = hw[q] /\ driver'[q] = driver[q]

LEMMA DeviceKeeps ==
  ASSUME PcieInv, NEW p, DeviceAt(p), driver'[p] = driver[p] \/ (~Before(p) /\ RecordTyped(p)'),
         Names(p)' = Names(p), driver'[p].base = driver[p].base, driver'[p].page = driver[p].page,
         NvmeInv(p)', AhciInv(p)', XhciInv(p)', NvmeDisksKnown(p)', AhciDisksKnown(p)'
  PROVE  PcieInv'
<1>1. StepAt(p)
  BY DEF DeviceAt, StepAt, lists, world
<1>2. UNCHANGED <<boot, chain, registry, function, free, owned>> /\ p \in Places
  BY DEF DeviceAt, lists, world
<1>3. BootTypes'
  <2>1. BootTypes
    BY DEF PcieInv
  <2> QED BY <1>2, <2>1 DEF BootTypes, Function, Here
<1>4. \A q : Before(q)' <=> Before(q)
  BY <1>2 DEF Before, Here
<1>5. RecordTyped(p)'
  <2>1. CASE driver'[p] = driver[p]
    <3> HIDE DEF Before
    <3> QED BY <1>2, <1>4, <2>1 DEF RecordTyped, RecordsTyped, PcieInv, Names
  <2> QED BY <2>1
<1>6. \A q \in Places : SamePages(q)
  BY <1>2 DEF DeviceAt, SamePages, Kept, Names, Passed
<1>7. PagesApart'
  BY <1>2, <1>6, PagesStay DEF PcieInv
<1>8. \A unit \in Nat : Reached(p, unit) => Reached(p, unit)'
  BY <1>2 DEF Reached, In, Here
<1>9. ChainKnown' /\ RegistryKnown'
  BY <1>1, <1>2, <1>4, <1>8, ListsStay DEF PcieInv, lists
<1> QED BY <1>1, <1>3, <1>5, <1>7, <1>9, StepKeeps DEF Own

LEMMA OtherClass ==
  ASSUME NEW p, UNCHANGED function
  PROVE  /\ function[p].class # "nvme" => NvmeInv(p)' /\ NvmeDisksKnown(p)'
         /\ function[p].class # "ahci" => AhciInv(p)' /\ AhciDisksKnown(p)'
         /\ function[p].class # "xhci" => XhciInv(p)'
BY DEF NvmeInv, NvmeDisksKnown, AhciInv, AhciDisksKnown, XhciInv

(* A device that does not tell of another namespace and resets no link has  *)
(* the same disks.                                                          *)
LEMMA DisksStay ==
  ASSUME NEW p, UNCHANGED <<function, boot, registry>>, NvmeDisksKnown(p), AhciDisksKnown(p),
         function[p].class = "nvme" => hw'[p].told = hw[p].told,
         function[p].class = "ahci" => \A i \in DOMAIN function[p].ports : hw'[p].port[i].reset = hw[p].port[i].reset
  PROVE  NvmeDisksKnown(p)' /\ AhciDisksKnown(p)'
<1>1. UnitsOf(p)' = UnitsOf(p) /\ \A n : Listed(p, n)' <=> Listed(p, n)
  BY DEF UnitsOf, Listed
<1>2. NvmeDisksKnown(p)'
  <2> HIDE DEF Listed, UnitsOf
  <2> QED BY <1>1 DEF NvmeDisksKnown, In, Here
<1>3. AhciDisksKnown(p)'
  <2> HIDE DEF Listed, UnitsOf
  <2> QED BY <1>1 DEF AhciDisksKnown, In, Here, Before
<1> QED BY <1>2, <1>3

-----------------------------------------------------------------------------
LEMMA XhciControllerKeeps ==
  ASSUME PcieInv, NEW p \in Places, XhciController(p)
  PROVE  PcieInv' /\ XhciSwitched(hw[p], hw'[p]) /\ (\A q \in Places \ {p} : hw'[q] = hw[q]) /\ function[p].class = "xhci"
<1>1. /\ XhciInv(p) /\ hw[p] \in XhciDevice /\ function[p].class = "xhci"
      /\ UNCHANGED <<world, lists, driver, free, boot>> /\ RecordsTyped /\ DOMAIN hw = Places
  <2>1. function[p].class = "xhci" /\ UNCHANGED <<world, lists, driver, free, boot>>
    BY Zenon DEF XhciController, HaltsOrRuns, ResetEnds, BecomesReady
  <2>2. XhciInv(p) /\ RecordsTyped /\ DOMAIN hw = Places
    BY DEF PcieInv
  <2> QED BY <2>1, <2>2 DEF XhciInv
<1>2. XhciInv(p)' /\ DeviceAt(p) /\ XhciSwitched(hw[p], hw'[p])
  <2>1. CASE HaltsOrRuns(p)
    <3>1. /\ hw' = [hw EXCEPT ![p].HCH = ~hw[p].RS] /\ hw[p].RS = hw[p].HCH /\ ~hw[p].HCRST
      BY <2>1 DEF HaltsOrRuns
    <3>2. hw'[p] = [hw[p] EXCEPT !.HCH = ~hw[p].RS] /\ hw'[p] \in XhciDevice
      BY <1>1, <3>1 DEF XhciDevice
    <3>3. XhciPages(p)' /\ XhciRegistersAt(p)' /\ XhciHalted(p)'
      BY <1>1, <3>1, <3>2 DEF XhciInv, XhciPages, XhciRegistersAt, XhciHalted, XhciDevice, Names, In, Here, world
    <3>4. DeviceAt(p)
      BY <1>1, <3>1 DEF DeviceAt, RecordsTyped
    <3> QED BY <1>1, <3>1, <3>2, <3>3, <3>4 DEF XhciInv, XhciSwitched, XhciDevice
  <2>2. CASE ResetEnds(p)
    <3>1. PICK broken \in {FALSE, function[p].breaks}, ready \in BOOLEAN :
       hw' = [hw EXCEPT ![p] = [@ EXCEPT !.HCRST = FALSE, !.CNR = ~ready, !.HCH = TRUE, !.RS = FALSE,
                                         !.INTE = FALSE,
                                         !.operational = IF broken THEN Left ELSE Nothing,
                                         !.interrupter = NoInterrupter]]
      BY <2>2, Zenon DEF ResetEnds
    <3>2. /\ hw'[p] = [hw[p] EXCEPT !.HCRST = FALSE, !.CNR = ~ready, !.HCH = TRUE, !.RS = FALSE, !.INTE = FALSE,
                                    !.operational = IF broken THEN Left ELSE Nothing, !.interrupter = NoInterrupter]
          /\ \A q \in Places \ {p} : hw'[q] = hw[q]
          /\ DOMAIN hw' = Places
      BY <1>1, <3>1
    <3>3. NoInterrupter \in [IE : BOOLEAN, ERSTSZ : Nat, ERSTBA : Nat \X Nat, ERDP : Nat]
          /\ Left \in Operational /\ Nothing \in Operational
      BY DEF NoInterrupter, Left, Nothing, Operational
    <3>4. hw'[p] \in XhciDevice
      <4> HIDE DEF Left, Nothing, NoInterrupter
      <4> QED BY <1>1, <3>2, <3>3 DEF XhciDevice
    <3>5. hw[p].HCRST /\ In(p, {"resetting"})
      BY <1>1, <2>2 DEF ResetEnds, XhciInv, XhciHalted
    <3>6. ~hw'[p].HCRST /\ hw'[p].HCH /\ ~hw'[p].RS /\ hw'[p].operational \in {Left, Nothing} /\ hw[p].HCH
      BY <1>1, <3>2, <3>5 DEF XhciDevice, XhciInv, XhciHalted, In
    <3>7. XhciPages(p)' /\ XhciRegistersAt(p)' /\ XhciHalted(p)'
      <4>1. Names(p) = {} /\ Names(p)' = {}
        BY <1>1, <3>5 DEF XhciInv, XhciPages, In, Names
      <4> QED BY <1>1, <3>5, <3>6, <4>1 DEF XhciPages, XhciRegistersAt, XhciHalted, In, Here
    <3>8. DeviceAt(p)
      BY <1>1, <3>2 DEF DeviceAt, RecordsTyped
    <3> QED BY <1>1, <3>4, <3>5, <3>6, <3>7, <3>8 DEF XhciInv, XhciSwitched
  <2>3. CASE BecomesReady(p)
    <3>1. hw' = [hw EXCEPT ![p].CNR = FALSE] /\ hw[p].CNR
      BY <2>3 DEF BecomesReady
    <3>2. hw'[p] = [hw[p] EXCEPT !.CNR = FALSE] /\ hw'[p] \in XhciDevice
      BY <1>1, <3>1 DEF XhciDevice
    <3>3. XhciPages(p)' /\ XhciRegistersAt(p)' /\ XhciHalted(p)'
      BY <1>1, <3>1, <3>2 DEF XhciInv, XhciPages, XhciRegistersAt, XhciHalted, XhciDevice, Names, In, Here, world
    <3>4. DeviceAt(p)
      BY <1>1, <3>1 DEF DeviceAt, RecordsTyped
    <3> QED BY <1>1, <3>1, <3>2, <3>3, <3>4 DEF XhciInv, XhciSwitched, XhciDevice
  <2> QED BY <2>1, <2>2, <2>3 DEF XhciController
<1>3. UNCHANGED <<function, boot, registry, driver>>
  BY <1>1 DEF world, lists
<1>4. NvmeInv(p)' /\ AhciInv(p)' /\ NvmeDisksKnown(p)' /\ AhciDisksKnown(p)'
  BY <1>1, <1>3, OtherClass
<1>5. PcieInv'
  BY <1>2, <1>3, <1>4, DeviceKeeps DEF Names
<1> QED BY <1>1, <1>2, <1>5 DEF DeviceAt

-----------------------------------------------------------------------------
LEMMA AhciControllerKeeps ==
  ASSUME PcieInv, NEW p \in Places, AhciController(p)
  PROVE  PcieInv' /\ AhciSwitched(hw[p], hw'[p]) /\ (\A q \in Places \ {p} : hw'[q] = hw[q]) /\ function[p].class = "ahci"
<1> DEFINE ports == DOMAIN function[p].ports
           d == hw[p]
           signs == {function[p].ports[i].sign : i \in ports} \cup {"none"}
<1>1. /\ AhciInv(p) /\ AhciTypes(p) /\ function[p].class = "ahci"
      /\ UNCHANGED <<world, lists, driver, free, boot>> /\ RecordsTyped /\ DOMAIN hw = Places
      /\ NvmeDisksKnown(p) /\ AhciDisksKnown(p)
  <2>1. function[p].class = "ahci" /\ UNCHANGED <<world, lists, driver, free, boot>>
    BY Zenon DEF AhciController, PortStops, PortStarts, LinkReturns
  <2>2. AhciInv(p) /\ RecordsTyped /\ DOMAIN hw = Places /\ NvmeDisksKnown(p) /\ AhciDisksKnown(p)
    BY DEF PcieInv
  <2> QED BY <2>1, <2>2 DEF AhciInv
<1>2. DOMAIN d.port = ports /\ d = [AE |-> d.AE, master |-> d.master, port |-> d.port]
  BY <1>1 DEF AhciTypes
<1>3. PICK i \in ports, c \in BOOLEAN, link \in BOOLEAN, sign \in signs :
        /\ hw' = [hw EXCEPT ![p].port[i] = [@ EXCEPT !.CR = c, !.link = link, !.sign = sign]]
        /\ c => d.port[i].CR \/ d.port[i].ST
        /\ sign = d.port[i].sign \/ sign = function[p].ports[i].sign
  <2>1. ASSUME NEW i \in ports
        PROVE  d.port[i] = [ST |-> d.port[i].ST, CR |-> d.port[i].CR, sign |-> d.port[i].sign, link |-> d.port[i].link,
                            reset |-> d.port[i].reset, CLB |-> d.port[i].CLB, FB |-> d.port[i].FB]
               /\ d.port[i].CR \in BOOLEAN /\ d.port[i].link \in BOOLEAN /\ d.port[i].sign \in signs
    <3>1. d.port[i] \in PortStates(function[p].ports[i])
      BY <1>1 DEF AhciTypes
    <3> QED BY <3>1 DEF PortStates
  <2>2. CASE PortStops(p)
    <3>1. PICK i \in ports : hw' = [hw EXCEPT ![p].port[i].CR = FALSE]
      BY <1>2, <2>2 DEF PortStops
    <3>2. [d.port[i] EXCEPT !.CR = FALSE] = [d.port[i] EXCEPT !.CR = FALSE, !.link = d.port[i].link, !.sign = d.port[i].sign]
      BY <2>1
    <3>3. hw' = [hw EXCEPT ![p].port[i] = [@ EXCEPT !.CR = FALSE, !.link = d.port[i].link, !.sign = d.port[i].sign]]
      BY <3>1, <3>2, Zenon
    <3> QED BY <2>1, <3>3, Zenon
  <2>3. CASE PortStarts(p)
    <3>1. PICK i \in ports : hw' = [hw EXCEPT ![p].port[i].CR = TRUE] /\ d.port[i].ST
      BY <1>2, <2>3 DEF PortStarts
    <3>2. [d.port[i] EXCEPT !.CR = TRUE] = [d.port[i] EXCEPT !.CR = TRUE, !.link = d.port[i].link, !.sign = d.port[i].sign]
      BY <2>1
    <3>3. hw' = [hw EXCEPT ![p].port[i] = [@ EXCEPT !.CR = TRUE, !.link = d.port[i].link, !.sign = d.port[i].sign]]
      BY <3>1, <3>2, Zenon
    <3>4. d.port[i].link \in BOOLEAN /\ d.port[i].sign \in signs /\ TRUE \in BOOLEAN
      BY <2>1
    <3> QED BY <3>1, <3>3, <3>4, Zenon
  <2>4. CASE LinkReturns(p)
    <3>1. PICK i \in ports, stopped \in BOOLEAN :
            hw' = [hw EXCEPT ![p].port[i] = [@ EXCEPT !.link = TRUE, !.sign = function[p].ports[i].sign,
                                                      !.CR = hw[p].port[i].CR /\ ~stopped]]
      BY <1>2, <2>4, Zenon DEF LinkReturns
    <3>2. [d.port[i] EXCEPT !.link = TRUE, !.sign = function[p].ports[i].sign, !.CR = d.port[i].CR /\ ~stopped]
          = [d.port[i] EXCEPT !.CR = d.port[i].CR /\ ~stopped, !.link = TRUE, !.sign = function[p].ports[i].sign]
      BY <2>1
    <3>3. hw' = [hw EXCEPT ![p].port[i] = [@ EXCEPT !.CR = d.port[i].CR /\ ~stopped, !.link = TRUE,
                                                    !.sign = function[p].ports[i].sign]]
      BY <3>1, <3>2, Zenon
    <3>4. (d.port[i].CR /\ ~stopped) \in BOOLEAN /\ function[p].ports[i].sign \in signs
      OBVIOUS
    <3> QED BY <3>3, <3>4, Zenon
  <2> QED BY <2>2, <2>3, <2>4, Zenon DEF AhciController
<1> HIDE DEF signs
<1>4. /\ hw'[p] = [d EXCEPT !.port[i] = [@ EXCEPT !.CR = c, !.link = link, !.sign = sign]]
      /\ \A q \in Places \ {p} : hw'[q] = hw[q]
      /\ DOMAIN hw' = Places
  BY <1>1, <1>3
<1> HIDE DEF d
<1>5. /\ hw'[p].AE = d.AE /\ hw'[p].master = d.master
      /\ hw'[p].port = [d.port EXCEPT ![i] = [d.port[i] EXCEPT !.CR = c, !.link = link, !.sign = sign]]
      /\ hw'[p] = [AE |-> d.AE, master |-> d.master, port |-> hw'[p].port]
  BY <1>2, <1>4
<1>6. d.port[i] \in PortStates(function[p].ports[i])
  BY <1>1 DEF AhciTypes, d
<1>70. hw'[p].port[i] = [d.port[i] EXCEPT !.CR = c, !.link = link, !.sign = sign]
  BY <1>2, <1>5
<1>71. sign \in {function[p].ports[i].sign, "none"}
  BY <1>3, <1>6 DEF PortStates, d
<1>7. /\ hw'[p].port[i] \in PortStates(function[p].ports[i])
      /\ hw'[p].port[i].ST = d.port[i].ST /\ hw'[p].port[i].reset = d.port[i].reset
      /\ hw'[p].port[i].CLB = d.port[i].CLB /\ hw'[p].port[i].FB = d.port[i].FB
      /\ hw'[p].port[i].CR = c /\ hw'[p].port[i].sign = sign
  BY <1>6, <1>70, <1>71 DEF PortStates
<1>8. \A j \in ports \ {i} : hw'[p].port[j] = d.port[j]
  BY <1>2, <1>5
<1>9. hw'[p].port = [j \in ports |-> hw'[p].port[j]]
  BY <1>2, <1>5
<1>10. UNCHANGED <<function, boot, registry, driver>>
  BY <1>1 DEF world, lists
<1>11. DeviceAt(p)
  BY <1>1, <1>4 DEF DeviceAt, RecordsTyped
<1>12. AhciTypes(p)'
  <2>1. \A j \in ports : hw'[p].port[j] \in PortStates(function[p].ports[j])
    BY <1>1, <1>7, <1>8 DEF AhciTypes, d
  <2>2. d.AE \in BOOLEAN /\ d.master \in BOOLEAN
    BY <1>1 DEF AhciTypes, d
  <2> HIDE DEF ports, PortStates
  <2> QED BY <1>5, <1>9, <1>10, <2>1, <2>2 DEF AhciTypes, ports
<1>13. AhciPages(p)' /\ AhciQueuesAt(p)' /\ AhciStopped(p)'
  <2>1. AhciPages(p)'
    BY <1>1, <1>10 DEF AhciInv, AhciPages, Names, In, Here
  <2>2. AhciQueuesAt(p)'
    BY <1>1, <1>5, <1>7, <1>8, <1>10 DEF AhciInv, AhciQueuesAt, Names, d
  <2>3. \A j \in ports : ~hw'[p].port[j].reset => hw'[p].port[j].sign = function[p].ports[j].sign
    BY <1>1, <1>3, <1>7, <1>8 DEF AhciInv, AhciStopped, d
  <2>4. \A j \in ports : /\ hw'[p].port[j].ST = d.port[j].ST /\ hw'[p].port[j].reset = d.port[j].reset
                         /\ hw'[p].port[j].CR => d.port[j].CR \/ d.port[j].ST
    BY <1>3, <1>7, <1>8
  <2>5. In(p, {"signature", "command"}) => boot.unit \in ports /\ ~d.port[boot.unit].ST
    BY <1>1 DEF AhciInv, AhciStopped, d, AhciAt, In
  <2>6. AhciStopped(p)'
    <3>1. /\ AhciStopped(p) /\ UNCHANGED function /\ \A S : In(p, S)' <=> In(p, S)
          /\ hw'[p].AE = hw[p].AE /\ hw'[p].master = hw[p].master /\ boot'.unit = boot.unit
      BY <1>1, <1>5, <1>10 DEF AhciInv, In, Here, d
    <3>2. In(p, {"stop", "signature", "command", "restart"}) => boot.unit \in ports
      BY <1>1 DEF AhciInv, AhciStopped, AhciAt, In
    <3>3. In(p, {"stop", "signature", "command", "restart"}) => ~hw'[p].port[boot.unit].ST
      BY <2>4, <3>1, <3>2 DEF AhciStopped, d
    <3>4. In(p, {"signature", "command"}) => ~hw'[p].port[boot.unit].CR \/ hw'[p].port[boot.unit].reset
      BY <2>4, <2>5, <3>1 DEF AhciStopped, d
    <3> HIDE DEF In
    <3> QED BY ONLY <2>3, <3>1, <3>3, <3>4 DEF AhciStopped, ports
  <2> QED BY <2>1, <2>2, <2>6
<1>14. AhciSwitched(d, hw'[p])
  BY <1>2, <1>7, <1>8 DEF AhciSwitched
<1>15. NvmeDisksKnown(p)' /\ AhciDisksKnown(p)'
  <2>1. \A j \in ports : hw'[p].port[j].reset = hw[p].port[j].reset
    BY <1>7, <1>8 DEF d
  <2> QED BY <1>1, <1>10, <2>1, DisksStay
<1>16. NvmeInv(p)' /\ XhciInv(p)' /\ AhciInv(p)'
  BY <1>1, <1>10, <1>12, <1>13, OtherClass DEF AhciInv
<1>17. PcieInv'
  BY <1>10, <1>11, <1>15, <1>16, DeviceKeeps DEF Names
<1> QED BY <1>1, <1>4, <1>14, <1>17 DEF d

LEMMA FunctionsKnown ==
  ASSUME MachineKnown, NEW p \in Places
  PROVE  LET f == function[p] IN
         /\ f.class \in Classes => AddressAssumption(f.address, BaseRegister(f.class))
         /\ f.class = "nvme" => f.namespaces \in Seq(Namespaces) /\ f.capability.MPSMIN \in Nat
         /\ f.class = "ahci" => f.ports \in Seq(Ports)
         /\ f.class = "xhci" => Field(f.capability.slots, 255) /\ f.capability.scratchpads \in Nat
<1>1. FunctionAssumption(function[p])
  BY DEF MachineKnown
<1>2. /\ function[p].class \in Classes => AddressAssumption(function[p].address, BaseRegister(function[p].class))
      /\ function[p].class = "nvme" => function[p].namespaces \in Seq(Namespaces) /\ Field(function[p].capability.MPSMIN, 15)
      /\ function[p].class = "ahci" => function[p].ports \in Seq(Ports)
      /\ function[p].class = "xhci" => Field(function[p].capability.slots, 255) /\ Field(function[p].capability.scratchpads, 1023)
  BY <1>1 DEF FunctionAssumption
<1>3. /\ function[p].class = "xhci" => function[p].capability.scratchpads \in Nat
      /\ function[p].class = "nvme" => function[p].capability.MPSMIN \in Nat
  BY <1>2 DEF Field
<1> QED BY <1>2, <1>3

LEMMA CommandsDiffer ==
  ASSUME NEW p, NvmeCommand(p), boot.unit \in Nat, hw[p].command # NoCommand
  PROVE  \/ /\ hw[p].command.opcode = "identify" /\ In(p, {"identified"})
            /\ hw[p].command.nsid = 0 /\ hw[p].command.prp = driver[p].page[The("identify")]
         \/ /\ hw[p].command.opcode = "createCQ" /\ In(p, {"completions"})
            /\ hw[p].command.prp = driver[p].page[The("iocq")]
         \/ /\ hw[p].command.opcode = "createSQ" /\ In(p, {"namespaces"})
            /\ hw[p].command.prp = driver[p].page[The("identify")]
         \/ /\ hw[p].command.opcode = "identify" /\ In(p, {"namespace"})
            /\ hw[p].command.nsid = boot.unit
         \/ hw[p].command.opcode = "read" /\ In(p, {"table"})
BY DEF NvmeCommand, IdentifyController, IdentifyNamespace, CreateCompletionQueue, CreateSubmissionQueue, Read

(* A device that only goes on.                                              *)
LEMMA NvmeDeviceKeeps ==
  ASSUME PcieInv, NEW p \in Places, function[p].class = "nvme",
         UNCHANGED <<world, lists, driver, free, boot>>, NEW device,
         hw' = [hw EXCEPT ![p] = device], device \in NvmeDevice,
         device.CC = hw[p].CC, device.ASQ = hw[p].ASQ, device.ACQ = hw[p].ACQ, device.told = hw[p].told,
         device.command = hw[p].command \/ device.command = NoCommand,
         device.CSTS.RDY = hw[p].CSTS.RDY \/ device.CSTS.RDY = hw[p].CC.EN,
         device.cq \in {0, hw[p].cq} \/ (In(p, {"completions"}) /\ device.cq = driver[p].page[The("iocq")]),
         device.sq \in {0, hw[p].sq} \/ (In(p, {"namespaces"}) /\ device.sq = driver[p].page[The("identify")])
  PROVE  PcieInv' /\ NvmeSwitched(hw[p], hw'[p]) /\ (\A q \in Places \ {p} : hw'[q] = hw[q])
<1>1. /\ NvmeInv(p) /\ RecordsTyped /\ DOMAIN hw = Places /\ NvmeDisksKnown(p) /\ AhciDisksKnown(p)
  BY DEF PcieInv
<1>2. hw'[p] = device /\ DOMAIN hw' = Places /\ \A q \in Places \ {p} : hw'[q] = hw[q]
  BY <1>1
<1>3. UNCHANGED <<function, boot, registry, driver>>
  BY DEF world, lists
<1>4. DeviceAt(p)
  BY <1>1, <1>2 DEF DeviceAt, RecordsTyped
<1>5. NvmePages(p)'
  BY <1>1, <1>3 DEF NvmeInv, NvmePages, Names, In, Here
<1>6. NvmeQueuesAt(p)'
  BY <1>1, <1>2, <1>3 DEF NvmeInv, NvmePages, AllPages, AdminPages, NvmeQueuesAt, Names, In, Here
<1>7. NvmeCommand(p)'
  BY <1>1, <1>2, <1>3 DEF NvmeInv, NvmeCommand, In, Here
<1>8. NvmeOn(p)'
  BY <1>1, <1>2, <1>3 DEF NvmeInv, NvmeOn, In, Here
<1>9. NvmeTold(p)'
  BY <1>1, <1>2, <1>3 DEF NvmeInv, NvmeTold, In, Here, Before
<1>10. NvmeInv(p)'
  BY <1>2, <1>5, <1>6, <1>7, <1>8, <1>9 DEF NvmeInv
<1>11. NvmeDisksKnown(p)' /\ AhciDisksKnown(p)'
  BY <1>1, <1>2, <1>3, DisksStay
<1>12. AhciInv(p)' /\ XhciInv(p)'
  BY <1>3, OtherClass
<1>13. PcieInv'
  BY <1>3, <1>4, <1>10, <1>11, <1>12, DeviceKeeps DEF Names
<1> QED BY <1>2, <1>13 DEF NvmeSwitched

LEMMA NvmeControllerKeeps ==
  ASSUME PcieInv, NEW p \in Places, NvmeController(p) \/ Fatal(p)
  PROVE  PcieInv' /\ NvmeSwitched(hw[p], hw'[p]) /\ (\A q \in Places \ {p} : hw'[q] = hw[q]) /\ function[p].class = "nvme"
<1> DEFINE d == hw[p]
<1>1. function[p].class = "nvme"
  BY Zenon DEF NvmeController, Fatal, Follow, Identified, QueueCreated, CommandFails, ReadDone, Runs
<1>2. /\ NvmeInv(p) /\ d \in NvmeDevice /\ RecordsTyped /\ DOMAIN hw = Places /\ BootTypes
      /\ NvmeDisksKnown(p) /\ AhciDisksKnown(p) /\ NvmeCommand(p) /\ NvmeQueuesAt(p) /\ MachineKnown
  BY <1>1 DEF PcieInv, NvmeInv
<1>3. boot.unit \in Nat /\ NoCommand \in Commands
  BY <1>2 DEF BootTypes, Commands
<1>4. /\ DOMAIN d = {"CC", "CSTS", "master", "ASQ", "ACQ", "sq", "cq", "command", "told"}
      /\ d.CC \in [EN : BOOLEAN, CSS : Nat, MPS : Nat, IOSQES : Nat, IOCQES : Nat]
      /\ d.CSTS \in [RDY : BOOLEAN, CFS : BOOLEAN] /\ d.master \in BOOLEAN
      /\ d.ASQ \in Nat /\ d.ACQ \in Nat /\ d.sq \in Nat /\ d.cq \in Nat /\ d.command \in Commands /\ d.told \subseteq Nat
      /\ d = [CC |-> d.CC, CSTS |-> d.CSTS, master |-> d.master, ASQ |-> d.ASQ, ACQ |-> d.ACQ,
              sq |-> d.sq, cq |-> d.cq, command |-> d.command, told |-> d.told]
  <2> HIDE DEF Commands
  <2> QED BY <1>2 DEF NvmeDevice
<1>5. CASE Follow(p)
  <2> DEFINE e == [d EXCEPT !.CSTS = Status(d.CC.EN, FALSE), !.sq = 0, !.cq = 0, !.command = NoCommand]
  <2>1. hw' = [hw EXCEPT ![p] = e] /\ UNCHANGED <<world, lists, driver, free, boot>>
    BY <1>5 DEF Follow
  <2>2. /\ e \in NvmeDevice /\ e.CC = d.CC /\ e.ASQ = d.ASQ /\ e.ACQ = d.ACQ /\ e.told = d.told
        /\ e.command = NoCommand /\ e.CSTS.RDY = d.CC.EN /\ e.cq = 0 /\ e.sq = 0
    <3> HIDE DEF d, NoCommand, Commands
    <3> QED BY <1>3, <1>4 DEF NvmeDevice, Status
  <2> HIDE DEF e
  <2> QED BY <1>1, <2>1, <2>2, NvmeDeviceKeeps DEF d
<1>6. CASE Fatal(p)
  <2> DEFINE e == [d EXCEPT !.CSTS.CFS = TRUE]
  <2>1. hw' = [hw EXCEPT ![p] = e] /\ UNCHANGED <<world, lists, driver, free, boot>>
    BY <1>6 DEF Fatal
  <2>2. /\ e \in NvmeDevice /\ e.CC = d.CC /\ e.ASQ = d.ASQ /\ e.ACQ = d.ACQ /\ e.told = d.told
        /\ e.command = d.command /\ e.CSTS.RDY = d.CSTS.RDY /\ e.cq = d.cq /\ e.sq = d.sq
    <3> HIDE DEF d, NoCommand, Commands
    <3> QED BY <1>3, <1>4 DEF NvmeDevice
  <2> HIDE DEF e
  <2> QED BY <1>1, <2>1, <2>2, NvmeDeviceKeeps DEF d
<1>7. CASE CommandFails(p) \/ ReadDone(p)
  <2> DEFINE e == [d EXCEPT !.command = NoCommand]
  <2>1. hw' = [hw EXCEPT ![p] = e] /\ UNCHANGED <<world, lists, driver, free, boot>>
    BY <1>7 DEF CommandFails, ReadDone
  <2>2. /\ e \in NvmeDevice /\ e.CC = d.CC /\ e.ASQ = d.ASQ /\ e.ACQ = d.ACQ /\ e.told = d.told
        /\ e.command = NoCommand /\ e.CSTS.RDY = d.CSTS.RDY /\ e.cq = d.cq /\ e.sq = d.sq
    <3> HIDE DEF d, NoCommand, Commands
    <3> QED BY <1>3, <1>4 DEF NvmeDevice
  <2> HIDE DEF e
  <2> QED BY <1>1, <2>1, <2>2, NvmeDeviceKeeps DEF d
<1>8. CASE QueueCreated(p)
  <2> DEFINE c == d.command
             e == [d EXCEPT !.command = NoCommand, !.cq = IF c.opcode = "createCQ" THEN c.prp ELSE d.cq,
                            !.sq = IF c.opcode = "createSQ" THEN c.prp ELSE d.sq]
  <2>1. hw' = [hw EXCEPT ![p] = e] /\ UNCHANGED <<world, lists, driver, free, boot>> /\ c # NoCommand
        /\ c.opcode \in {"createCQ", "createSQ"}
    BY <1>8, Zenon DEF QueueCreated, Runs
  <2>2. \/ c.opcode = "createCQ" /\ In(p, {"completions"}) /\ c.prp = driver[p].page[The("iocq")]
        \/ c.opcode = "createSQ" /\ In(p, {"namespaces"}) /\ c.prp = driver[p].page[The("identify")]
    BY <1>2, <1>3, <2>1, CommandsDiffer
  <2>3. c.prp \in Nat
    <3>1. NvmePages(p) /\ RecordTyped(p)
      BY <1>1, <1>2 DEF NvmeInv, RecordsTyped
    <3> QED BY <2>2, <3>1 DEF NvmePages, RecordTyped, In, AllPages
  <2>4. /\ e \in NvmeDevice /\ e.CC = d.CC /\ e.ASQ = d.ASQ /\ e.ACQ = d.ACQ /\ e.told = d.told
        /\ e.command = NoCommand /\ e.CSTS.RDY = d.CSTS.RDY
        /\ e.cq = (IF c.opcode = "createCQ" THEN c.prp ELSE d.cq)
        /\ e.sq = (IF c.opcode = "createSQ" THEN c.prp ELSE d.sq)
    <3> HIDE DEF d, NoCommand, Commands, c
    <3> QED BY <1>3, <1>4, <2>3 DEF NvmeDevice
  <2>5. /\ e.cq \in {0, d.cq} \/ (In(p, {"completions"}) /\ e.cq = driver[p].page[The("iocq")])
        /\ e.sq \in {0, d.sq} \/ (In(p, {"namespaces"}) /\ e.sq = driver[p].page[The("identify")])
    <3> HIDE DEF e, c, d
    <3> QED BY <2>2, <2>4
  <2> HIDE DEF e, c
  <2> QED BY <1>1, <2>1, <2>4, <2>5, NvmeDeviceKeeps DEF d
<1>9. CASE Identified(p)
  <2> DEFINE c == d.command
             n == c.nsid
             e == [d EXCEPT !.command = NoCommand, !.told = d.told \cup {n}]
             f == function[p]
  <2>1. /\ hw' = [hw EXCEPT ![p] = e] /\ UNCHANGED <<world, lists, free, boot>> /\ c # NoCommand
        /\ c.opcode = "identify" /\ driver' = [driver EXCEPT ![p].data = Told(f, n)]
    BY <1>9, Zenon DEF Identified, Runs
  <2>2. \/ In(p, {"identified"}) /\ n = 0
        \/ In(p, {"namespace"}) /\ n = boot.unit
    BY <1>2, <1>3, <2>1, CommandsDiffer
  <2>3. n \in Nat /\ p = Here
    BY <1>3, <2>2 DEF In
  <2>4. /\ e \in NvmeDevice /\ e.CC = d.CC /\ e.ASQ = d.ASQ /\ e.ACQ = d.ACQ /\ e.told = d.told \cup {n}
        /\ e.command = NoCommand /\ e.CSTS = d.CSTS /\ e.cq = d.cq /\ e.sq = d.sq
    <3> HIDE DEF d, NoCommand, Commands, n
    <3> QED BY <1>3, <1>4, <2>3 DEF NvmeDevice
  <2> HIDE DEF e
  <2>5. hw'[p] = e /\ DOMAIN hw' = Places /\ \A q \in Places \ {p} : hw'[q] = hw[q]
    BY <1>2, <2>1
  <2>6. UNCHANGED <<function, boot, registry>>
    BY <2>1 DEF world, lists
  <2>7. /\ driver'[p] = [driver[p] EXCEPT !.data = Told(f, n)] /\ DOMAIN driver' = Places
        /\ \A q \in Places \ {p} : driver'[q] = driver[q]
    BY <1>2, <2>1 DEF RecordsTyped
  <2>8. RecordTyped(p)
    BY <1>2 DEF RecordsTyped
  <2>9. /\ driver'[p] = [base |-> driver[p].base, page |-> driver[p].page, data |-> Told(f, n), count |-> driver[p].count]
        /\ driver'[p].base = driver[p].base /\ driver'[p].page = driver[p].page /\ driver'[p].data = Told(f, n)
        /\ driver'[p].count = driver[p].count
    BY <2>7, <2>8 DEF RecordTyped
  <2>10. ~Before(p) /\ RecordTyped(p)'
    <3>1. ~Before(p) /\ ~Before(p)'
      BY <1>2, <2>2, <2>3, <2>6, NumbersPlaces DEF Before, In, Here, BootTypes
    <3> HIDE DEF Before
    <3> QED BY <2>8, <2>9, <3>1 DEF RecordTyped, Names
  <2>11. NvmePages(p)' /\ NvmeQueuesAt(p)' /\ NvmeCommand(p)' /\ NvmeOn(p)'
    BY <1>1, <1>2, <2>4, <2>5, <2>6, <2>9 DEF NvmeInv, NvmePages, NvmeQueuesAt, NvmeCommand, NvmeOn, Names, In, Here
  <2>12. NvmeTold(p)'
    <3>1. NvmeTold(p)
      BY <1>1, <1>2 DEF NvmeInv
    <3>0. ~Before(p)'
      BY <2>6, <2>10 DEF Before, Here
    <3> HIDE DEF Before, n
    <3>2. CASE In(p, {"identified"}) /\ n = 0
      BY <3>0, <3>1, <3>2, <2>4, <2>5, <2>6, <2>9 DEF NvmeTold, In, Here
    <3>3. CASE In(p, {"namespace"}) /\ n = boot.unit
      <4>1. \A k \in hw'[p].told : k <= boot.unit
        BY <1>3, <1>4, <3>1, <3>3, <2>3, <2>4, <2>5 DEF NvmeTold, In
      <4> QED BY <1>3, <3>0, <3>1, <3>3, <4>1, <2>4, <2>5, <2>6, <2>9 DEF NvmeTold, In, Here
    <3> QED BY <2>2, <3>2, <3>3
  <2>13. NvmeInv(p)'
    BY <2>4, <2>5, <2>11, <2>12 DEF NvmeInv
  <2>14. NvmeDisksKnown(p)'
    <3>1. UnitsOf(p)' = UnitsOf(p) /\ \A m : Listed(p, m)' <=> Listed(p, m)
      BY <2>6 DEF UnitsOf, Listed
    <3>2. f.namespaces \in Seq(Namespaces)
      BY <1>1, <1>2, FunctionsKnown
    <3>3. n \in DOMAIN f.namespaces => In(p, {"namespace"}) /\ n = boot.unit
      BY <2>2, <3>2
    <3> HIDE DEF Listed, UnitsOf, n
    <3> QED BY <1>1, <1>2, <2>4, <2>5, <2>6, <3>1, <3>3 DEF NvmeDisksKnown, In, Here, d
  <2>15. AhciInv(p)' /\ XhciInv(p)' /\ AhciDisksKnown(p)'
    BY <1>1, <2>6, OtherClass
  <2>16. DeviceAt(p)
    BY <2>1, <2>5, <2>7 DEF DeviceAt
  <2>17. PcieInv'
    BY <2>9, <2>10, <2>13, <2>14, <2>15, <2>16, DeviceKeeps DEF Names
  <2> QED BY <1>1, <2>4, <2>5, <2>17 DEF NvmeSwitched
<1> QED BY <1>5, <1>6, <1>7, <1>8, <1>9 DEF NvmeController

(* The thread comes to a set-up, leaves one or panics.                      *)
Leaves == boot' = [place |-> Here + 1, at |-> "function", unit |-> 1, wait |-> 0]

LEMMA QuietKeeps ==
  ASSUME PcieInv, NEW p \in Places, p = Here, UNCHANGED <<world, lists, hw, driver>>,
         \/ Leaves
         \/ boot.at = "function" /\ Go("open") /\ function[p].class \in Classes
         \/ Go("panic"),
         PagesApart' \/ (free' = free /\ (Leaves => The("identify") \notin Names(p))),
         function[p].class = "nvme" => hw[p].command = NoCommand,
         function[p].class = "xhci" => ~hw[p].HCRST,
         Leaves /\ function[p].class = "ahci" =>
           \A i \in DOMAIN function[p].ports : AhciDisk(function[p], i) /\ ~hw[p].port[i].reset => Listed(p, i),
         boot.at \notin {"panic", "namespace"}
  PROVE  PcieInv'
<1>1. /\ BootTypes /\ MachineKnown /\ DOMAIN hw = Places /\ RecordsTyped /\ PagesApart /\ RecordTyped(p)
      /\ NvmeInv(p) /\ AhciInv(p) /\ XhciInv(p) /\ ChainKnown /\ RegistryKnown
      /\ NvmeDisksKnown(p) /\ AhciDisksKnown(p)
  BY DEF PcieInv, RecordsTyped
<1>2. UNCHANGED <<function, owned, chain, registry, hw, driver>>
  BY DEF world, lists
<1>3. p \in Nat /\ Here \in Nat
  BY NumbersPlaces
<1>4. boot = [place |-> Here, at |-> boot.at, unit |-> boot.unit, wait |-> boot.wait] /\ boot.unit \in Nat \ {0} /\ boot.wait \in Nat
      /\ (boot.at = "function" => boot.unit = 1)
  BY <1>1 DEF BootTypes, Here
<1>5. /\ boot'.at \in {"function", "open", "panic"} /\ boot'.unit \in Nat \ {0} /\ boot'.wait \in Nat /\ boot'.place \in Nat
      /\ boot' = [place |-> boot'.place, at |-> boot'.at, unit |-> boot'.unit, wait |-> boot'.wait]
      /\ boot'.at = "function" <=> Leaves
      /\ boot'.place = Here \/ (boot'.place = Here + 1 /\ boot'.at = "function")
      /\ boot'.at \in {"open", "panic"} => boot'.place = Here
      /\ boot'.at = "function" => boot'.place = Here + 1 /\ boot'.unit = 1 /\ boot'.wait = 0
      /\ boot'.at = "open" => boot.at = "function" /\ boot'.unit = 1 /\ function[p].class \in Classes
  BY <1>3, <1>4 DEF Leaves, Go
<1>6. StepAt(p)
  BY <1>1, <1>5 DEF StepAt, Walks, RecordsTyped, lists
<1>7. BootTypes'
  BY <1>2, <1>5 DEF BootTypes, Function, Here, NvmeAt, AhciAt, XhciAt
<1>8. /\ Before(p)' <=> boot'.at = "open"
      /\ boot'.at = "open" => Before(p)
      /\ \A S : "panic" \notin S => ~(p = boot'.place /\ boot'.at \in S /\ boot'.at \notin {"function", "open"})
      /\ p = boot'.place => boot'.at \in {"open", "panic"}
  BY <1>3, <1>5 DEF Before, Here
<1>9. RecordTyped(p)'
  <2>1. Before(p)' => Before(p)
    BY <1>8
  <2> HIDE DEF Before
  <2> QED BY <1>1, <1>2, <2>1 DEF RecordTyped, Names
<1>10. NvmeInv(p)'
  <2> SUFFICES ASSUME function[p].class = "nvme" PROVE NvmeInv(p)'
    BY <1>2 DEF NvmeInv
  <2>1. NvmePages(p)' /\ NvmeQueuesAt(p)'
    BY <1>1, <1>2, <1>8 DEF NvmeInv, NvmePages, NvmeQueuesAt, Names, In, Here
  <2>3. NvmeCommand(p)' /\ NvmeOn(p)'
    BY <1>1, <1>2, <1>8 DEF NvmeInv, NvmeCommand, NvmeOn, Names, In, Here
  <2>2. NvmeTold(p)'
    <3>1. Before(p)' => Before(p)
      BY <1>8
    <3> HIDE DEF Before
    <3> QED BY <1>1, <1>2, <1>8, <3>1 DEF NvmeInv, NvmeTold, In, Here
  <2> QED BY <1>1, <1>2, <2>1, <2>2, <2>3 DEF NvmeInv
<1>11. AhciInv(p)'
  <2> SUFFICES ASSUME function[p].class = "ahci" PROVE AhciInv(p)'
    BY <1>2 DEF AhciInv
  <2>1. AhciTypes(p) /\ AhciPages(p) /\ AhciQueuesAt(p) /\ AhciStopped(p)
    BY <1>1 DEF AhciInv
  <2>2. AhciTypes(p)'
    BY <1>2, <2>1 DEF AhciTypes
  <2>3. AhciQueuesAt(p)' /\ Names(p)' = Names(p)
    BY <1>2, <2>1 DEF AhciQueuesAt, Names
  <2>4. \A S : "panic" \notin S /\ "function" \notin S /\ "open" \notin S => ~In(p, S)'
    BY <1>8 DEF In, Here
  <2>5. /\ ~In(p, {"general"})' /\ ~In(p, {"port", "stop", "signature", "command"})'
        /\ ~In(p, {"restart", "link", "name"})' /\ ~In(p, AhciAt \ {"general"})'
        /\ ~In(p, AhciAt \ {"general", "port"})' /\ ~In(p, {"stop", "signature", "command", "restart"})'
        /\ ~In(p, {"signature", "command"})' /\ ~In(p, {"command", "restart", "link", "name"})'
    <3> HIDE DEF In
    <3> QED BY <2>4 DEF AhciAt
  <2> HIDE DEF In, Names
  <2>6. AhciPages(p)'
    BY <1>2, <2>1, <2>3, <2>5 DEF AhciPages
  <2>7. AhciStopped(p)'
    BY <1>2, <2>1, <2>5 DEF AhciStopped
  <2> QED BY <2>2, <2>3, <2>6, <2>7 DEF AhciInv
<1>12. XhciInv(p)'
  <2> SUFFICES ASSUME function[p].class = "xhci" PROVE XhciInv(p)'
    BY <1>2 DEF XhciInv
  <2>1. hw[p] \in XhciDevice /\ XhciPages(p) /\ XhciRegistersAt(p) /\ XhciHalted(p)
    BY <1>1 DEF XhciInv
  <2>2. XhciRegistersAt(p)' /\ Names(p)' = Names(p)
    BY <1>2, <2>1 DEF XhciRegistersAt, Names
  <2>3. XhciPages(p)'
    BY <1>2, <1>8, <2>1, <2>2 DEF XhciPages, In, Here
  <2>4. XhciHalted(p)'
    BY <1>1, <1>2, <1>8, <2>1 DEF XhciHalted, In, Here
  <2> QED BY <1>2, <2>1, <2>2, <2>3, <2>4 DEF XhciInv
<1>13. UnitsOf(p)' = UnitsOf(p) /\ \A m : Listed(p, m)' <=> Listed(p, m)
  BY <1>2 DEF UnitsOf, Listed
<1>14. NvmeDisksKnown(p)'
  <2>1. ~In(p, {"panic", "namespace"})
    BY DEF In
  <2> HIDE DEF Listed, UnitsOf
  <2> QED BY <1>1, <1>2, <1>13, <2>1 DEF NvmeDisksKnown, In
<1>15. AhciDisksKnown(p)'
  <2> SUFFICES ASSUME function[p].class = "ahci" PROVE AhciDisksKnown(p)'
    BY <1>2 DEF AhciDisksKnown
  <2>1. Leaves \/ Before(p)' \/ In(p, {"panic"})'
    BY <1>5, <1>8 DEF In, Here
  <2> HIDE DEF Listed, UnitsOf, Before, Leaves, AhciDisk
  <2>2. \A i \in DOMAIN function[p].ports : AhciDisk(function[p], i) /\ ~hw[p].port[i].reset =>
          Listed(p, i)' \/ Before(p)' \/ In(p, {"general", "panic"})'
    BY <1>13, <2>1 DEF In
  <2> QED BY <1>1, <1>2, <1>13, <2>2 DEF AhciDisksKnown
<1>16. PagesApart'
  <2> SUFFICES ASSUME free' = free, Leaves => The("identify") \notin Names(p) PROVE PagesApart'
    OBVIOUS
  <2>1. SamePages(p)
    BY <1>2, <1>3, <1>5 DEF SamePages, Kept, Names, Passed, Here
  <2>2. \A q \in Places : SamePages(q)
    BY <1>1, <1>6, <2>1, OthersPages
  <2> QED BY <1>1, <1>2, <2>2, PagesStay
<1>17. ChainKnown' /\ RegistryKnown'
  <2>1. Before(p)' => Before(p)
    BY <1>8
  <2>2. \A unit \in Nat : Reached(p, unit)'
    BY <1>8 DEF Reached, In, Here
  <2> HIDE DEF Before, Reached
  <2> QED BY <1>1, <1>2, <1>6, <2>1, <2>2, ListsStay DEF lists
<1> QED BY <1>6, <1>7, <1>9, <1>10, <1>11, <1>12, <1>14, <1>15, <1>16, <1>17, StepKeeps DEF Own

-----------------------------------------------------------------------------
(* Nothing is switched.                                                     *)
LEMMA SameSwitched ==
  ASSUME NEW device
  PROVE  NvmeSwitched(device, device) /\ XhciSwitched(device, device) /\ AhciSwitched(device, device)
BY DEF NvmeSwitched, XhciSwitched, AhciSwitched

LEMMA DispatchKeeps ==
  ASSUME PcieInv, Dispatch
  PROVE  PcieInv' /\ hw' = hw
<1>1. Here \in Places /\ boot.at = "function" /\ UNCHANGED <<world, lists, hw, driver, free>>
  BY DEF Dispatch
<1>2. BootTypes /\ RecordTyped(Here) /\ NvmeInv(Here) /\ XhciInv(Here)
  BY <1>1 DEF PcieInv, RecordsTyped
<1>3. Before(Here)
  BY <1>1 DEF Before
<1>4. Names(Here) = {}
  BY <1>2, <1>3 DEF RecordTyped, Names, NoRecord
<1>5. CASE Function.class \in Classes
  <2>1. Go("open")
    BY <1>5 DEF Dispatch
  <2> QED BY <1>1, <1>2, <1>4, <1>5, <2>1, QuietKeeps DEF Function, NvmeInv, NvmeCommand, XhciInv, XhciHalted, In, Go, Leaves
<1>6. CASE Function.class \notin Classes
  <2>1. boot' = [boot EXCEPT !.place = @ + 1]
    BY <1>6 DEF Dispatch
  <2>2. Leaves
    BY <1>1, <1>2, <2>1 DEF Leaves, BootTypes, Here
  <2> QED BY <1>1, <1>2, <1>4, <1>6, <2>2, QuietKeeps DEF Function, Classes
<1> QED BY <1>1, <1>5, <1>6

LEMMA WalkOverKeeps ==
  ASSUME PcieInv, WalkOver
  PROVE  PcieInv' /\ hw' = hw
<1>1. /\ boot.at = "function" /\ Here \notin Places /\ Go("done") /\ UNCHANGED <<world, lists, hw, driver, free>>
  BY DEF WalkOver
<1>2. BootTypes /\ RecordsTyped /\ PagesApart /\ ChainKnown /\ RegistryKnown
  BY DEF PcieInv
<1>3. boot' = [place |-> Here, at |-> "done", unit |-> boot.unit, wait |-> boot.wait]
  BY <1>1, <1>2 DEF Go, BootTypes, Here
<1>4. BootTypes'
  BY <1>1, <1>2, <1>3 DEF BootTypes, Here, Function, NvmeAt, AhciAt, XhciAt
<1>5. \A p \in Places : p # Here /\ p # boot'.place /\ (Before(p)' <=> Before(p)) /\ (Passed(p)' <=> Passed(p))
  BY <1>1, <1>3 DEF Before, Passed, Here
<1>6. \A p \in Places : LeftAlone(p)
  <2>1. Walks
    BY <1>2, <1>3 DEF Walks, BootTypes, Here
  <2> QED BY <1>1, <1>5, <2>1 DEF LeftAlone, SameDisks, world, lists
<1>7. \A p \in Places : NvmeInv(p)' /\ AhciInv(p)' /\ XhciInv(p)'
  BY <1>2, <1>6, NvmeFrame, AhciFrame, XhciFrame DEF PcieInv
<1>8. \A p \in Places : NvmeDisksKnown(p)' /\ AhciDisksKnown(p)'
  BY <1>2, <1>6, DisksFrame DEF PcieInv, RegistryKnown
<1>9. RecordsTyped'
  <2> HIDE DEF Before
  <2> QED BY <1>1, <1>2, <1>5 DEF RecordsTyped, RecordTyped, Names
<1>10. PagesApart'
  BY <1>1, <1>2, <1>5, PagesStay DEF SamePages, Kept, Names, world
<1>11. ChainKnown'
  <2>1. \A k \in DOMAIN chain : chain[k] \in Places
    BY <1>2 DEF ChainKnown
  <2> HIDE DEF Before
  <2> QED BY <1>1, <1>2, <1>5, <2>1 DEF ChainKnown, lists, world
<1>12. RegistryKnown'
  <2>1. \A k \in DOMAIN registry : registry[k].place \in Places /\ registry[k].unit \in Nat
    <3>1. registry \in Seq(Disk)
      BY <1>2 DEF RegistryKnown
    <3>2. \A k \in DOMAIN registry : registry[k] \in Disk
      BY <3>1
    <3> QED BY <3>2 DEF Disk
  <2>2. \A p \in Places : \A unit \in Nat : Reached(p, unit)'
    BY <1>5 DEF Reached, In, Here
  <2> HIDE DEF Before, Reached
  <2> QED BY <1>1, <1>2, <1>5, <2>1, <2>2 DEF RegistryKnown, lists, world
<1>13. MachineKnown' /\ DOMAIN hw' = Places
  BY <1>1 DEF PcieInv, MachineKnown, world
<1> QED BY <1>1, <1>4, <1>7, <1>8, <1>9, <1>10, <1>11, <1>12, <1>13 DEF PcieInv

LEMMA PanicKeeps ==
  ASSUME PcieInv, NvmePanics \/ AhciPanics \/ XhciPanics
  PROVE  PcieInv' /\ hw' = hw
<1>1. /\ boot.at \in {"open", "admin", "identify", "identified", "command", "name", "configure"}
      /\ boot.at = "identified" => Answered
      /\ Go("panic") /\ UNCHANGED <<world, lists, hw, driver, free>>
  BY DEF NvmePanics, AhciPanics, XhciPanics, Panic
<1>2. Here \in Places
  BY <1>1 DEF PcieInv, BootTypes, NvmeAt, AhciAt, XhciAt
<1>3. BootTypes /\ NvmeInv(Here) /\ XhciInv(Here)
  BY <1>2 DEF PcieInv
<1>4. ~Leaves
  BY <1>1, <1>3 DEF Leaves, Go, BootTypes
<1>5. Function.class = "nvme" => hw[Here].command = NoCommand
  BY <1>1, <1>3 DEF NvmeInv, NvmeCommand, In, Function, Answered, Device
<1>6. Function.class = "xhci" => ~hw[Here].HCRST
  BY <1>1, <1>3 DEF XhciInv, XhciHalted, In, Function
<1>7. PcieInv'
  BY <1>1, <1>2, <1>4, <1>5, <1>6, QuietKeeps DEF Function
<1> QED BY <1>1, <1>7

LEMMA ChainGrows ==
  ASSUME NEW s \in Seq(Places), NEW p \in Places
  PROVE  /\ <<p>> \o s \in Seq(Places)
         /\ \A k \in DOMAIN (<<p>> \o s) : (<<p>> \o s)[k] = p \/ \E l \in DOMAIN s : (<<p>> \o s)[k] = s[l]
<1>1. <<p>> \o s \in Seq(Places)
  OBVIOUS
<1>2. ASSUME NEW k \in DOMAIN (<<p>> \o s) PROVE (<<p>> \o s)[k] = p \/ \E l \in DOMAIN s : (<<p>> \o s)[k] = s[l]
  <2>1. CASE k = 1
    BY <2>1
  <2>2. CASE k # 1
    <3>1. k - 1 \in DOMAIN s /\ (<<p>> \o s)[k] = s[k - 1]
      BY <2>2
    <3> QED BY <3>1
  <2> QED BY <2>1, <2>2
<1> QED BY <1>1, <1>2

LEMMA OpenKeeps ==
  ASSUME PcieInv, \/ Open("nvme", 0, "reset")
                  \/ Open("ahci", 5, "general")
                  \/ Open("xhci", 0, "halt")
  PROVE  PcieInv' /\ hw' = hw
<1> DEFINE base == BaseAddress(Function, BaseRegister(Function.class))
<1>1. /\ boot.at = "open" /\ UNCHANGED <<world, registry, hw, free>>
      /\ chain' = <<Here>> \o chain
      /\ driver' = [driver EXCEPT ![Here] = [NoRecord EXCEPT !.base = base]]
      /\ \/ Function.class = "nvme" /\ Go("reset")
         \/ Function.class = "ahci" /\ Go("general")
         \/ Function.class = "xhci" /\ Go("halt")
  BY DEF Open, At, BaseRegister
<1> HIDE DEF base
<1>2. PICK p \in Places : p = Here
  BY <1>1 DEF PcieInv, BootTypes
<1>3. /\ BootTypes /\ MachineKnown /\ DOMAIN hw = Places /\ RecordsTyped /\ PagesApart /\ RecordTyped(p)
      /\ NvmeInv(p) /\ AhciInv(p) /\ XhciInv(p) /\ ChainKnown /\ RegistryKnown
      /\ NvmeDisksKnown(p) /\ AhciDisksKnown(p)
  BY DEF PcieInv, RecordsTyped
<1>4. UNCHANGED <<function, owned, registry, hw, free>>
  BY <1>1 DEF world
<1>5. Before(p) /\ p \in Nat /\ Names(p) = {}
  BY <1>1, <1>2, <1>3, NumbersPlaces DEF Before, RecordTyped, Names, NoRecord
<1>6. /\ driver'[p] = [NoRecord EXCEPT !.base = base] /\ DOMAIN driver' = Places
      /\ \A q \in Places \ {p} : driver'[q] = driver[q]
  BY <1>1, <1>2, <1>3 DEF RecordsTyped
<1>7. /\ driver'[p] = [base |-> base, page |-> [name \in {} |-> 0], data |-> <<>>, count |-> 0]
      /\ driver'[p].base = base /\ driver'[p].page = [name \in {} |-> 0] /\ Names(p)' = {}
  BY <1>6 DEF NoRecord, Names
<1>8. boot' = [place |-> p, at |-> boot'.at, unit |-> boot.unit, wait |-> boot.wait]
      /\ boot'.place = p /\ boot'.at \in {"reset", "general", "halt"}
      /\ (boot'.at = "reset" => function[p].class = "nvme")
      /\ (boot'.at = "general" => function[p].class = "ahci")
      /\ (boot'.at = "halt" => function[p].class = "xhci")
  BY <1>1, <1>2, <1>3 DEF Go, BootTypes, Here, Function
<1>9. BootTypes'
  <2>1. boot.unit \in Nat \ {0} /\ boot.wait \in Nat /\ boot.unit = 1
    BY <1>1, <1>3 DEF BootTypes
  <2> QED BY <1>4, <1>5, <1>8, <2>1 DEF BootTypes, NvmeAt, AhciAt, XhciAt, Function, Here
<1>10. StepAt(p)
  BY <1>1, <1>2, <1>3, <1>4, <1>5, <1>6, <1>8 DEF StepAt, Walks, Here
<1>11. ~Before(p)'
  BY <1>5, <1>8 DEF Before, Here
<1>12. RecordTyped(p)'
  <2> HIDE DEF Before
  <2> QED BY <1>7, <1>11 DEF RecordTyped
<1>13. NvmeInv(p)'
  <2> SUFFICES ASSUME function[p].class = "nvme" PROVE NvmeInv(p)'
    BY <1>4 DEF NvmeInv
  <2>1. boot'.at = "reset" /\ hw'[p] = hw[p] /\ NvmeInv(p)
    BY <1>3, <1>4, <1>8
  <2>2. NvmePages(p)' /\ NvmeQueuesAt(p)' /\ NvmeCommand(p)' /\ NvmeOn(p)'
    BY <1>1, <1>2, <1>5, <1>7, <1>8, <2>1 DEF NvmeInv, NvmePages, NvmeQueuesAt, NvmeCommand, NvmeOn, In, Here
  <2>3. NvmeTold(p)'
    <3> HIDE DEF Before
    <3> QED BY <1>4, <1>5, <1>8, <1>11, <2>1 DEF NvmeInv, NvmeTold, In, Here
  <2> QED BY <2>1, <2>2, <2>3 DEF NvmeInv
<1>14. AhciInv(p)'
  BY <1>1, <1>2, <1>3, <1>4, <1>7, <1>8 DEF AhciInv, AhciTypes, AhciPages, AhciQueuesAt, AhciStopped, AhciAt, In, Here
<1>15. XhciInv(p)'
  BY <1>1, <1>2, <1>3, <1>4, <1>7, <1>8 DEF XhciInv, XhciPages, XhciRegistersAt, XhciHalted, In, Here
<1>16. UnitsOf(p) = {} /\ UnitsOf(p)' = {}
  <2> HIDE DEF Before
  <2> QED BY <1>3, <1>4, <1>5 DEF RegistryKnown, UnitsOf
<1>17. NvmeDisksKnown(p)' /\ AhciDisksKnown(p)'
  <2>1. AhciDisksKnown(p)'
    <3> HIDE DEF UnitsOf
    <3> QED BY <1>4, <1>8, <1>16 DEF AhciDisksKnown, In, Here
  <2>2. function[p].class = "nvme" => hw[p].told = {}
    <3> HIDE DEF Before
    <3> QED BY <1>3, <1>5 DEF NvmeInv, NvmeTold
  <2>3. NvmeDisksKnown(p)'
    <3> HIDE DEF UnitsOf
    <3> QED BY <1>4, <1>16, <2>2 DEF NvmeDisksKnown
  <2> QED BY <2>1, <2>3
<1>18. PagesApart'
  <2>1. SamePages(p)
    BY <1>5, <1>7 DEF SamePages, Kept, Names
  <2> QED BY <1>3, <1>4, <1>10, <2>1, OthersPages, PagesStay
<1>19. \A q \in Places \ {p} : LeftAlone(q) /\ (Before(q)' <=> Before(q))
  BY <1>3, <1>10, LeavesOthers, SameStage
<1>20. ChainKnown'
  <2>1. chain \in Seq(Places) /\ chain' = <<p>> \o chain
    BY <1>1, <1>2, <1>3 DEF ChainKnown
  <2>2. /\ chain' \in Seq(Places)
        /\ \A k \in DOMAIN chain' : chain'[k] = p \/ \E l \in DOMAIN chain : chain'[k] = chain[l]
    BY <2>1, ChainGrows, Zenon
  <2>3. ASSUME NEW l \in DOMAIN chain, NEW q, q = chain[l]
        PROVE  /\ ~Before(q)' /\ function[q].class \in Classes
               /\ driver'[q].base = BaseAddress(function[q], BaseRegister(function[q].class))
    <3> HIDE DEF BaseAddress, BaseRegister, Before
    <3>1. /\ q \in Places /\ ~Before(q) /\ function[q].class \in Classes
          /\ driver[q].base = BaseAddress(function[q], BaseRegister(function[q].class))
      BY <1>3, <2>1, <2>3 DEF ChainKnown
    <3>2. q \in Places \ {p}
      BY <1>5, <3>1
    <3> QED BY <1>6, <1>19, <3>1, <3>2
  <2>4. /\ function[p].class \in Classes
        /\ driver'[p].base = BaseAddress(function[p], BaseRegister(function[p].class))
    BY <1>1, <1>2, <1>7 DEF Classes, base, Function
  <2> HIDE DEF Before, BaseAddress, BaseRegister
  <2>5. ASSUME NEW k \in DOMAIN chain', NEW q, q = chain'[k]
        PROVE  /\ ~Before(q)' /\ function'[q].class \in Classes
               /\ driver'[q].base = BaseAddress(function'[q], BaseRegister(function'[q].class))
    <3>1. CASE q = p
      BY <1>4, <1>11, <2>4, <3>1
    <3>2. CASE \E l \in DOMAIN chain : q = chain[l]
      BY <1>4, <2>3, <3>2
    <3> QED BY <2>2, <2>5, <3>1, <3>2
  <2>6. (\A k \in DOMAIN chain : ~Before(chain[k]))'
    BY <2>5
  <2>7. \A k \in DOMAIN chain' : /\ function'[chain'[k]].class \in Classes
                                 /\ driver'[chain'[k]].base = BaseAddress(function'[chain'[k]], BaseRegister(function'[chain'[k]].class))
    BY <2>5, Zenon
  <2> QED BY <2>2, <2>6, <2>7 DEF ChainKnown
<1>21. RegistryKnown'
  <2>1. ASSUME NEW k \in DOMAIN registry, NEW q, q = registry[k].place
        PROVE  ~Before(q)' /\ \A unit : Reached(q, unit)'
    <3>1. q \in Places
      <4>1. registry \in Seq(Disk)
        BY <1>3 DEF RegistryKnown
      <4>2. registry[k] \in Disk
        BY <4>1
      <4> QED BY <2>1, <4>2 DEF Disk
    <3>2. ~Before(q)
      BY <1>3, <2>1 DEF RegistryKnown
    <3>3. q # p
      BY <1>5, <3>2
    <3>4. \A unit : Reached(q, unit)'
      BY <1>8, <3>3 DEF Reached, In, Here
    <3> HIDE DEF Before, Reached
    <3> QED BY <1>19, <3>1, <3>2, <3>3, <3>4
  <2> HIDE DEF Before, Reached
  <2>2. (\A k \in DOMAIN registry : ~Before(registry[k].place) /\ Reached(registry[k].place, registry[k].unit))'
    BY <1>4, <2>1
  <2> QED BY <1>3, <1>4, <2>2 DEF RegistryKnown
<1>22. PcieInv'
  BY <1>9, <1>10, <1>12, <1>13, <1>14, <1>15, <1>17, <1>18, <1>20, <1>21, StepKeeps DEF Own
<1> QED BY <1>1, <1>22

-----------------------------------------------------------------------------
(* The thread goes on within a set-up.                                      *)
Inside(p) ==
  /\ p \in Places /\ p = Here /\ boot'.place = p
  /\ \/ boot.at \in NvmeAt /\ boot'.at \in NvmeAt
     \/ boot.at \in AhciAt /\ boot'.at \in AhciAt \ {"general"}
     \/ boot.at \in XhciAt /\ boot'.at \in XhciAt
  /\ boot' = [place |-> p, at |-> boot'.at, unit |-> boot'.unit, wait |-> boot'.wait]
  /\ boot'.unit \in Nat \ {0} /\ boot'.wait \in Nat
  /\ UNCHANGED <<world, chain>>
  /\ DOMAIN hw' = Places /\ DOMAIN driver' = Places
  /\ \A q \in Places \ {p} : hw'[q] = hw[q] /\ driver'[q] = driver[q]
  /\ registry' = registry \/ \E d \in Disk : registry' = <<d>> \o registry /\ d.place = p

LEMMA InsideSteps ==
  ASSUME BootTypes, NEW p, Inside(p)
  PROVE  StepAt(p) /\ BootTypes' /\ ~Before(p) /\ ~Before(p)'
<1>1. p \in Nat /\ ~(p > p)
  BY NumbersPlaces DEF Inside
<1>2. boot.at \notin {"function", "open", "done"} /\ boot'.at \notin {"function", "open", "done", "general"}
  BY DEF Inside, NvmeAt, AhciAt, XhciAt
<1>3. StepAt(p)
  BY <1>1 DEF StepAt, Inside, Walks, Here
<1>4. ~Before(p) /\ ~Before(p)'
  BY <1>1, <1>2 DEF Before, Inside, Here
<1>5. /\ boot.at \in NvmeAt => function[p].class = "nvme"
      /\ boot.at \in AhciAt => function[p].class = "ahci"
      /\ boot.at \in XhciAt => function[p].class = "xhci"
      /\ function' = function
  BY DEF BootTypes, Inside, Function, world
<1>6. BootTypes'
  <2>1. /\ boot'.at \in NvmeAt => function[p].class = "nvme"
        /\ boot'.at \in AhciAt => function[p].class = "ahci"
        /\ boot'.at \in XhciAt => function[p].class = "xhci"
    BY <1>5 DEF Inside, NvmeAt, AhciAt, XhciAt
  <2> HIDE DEF NvmeAt, AhciAt, XhciAt
  <2>2. boot'.at \in {"function", "open", "done", "panic"} \cup NvmeAt \cup AhciAt \cup XhciAt
    BY DEF Inside
  <2> QED BY <1>1, <1>2, <1>5, <2>1, <2>2 DEF BootTypes, Inside, Function, Here
<1> QED BY <1>3, <1>4, <1>6

LEMMA InsideKeeps ==
  ASSUME PcieInv, NEW p, Inside(p),
         driver'[p] = [base |-> driver[p].base, page |-> driver'[p].page, data |-> driver'[p].data, count |-> driver'[p].count],
         driver'[p].page = [name \in Names(p)' |-> driver'[p].page[name]],
         \A name \in Names(p)' : driver'[p].page[name] \in Nat,
         NvmeInv(p)', AhciInv(p)', XhciInv(p)', NvmeDisksKnown(p)', AhciDisksKnown(p)', PagesApart',
         RegistryKnown' \/ (registry' = registry /\ \A unit \in Nat : Reached(p, unit) => Reached(p, unit)')
  PROVE  PcieInv'
<1>1. StepAt(p) /\ BootTypes' /\ ~Before(p) /\ ~Before(p)' /\ ChainKnown /\ RegistryKnown /\ BootTypes
  BY InsideSteps DEF PcieInv
<1> HIDE DEF Before
<1>2. driver'[p].base = driver[p].base /\ chain' = chain
  BY DEF Inside
<1>3. RecordTyped(p)'
  BY <1>1, <1>2 DEF RecordTyped
<1>4. ChainKnown'
  <2>1. UNCHANGED function
    BY DEF Inside, world
  <2>2. ASSUME NEW q \in Places, ~Before(q) PROVE ~Before(q)' /\ driver'[q].base = driver[q].base
    <3>1. CASE q = p
      BY <1>1, <1>2, <3>1
    <3>2. CASE q # p
      <4>1. LeftAlone(q)
        BY <1>1, <3>2, LeavesOthers
      <4> QED BY <1>1, <2>2, <4>1, SameStage DEF LeftAlone
    <3> QED BY <3>1, <3>2
  <2>3. \A k \in DOMAIN chain : chain[k] \in Places
    BY <1>1 DEF ChainKnown
  <2> QED BY <1>1, <1>2, <2>1, <2>2, <2>3 DEF ChainKnown
<1>5. RegistryKnown'
  <2>1. CASE registry' = registry /\ \A unit \in Nat : Reached(p, unit) => Reached(p, unit)'
    <3> HIDE DEF Reached
    <3> QED BY <1>1, <1>2, <2>1, ListsStay DEF lists
  <2> QED BY <2>1
<1> QED BY <1>1, <1>3, <1>4, <1>5, StepKeeps DEF Own

(* The record gets pages that were free for new names.                      *)
Taken(pages, n) ==
  /\ \A i \in 1 .. n : pages[i] \in free
  /\ \A i, j \in 1 .. n : pages[i] = pages[j] => i = j
  /\ free' = free \ {pages[i] : i \in 1 .. n}

LEMMA LowestTaken ==
  ASSUME PcieInv, NEW n \in Nat \ {0}, Enough(n), Allocate(n)
  PROVE  Taken([i \in 1 .. n |-> Page(i)], n)
<1> DEFINE pages == [i \in 1 .. n |-> Page(i)]
<1>1. /\ \A i \in 1 .. n : Page(i) \in free
      /\ \A i, j \in 1 .. n : Page(i) = Page(j) => i = j
  BY PagesFree, PagesGivenOut DEF PcieInv
<1>2. \A i \in 1 .. n : pages[i] = Page(i)
  OBVIOUS
<1>3. {pages[i] : i \in 1 .. n} = {Page(i) : i \in 1 .. n}
  OBVIOUS
<1> HIDE DEF pages
<1> QED BY <1>1, <1>2, <1>3 DEF Taken, Allocate, pages

NewNames(p, names, n) ==
  /\ Distinct(names, n)
  /\ \A i \in 1 .. n : names[i] \notin Names(p)

Named(p, names, n, pages) ==
  /\ Names(p)' = Names(p) \cup {names[i] : i \in 1 .. n}
  /\ \A i \in 1 .. n : driver'[p].page[names[i]] = pages[i]
  /\ \A name \in Names(p) : driver'[p].page[name] = driver[p].page[name]

LEMMA GainsPages ==
  ASSUME PcieInv, NEW p, Inside(p), NEW names, NEW pages, NEW n, NewNames(p, names, n), Taken(pages, n),
         Named(p, names, n, pages)
  PROVE  /\ PagesApart'
         /\ \A name \in Names(p)' : driver'[p].page[name] \in Nat
<1> DEFINE new == {names[i] : i \in 1 .. n}
           spent == {driver'[p].page[name] : name \in new}
<1>1. /\ BootTypes /\ MachineKnown /\ PagesApart /\ RecordTyped(p) /\ RecordsTyped
  BY DEF PcieInv, RecordsTyped, Inside
<1>2. FreePages /\ free \subseteq owned /\ owned \subseteq Nat
  BY <1>1, PagesFree
<1>3. /\ \A i \in 1 .. n : pages[i] \in free
      /\ \A i, j \in 1 .. n : pages[i] = pages[j] => i = j
  BY DEF Taken
<1>31. /\ \A i \in 1 .. n : names[i] \notin Names(p)
       /\ Names(p)' = Names(p) \cup new
       /\ \A i \in 1 .. n : driver'[p].page[names[i]] = pages[i]
       /\ \A name \in Names(p) : driver'[p].page[name] = driver[p].page[name]
  BY DEF NewNames, Named
<1>4. StepAt(p) /\ p \in Places /\ owned' = owned
  BY <1>1, InsideSteps DEF Inside, world
<1>5. \A q \in Places \ {p} : SamePages(q)
  BY <1>1, <1>4, OthersPages
<1>6. Kept(p) = Names(p) /\ Kept(p)' = Names(p)' /\ new \cap Names(p) = {}
  <2>1. ~Passed(p)' /\ ~Passed(p)
    BY NumbersPlaces DEF Passed, Inside, Here
  <2>2. \A name \in new : name \notin Names(p)
    BY <1>31
  <2> HIDE DEF new, Passed
  <2> QED BY <2>1, <2>2 DEF Kept, Names
<1>7. \A name \in new : driver'[p].page[name] \in free
  BY <1>3, <1>31
<1>8. \A name, other \in new : driver'[p].page[name] = driver'[p].page[other] => name = other
  BY <1>3, <1>31
<1>9. free' = free \ spent
  <2>1. spent = {pages[i] : i \in 1 .. n}
    BY <1>31
  <2> HIDE DEF spent
  <2> QED BY <2>1 DEF Taken
<1>10. \A q \in Places \ {p} : SamePages(q) /\ (q < p \/ Names(q) = {})
  <2>1. \A q \in Places \ {p} : q < p \/ Before(q)
    BY <1>4, NumbersPlaces DEF Before, Inside, Here
  <2>2. \A q \in Places : Before(q) => Names(q) = {}
    <3>1. \A q \in Places : Before(q) => driver[q] = NoRecord
      BY <1>1 DEF RecordsTyped, RecordTyped
    <3> QED BY <3>1 DEF Names, NoRecord
  <2> HIDE DEF Before, Names
  <2> QED BY <1>5, <2>1, <2>2
<1>11. PagesApart'
  <2>1. PagesApart /\ owned' = owned /\ Places \subseteq Nat /\ p \in Places
    BY <1>1, <1>4, NumbersPlaces
  <2>2. \A n1, m1 \in new : driver'[p].page[n1] = driver'[p].page[m1] => n1 = m1
    BY <1>8
  <2> HIDE DEF new
  <2> QED BY <1>6, <1>7, <1>9, <1>10, <1>31, <2>1, <2>2, PagesGained DEF spent
<1>12. ASSUME NEW name \in Names(p)' PROVE driver'[p].page[name] \in Nat
  <2>1. CASE name \in new
    BY <1>2, <1>7, <2>1
  <2>2. CASE name \in Names(p)
    BY <1>1, <1>31, <2>2 DEF RecordTyped
  <2> HIDE DEF new
  <2> QED BY <1>31, <2>1, <2>2
<1> QED BY <1>11, <1>12

Took(p, names, n, pages) ==
  /\ driver'[p].page = [name \in Names(p)' |-> driver'[p].page[name]]
  /\ Names(p)' = Names(p) \cup {names[i] : i \in 1 .. n}
  /\ \A i \in 1 .. n : driver'[p].page[names[i]] = pages[i] /\ pages[i] \in Nat \ {0}
  /\ \A name \in Names(p) : driver'[p].page[name] = driver[p].page[name]
  /\ \A name \in Names(p)' : driver'[p].page[name] \in Nat
  /\ PagesApart'

LEMMA InsideFilled ==
  ASSUME PcieInv, NEW p, Inside(p), NEW names, NEW pages, NEW n, NewNames(p, names, n), Taken(pages, n),
         driver'[p].page = Filled(names, pages).page
  PROVE  Took(p, names, n, pages)
<1> DEFINE r == Filled(names, pages)
           new == {names[i] : i \in 1 .. n}
<1>1. /\ BootTypes /\ MachineKnown /\ PagesApart /\ RecordTyped(p) /\ Record = driver[p]
  BY DEF PcieInv, RecordsTyped, Inside, Record
<1>2. FreePages /\ free \subseteq owned
  BY <1>1, PagesFree
<1>3. Record = [base |-> Record.base, page |-> Record.page, data |-> Record.data, count |-> Record.count]
  BY <1>1 DEF RecordTyped
<1>4. /\ DOMAIN r.page = Names(p) \cup new
      /\ r.page = [name \in DOMAIN r.page |-> r.page[name]]
      /\ \A i \in 1 .. n : r.page[names[i]] = pages[i]
      /\ \A name \in Names(p) : name \notin new => r.page[name] = driver[p].page[name]
  BY <1>1, <1>3, FilledPages DEF Names, NewNames
<1>5. \A name \in Names(p) : name \notin new
  BY DEF NewNames
<1> HIDE DEF r
<1>6. driver'[p].page = r.page /\ Names(p)' = DOMAIN r.page
  BY DEF Names, r
<1> HIDE DEF new
<1>7. Named(p, names, n, pages) /\ driver'[p].page = [name \in Names(p)' |-> driver'[p].page[name]]
  BY <1>4, <1>5, <1>6 DEF Named, new
<1>8. PagesApart' /\ \A name \in Names(p)' : driver'[p].page[name] \in Nat
  BY <1>7, GainsPages
<1>9. ASSUME NEW i \in 1 .. n PROVE pages[i] \in Nat \ {0}
  <2>1. PICK last \in Nat : owned = 1 .. last
    BY <1>1 DEF MachineKnown
  <2>2. pages[i] \in free
    BY DEF Taken
  <2>3. pages[i] \in 1 .. last
    BY <1>2, <2>1, <2>2, Zenon
  <2> QED BY <2>3
<1> QED BY <1>7, <1>8, <1>9 DEF Took, Named

-----------------------------------------------------------------------------
(* The set-up of an NVM Express controller.                                 *)
LEMMA NvmeInside ==
  ASSUME PcieInv, NEW p, Inside(p), boot.at \in NvmeAt,
         hw'[p] \in NvmeDevice, NvmePages(p)', NvmeQueuesAt(p)', NvmeCommand(p)', NvmeOn(p)', NvmeTold(p)',
         \/ driver'[p] = driver[p]
         \/ /\ driver'[p] = [base |-> driver[p].base, page |-> driver'[p].page, data |-> driver'[p].data,
                             count |-> driver'[p].count]
            /\ driver'[p].page = [name \in Names(p)' |-> driver'[p].page[name]]
            /\ \A name \in Names(p)' : driver'[p].page[name] \in Nat,
         \/ PagesApart'
         \/ free' = free /\ driver'[p].page = driver[p].page,
         NvmeDisksKnown(p)' \/ (registry' = registry /\ hw'[p].told = hw[p].told /\ boot.at # "namespace"),
         RegistryKnown' \/ (registry' = registry /\ \A unit \in Nat : Reached(p, unit) => Reached(p, unit)')
  PROVE  PcieInv'
<1>1. BootTypes /\ RecordTyped(p) /\ PagesApart /\ NvmeDisksKnown(p) /\ p = Here
  BY DEF PcieInv, RecordsTyped, Inside
<1>2. UNCHANGED function /\ owned' = owned /\ function[p].class = "nvme"
  BY <1>1 DEF Inside, world, BootTypes, Function
<1>3. NvmeInv(p)' /\ AhciInv(p)' /\ XhciInv(p)' /\ AhciDisksKnown(p)'
  <2>1. NvmeInv(p)'
    BY DEF NvmeInv
  <2> QED BY <1>2, <2>1, OtherClass
<1>4. NvmeDisksKnown(p)'
  <2> SUFFICES ASSUME registry' = registry, hw'[p].told = hw[p].told, boot.at # "namespace" PROVE NvmeDisksKnown(p)'
    OBVIOUS
  <2>1. UnitsOf(p)' = UnitsOf(p) /\ \A m : Listed(p, m)' <=> Listed(p, m)
    BY DEF UnitsOf, Listed
  <2>2. ~In(p, {"panic"}) /\ ~In(p, {"namespace"})
    BY DEF In, NvmeAt
  <2> HIDE DEF Listed, UnitsOf, NvmeDisk, In
  <2>0. function[p].class = "nvme" /\ NvmeDisksKnown(p)
    BY <1>1, <1>2, Zenon
  <2>3. \A k \in UnitsOf(p) :
             /\ registry[k].unit \in DOMAIN function[p].namespaces
             /\ registry[k].capacity = function[p].namespaces[registry[k].unit].size
             /\ function[p].namespaces[registry[k].unit].index.upper = 0 =>
                  registry[k].unit \in hw[p].told /\ NvmeDisk(function[p], registry[k].unit)
    BY ONLY <2>0 DEF NvmeDisksKnown
  <2>4. \A m \in DOMAIN function[p].namespaces \cap hw[p].told :
          function[p].namespaces[m].index.upper = 0 /\ NvmeDisk(function[p], m) => Listed(p, m)
    BY ONLY <2>0, <2>2 DEF NvmeDisksKnown
  <2>5. /\ \A k \in UnitsOf(p)' :
             /\ registry'[k].unit \in DOMAIN function'[p].namespaces
             /\ registry'[k].capacity = function'[p].namespaces[registry'[k].unit].size
             /\ function'[p].namespaces[registry'[k].unit].index.upper = 0 =>
                  registry'[k].unit \in hw'[p].told /\ NvmeDisk(function'[p], registry'[k].unit)
    BY <1>2, <2>1, <2>3
  <2>6. \A m \in DOMAIN function'[p].namespaces \cap hw'[p].told :
          function'[p].namespaces[m].index.upper = 0 /\ NvmeDisk(function'[p], m) => Listed(p, m)'
    BY <1>2, <2>1, <2>4
  <2>7. function'[p].class = "nvme" => NvmeDisksKnown(p)'
    <3> QED BY ONLY <2>5, <2>6 DEF NvmeDisksKnown, UnitsOf
  <2>8. function'[p].class # "nvme" => NvmeDisksKnown(p)'
    BY DEF NvmeDisksKnown
  <2> QED BY <2>7, <2>8
<1>5. /\ driver'[p] = [base |-> driver[p].base, page |-> driver'[p].page, data |-> driver'[p].data,
                       count |-> driver'[p].count]
      /\ driver'[p].page = [name \in Names(p)' |-> driver'[p].page[name]]
      /\ \A name \in Names(p)' : driver'[p].page[name] \in Nat
  <2>1. CASE driver'[p] = driver[p]
    <3> HIDE DEF Before
    <3> QED BY <1>1, <2>1 DEF RecordTyped, Names
  <2> QED BY <2>1
<1>6. PagesApart'
  <2> SUFFICES ASSUME free' = free, driver'[p].page = driver[p].page PROVE PagesApart'
    OBVIOUS
  <2>1. SamePages(p)
    BY DEF SamePages, Kept, Names, Passed, Inside, Here
  <2>2. StepAt(p)
    BY <1>1, InsideSteps
  <2>3. \A q \in Places : SamePages(q)
    BY <1>1, <2>1, <2>2, OthersPages
  <2> QED BY <1>1, <1>2, <2>3, PagesStay
<1> HIDE DEF Reached
<1> QED BY <1>3, <1>4, <1>5, <1>6, InsideKeeps

LEMMA NvmeFacts ==
  ASSUME PcieInv, NEW p \in Places, p = Here, boot.at \in NvmeAt
  PROVE  /\ function[p].class = "nvme" /\ DOMAIN hw = Places /\ DOMAIN driver = Places
         /\ hw[p] \in NvmeDevice
         /\ hw[p] = [CC |-> hw[p].CC, CSTS |-> hw[p].CSTS, master |-> hw[p].master, ASQ |-> hw[p].ASQ, ACQ |-> hw[p].ACQ,
                     sq |-> hw[p].sq, cq |-> hw[p].cq, command |-> hw[p].command, told |-> hw[p].told]
         /\ hw[p].CC = [EN |-> hw[p].CC.EN, CSS |-> hw[p].CC.CSS, MPS |-> hw[p].CC.MPS, IOSQES |-> hw[p].CC.IOSQES,
                        IOCQES |-> hw[p].CC.IOCQES]
         /\ hw[p].CC.EN \in BOOLEAN /\ hw[p].CSTS.RDY \in BOOLEAN
         /\ NvmePages(p) /\ NvmeQueuesAt(p) /\ NvmeCommand(p) /\ NvmeOn(p) /\ NvmeTold(p)
         /\ boot = [place |-> p, at |-> boot.at, unit |-> boot.unit, wait |-> boot.wait]
         /\ boot.unit \in Nat \ {0} /\ boot.wait \in Nat
         /\ RecordTyped(p) /\ Record = driver[p] /\ Device = hw[p] /\ Function = function[p]
<1>1. BootTypes /\ NvmeInv(p) /\ RecordsTyped /\ DOMAIN hw = Places
  BY DEF PcieInv
<1>2. function[p].class = "nvme" /\ RecordTyped(p) /\ DOMAIN driver = Places
  BY <1>1 DEF BootTypes, RecordsTyped, Function
<1>3. /\ hw[p] \in NvmeDevice
      /\ NvmePages(p) /\ NvmeQueuesAt(p) /\ NvmeCommand(p) /\ NvmeOn(p) /\ NvmeTold(p)
  BY <1>1, <1>2 DEF NvmeInv
<1>4. /\ hw[p] = [CC |-> hw[p].CC, CSTS |-> hw[p].CSTS, master |-> hw[p].master, ASQ |-> hw[p].ASQ, ACQ |-> hw[p].ACQ,
                  sq |-> hw[p].sq, cq |-> hw[p].cq, command |-> hw[p].command, told |-> hw[p].told]
      /\ hw[p].CC \in [EN : BOOLEAN, CSS : Nat, MPS : Nat, IOSQES : Nat, IOCQES : Nat]
      /\ hw[p].CSTS \in [RDY : BOOLEAN, CFS : BOOLEAN]
  BY <1>3 DEF NvmeDevice
<1>5. boot \in [place : Nat, at : {"function", "open", "done", "panic"} \cup NvmeAt \cup AhciAt \cup XhciAt,
                unit : Nat \ {0}, wait : Nat]
  BY <1>1 DEF BootTypes
<1>6. boot = [place |-> p, at |-> boot.at, unit |-> boot.unit, wait |-> boot.wait] /\ boot.unit \in Nat \ {0} /\ boot.wait \in Nat
  <2> HIDE DEF NvmeAt, AhciAt, XhciAt
  <2> QED BY <1>5 DEF Here
<1> QED BY <1>1, <1>2, <1>3, <1>4, <1>6 DEF Record, Device, Function

(* What a step at place p does to the devices.                              *)
SwitchesNvme(p) ==
  /\ function[p].class = "nvme" /\ NvmeSwitched(hw[p], hw'[p])
  /\ \A q \in Places \ {p} : hw'[q] = hw[q]

LEMMA SameNvme ==
  ASSUME NEW p, function[p].class = "nvme", hw' = hw
  PROVE  SwitchesNvme(p)
BY SameSwitched DEF SwitchesNvme

(* A set-up that fails returns.                                             *)
LEMMA NvmeReturns ==
  ASSUME PcieInv, NEW p \in Places, p = Here, boot.at \in {"reset", "enabled", "verify"}, Return,
         UNCHANGED <<world, lists, hw, driver, free>>
  PROVE  PcieInv' /\ SwitchesNvme(p)
<1>1. boot.at \in NvmeAt
  BY DEF NvmeAt
<1>2. /\ function[p].class = "nvme" /\ NvmePages(p) /\ NvmeCommand(p)
  BY <1>1, NvmeFacts
<1>3. hw[p].command = NoCommand /\ The("identify") \notin Names(p)
  BY <1>2 DEF NvmeCommand, NvmePages, In, AdminPages, The
<1>4. Leaves
  BY DEF Return, Leaves
<1> QED BY <1>2, <1>3, <1>4, QuietKeeps, SameNvme

(* The controller has the queues it had and told of nothing new.            *)
NvmeStill(p) ==
  /\ UNCHANGED <<world, lists, driver, free>> /\ DOMAIN hw' = Places
  /\ \A q \in Places \ {p} : hw'[q] = hw[q]
  /\ hw'[p] \in NvmeDevice
  /\ hw'[p].ASQ = hw[p].ASQ /\ hw'[p].ACQ = hw[p].ACQ /\ hw'[p].sq = hw[p].sq /\ hw'[p].cq = hw[p].cq
  /\ hw'[p].told = hw[p].told

Thread(p, at, unit, wait) ==
  /\ boot' = [place |-> p, at |-> at, unit |-> unit, wait |-> wait]
  /\ unit \in Nat \ {0} /\ wait \in Nat

LEMMA NvmeMoves ==
  ASSUME PcieInv, NEW p \in Places, p = Here, boot.at \in NvmeAt, NvmeStill(p),
         NEW at \in NvmeAt, NEW unit, NEW wait, Thread(p, at, unit, wait),
         boot.at # "namespace", NvmePages(p)', NvmeCommand(p)', NvmeOn(p)', NvmeTold(p)',
         \A n \in Nat : Reached(p, n) => Reached(p, n)'
  PROVE  PcieInv' /\ \A q \in Places \ {p} : hw'[q] = hw[q]
<1>1. NvmeQueuesAt(p) /\ DOMAIN hw = Places /\ DOMAIN driver = Places
  BY NvmeFacts
<1>2. Inside(p)
  BY <1>1 DEF Inside, lists, NvmeStill, Thread
<1>3. NvmeQueuesAt(p)'
  BY <1>1 DEF NvmeQueuesAt, Names, NvmeStill
<1> HIDE DEF Reached
<1>4. registry' = registry /\ driver' = driver /\ free' = free /\ hw'[p] \in NvmeDevice /\ hw'[p].told = hw[p].told
  BY DEF lists, NvmeStill
<1>5. PcieInv'
  BY <1>2, <1>3, <1>4, NvmeInside
<1> QED BY <1>5 DEF NvmeStill

LEMMA SameNvmeDevice ==
  ASSUME PcieInv, NEW p \in Places, p = Here, boot.at \in NvmeAt, UNCHANGED <<world, lists, driver, free, hw>>
  PROVE  NvmeStill(p)
BY NvmeFacts DEF NvmeStill

LEMMA ReachedOn ==
  ASSUME NEW p, p = Here, NEW at, NEW unit, NEW wait, Thread(p, at, unit, wait), boot.unit \in Nat,
         \/ unit = boot.unit /\ at = boot.at
         \/ at \notin {"namespaces", "namespace", "port", "stop", "signature", "command", "restart", "link",
                       "table", "name", "reset", "admin", "enable", "enabled", "verify", "identify", "identified",
                       "completions", "general"}
         \/ boot.at \in {"reset", "admin", "enable", "enabled", "verify", "identify", "identified", "completions", "general"}
         \/ unit = boot.unit /\ boot.at \in {"namespaces", "port", "stop", "signature", "command", "restart", "link"}
            /\ at \in {"namespace", "stop", "signature", "command", "restart", "link", "name"}
         \/ unit = boot.unit + 1 /\ at \in {"namespaces", "port"}
            /\ boot.at \in {"namespace", "table", "port", "stop", "signature", "name"}
  PROVE  \A n \in Nat : Reached(p, n) => Reached(p, n)'
<1>1. boot'.at = at /\ boot'.unit = unit /\ boot'.place = p
  BY DEF Thread
<1> QED BY <1>1 DEF Reached, In, Here

LEMMA WaitDisabledKeeps ==
  ASSUME PcieInv, NEW p \in Places, p = Here, WaitDisabled
  PROVE  PcieInv' /\ SwitchesNvme(p)
<1>1. boot.at = "reset" /\ boot.at \in NvmeAt /\ UNCHANGED <<world, lists, driver, free>>
  BY DEF WaitDisabled, At, NvmeAt
<1>2. UNCHANGED <<function, driver>>
  BY <1>1 DEF world
<1> USE NvmeFacts
<1>3. /\ NvmePages(p) /\ NvmeCommand(p) /\ NvmeTold(p) /\ function[p].class = "nvme" /\ hw[p] \in NvmeDevice
      /\ hw[p].CC.EN \in BOOLEAN /\ hw[p].CSTS.RDY \in BOOLEAN /\ DOMAIN hw = Places
      /\ boot.unit \in Nat \ {0} /\ boot.wait \in Nat /\ Device = hw[p]
      /\ boot = [place |-> p, at |-> boot.at, unit |-> boot.unit, wait |-> boot.wait]
  BY <1>1
<1>4. CASE Return /\ UNCHANGED hw
  BY <1>1, <1>4, NvmeReturns
<1>5. CASE Turn /\ UNCHANGED hw
  <2>1. Thread(p, "reset", boot.unit, boot.wait + 1) /\ "reset" \in NvmeAt
    BY <1>1, <1>3, <1>5 DEF Turn, Thread
  <2>2. NvmePages(p)' /\ NvmeCommand(p)' /\ NvmeOn(p)'
    BY <1>1, <1>2, <1>3, <1>5, <2>1 DEF NvmePages, NvmeCommand, NvmeOn, Names, In, Here, Thread
  <2>3. NvmeTold(p)'
    BY <1>1, <1>2, <1>3, <1>5, <2>1 DEF NvmeTold, In, Here, Thread
  <2>4. PcieInv'
    BY <1>1, <1>3, <1>5, <2>1, <2>2, <2>3, NvmeMoves, SameNvmeDevice, ReachedOn
  <2> QED BY <1>3, <1>5, <2>4, SameNvme
<1>6. CASE ~Device.CC.EN /\ Device.CSTS.RDY = Device.CC.EN /\ Go("admin") /\ UNCHANGED hw
  <2>1. Thread(p, "admin", boot.unit, boot.wait) /\ "admin" \in NvmeAt
    BY <1>1, <1>3, <1>6 DEF Go, Thread, NvmeAt
  <2>2. NvmePages(p)' /\ NvmeCommand(p)' /\ NvmeOn(p)'
    BY <1>1, <1>2, <1>3, <1>6, <2>1 DEF NvmePages, NvmeCommand, NvmeOn, Names, In, Here, Thread
  <2>3. NvmeTold(p)'
    BY <1>1, <1>2, <1>3, <1>6, <2>1 DEF NvmeTold, In, Here, Thread
  <2>4. PcieInv'
    BY <1>1, <1>3, <1>6, <2>1, <2>2, <2>3, NvmeMoves, SameNvmeDevice, ReachedOn
  <2> QED BY <1>3, <1>6, <2>4, SameNvme
<1>7. CASE /\ Device.CSTS.RDY = Device.CC.EN
           /\ hw' = [hw EXCEPT ![Here].CC.EN = FALSE] /\ Turn
  <2> DEFINE device == [hw[p] EXCEPT !.CC.EN = FALSE]
  <2>1. Thread(p, "reset", boot.unit, boot.wait + 1) /\ "reset" \in NvmeAt
    BY <1>1, <1>3, <1>7 DEF Turn, Thread
  <2>2. hw' = [hw EXCEPT ![p] = device]
    BY <1>3, <1>7
  <2>3. /\ device \in NvmeDevice /\ device.ASQ = hw[p].ASQ /\ device.ACQ = hw[p].ACQ /\ device.sq = hw[p].sq
        /\ device.cq = hw[p].cq /\ device.told = hw[p].told /\ device.command = hw[p].command
    BY <1>3 DEF NvmeDevice
  <2> HIDE DEF device
  <2>4. hw'[p] = device /\ NvmeStill(p)
    BY <1>1, <1>3, <2>2, <2>3 DEF NvmeStill
  <2>5. NvmePages(p)' /\ NvmeCommand(p)' /\ NvmeOn(p)'
    BY <1>1, <1>2, <1>3, <2>1, <2>3, <2>4 DEF NvmePages, NvmeCommand, NvmeOn, Names, In, Here, Thread
  <2>6. NvmeTold(p)'
    BY <1>1, <1>2, <1>3, <2>1, <2>3, <2>4 DEF NvmeTold, In, Here, Thread
  <2>8. PcieInv' /\ \A q \in Places \ {p} : hw'[q] = hw[q]
    BY <1>1, <1>3, <2>1, <2>4, <2>5, <2>6, NvmeMoves, ReachedOn
  <2> QED BY <1>3, <1>7, <2>3, <2>4, <2>8 DEF SwitchesNvme, NvmeSwitched
<1> QED BY <1>4, <1>5, <1>6, <1>7 DEF WaitDisabled

LEMMA ThreadMoves ==
  ASSUME NEW p, boot = [place |-> p, at |-> boot.at, unit |-> boot.unit, wait |-> boot.wait], NEW a, NEW u, NEW w
  PROVE  /\ boot' = [boot EXCEPT !.at = a, !.wait = w] => boot' = [place |-> p, at |-> a, unit |-> boot.unit, wait |-> w]
         /\ boot' = [boot EXCEPT !.at = a, !.unit = u] => boot' = [place |-> p, at |-> a, unit |-> u, wait |-> boot.wait]
         /\ boot' = [boot EXCEPT !.at = a, !.unit = u, !.wait = w] => boot' = [place |-> p, at |-> a, unit |-> u, wait |-> w]
<1> DEFINE was == boot.at
           unit == boot.unit
           wait == boot.wait
<1>1. boot = [place |-> p, at |-> was, unit |-> unit, wait |-> wait]
  OBVIOUS
<1> HIDE DEF was, unit, wait
<1>2. boot' = [boot EXCEPT !.at = a, !.wait = w] => boot' = [place |-> p, at |-> a, unit |-> unit, wait |-> w]
  BY ONLY <1>1
<1>3. boot' = [boot EXCEPT !.at = a, !.unit = u] => boot' = [place |-> p, at |-> a, unit |-> u, wait |-> wait]
  BY ONLY <1>1
<1>4. boot' = [boot EXCEPT !.at = a, !.unit = u, !.wait = w] => boot' = [place |-> p, at |-> a, unit |-> u, wait |-> w]
  BY ONLY <1>1
<1> QED BY <1>2, <1>3, <1>4, Zenon DEF was, unit, wait

LEMMA EnableKeeps ==
  ASSUME PcieInv, NEW p \in Places, p = Here, Enable
  PROVE  PcieInv' /\ SwitchesNvme(p)
<1>1. /\ boot.at = "enable" /\ boot.at \in NvmeAt /\ UNCHANGED <<world, lists, driver, free>>
      /\ hw' = [hw EXCEPT ![p].CC = Configuration(TRUE, 0, Function.capability.MPSMIN, 6, 4)]
      /\ boot' = [boot EXCEPT !.at = "enabled", !.wait = 0]
  BY DEF Enable, At, NvmeAt
<1>2. UNCHANGED <<function, driver>>
  BY <1>1 DEF world
<1>3. /\ NvmePages(p) /\ NvmeCommand(p) /\ NvmeOn(p) /\ NvmeTold(p) /\ function[p].class = "nvme" /\ hw[p] \in NvmeDevice
      /\ DOMAIN hw = Places /\ boot.unit \in Nat \ {0} /\ Function = function[p]
      /\ boot = [place |-> p, at |-> boot.at, unit |-> boot.unit, wait |-> boot.wait]
  BY <1>1, NvmeFacts
<1>4. Function.capability.MPSMIN \in Nat
  BY <1>3, FunctionsKnown DEF PcieInv
<1> DEFINE cc == Configuration(TRUE, 0, Function.capability.MPSMIN, 6, 4)
           device == [hw[p] EXCEPT !.CC = cc]
<1>5. Thread(p, "enabled", boot.unit, 0) /\ "enabled" \in NvmeAt
  <2>1. boot' = [place |-> p, at |-> "enabled", unit |-> boot.unit, wait |-> 0]
    BY <1>1, <1>3, ThreadMoves, Zenon
  <2> QED BY <1>3, <2>1 DEF Thread, NvmeAt
<1>6. cc \in [EN : BOOLEAN, CSS : Nat, MPS : Nat, IOSQES : Nat, IOCQES : Nat] /\ cc.EN = TRUE
  BY <1>4 DEF Configuration
<1> HIDE DEF cc
<1>7. /\ device \in NvmeDevice /\ device.ASQ = hw[p].ASQ /\ device.ACQ = hw[p].ACQ /\ device.sq = hw[p].sq
      /\ device.cq = hw[p].cq /\ device.told = hw[p].told /\ device.command = hw[p].command /\ device.CC.EN = TRUE
  <2> HIDE DEF Commands
  <2> QED BY <1>3, <1>6 DEF NvmeDevice
<1>8. hw'[p] = device /\ DOMAIN hw' = Places /\ \A q \in Places \ {p} : hw'[q] = hw[q]
  BY <1>1, <1>3 DEF cc
<1> HIDE DEF device
<1>9. NvmeStill(p)
  BY <1>1, <1>7, <1>8 DEF NvmeStill
<1>10. NvmePages(p)' /\ NvmeCommand(p)' /\ NvmeOn(p)'
  <2>1. boot'.place = p /\ boot'.at = "enabled"
    BY ONLY <1>5 DEF Thread
  <2>2. Names(p)' = Names(p)
    BY <1>2 DEF Names
  <2>3. NvmePages(p)'
    <3>1. Names(p) = AdminPages /\ AdminPages \subseteq AllPages
      BY <1>1, <1>3 DEF NvmePages, In
    <3> HIDE DEF Names
    <3> QED BY ONLY <2>1, <2>2, <3>1 DEF NvmePages, In, Here
  <2>4. NvmeCommand(p)'
    <3>1. hw[p].command = NoCommand
      BY <1>1, <1>3 DEF NvmeCommand, In
    <3> QED BY <1>7, <1>8, <3>1 DEF NvmeCommand
  <2>5. NvmeOn(p)'
    BY <1>7, <1>8, <2>1 DEF NvmeOn, In, Here
  <2> QED BY <2>3, <2>4, <2>5
<1>11. NvmeTold(p)'
  BY <1>1, <1>2, <1>3, <1>5, <1>7, <1>8 DEF NvmeTold, In, Here, Thread
<1>12. PcieInv'
  BY <1>1, <1>3, <1>5, <1>9, <1>10, <1>11, NvmeMoves, ReachedOn
<1>13. ~hw[p].CC.EN /\ ~hw[p].CSTS.RDY /\ hw[p].CC.EN \in BOOLEAN /\ hw[p].CSTS.RDY \in BOOLEAN
  BY <1>1, <1>3, NvmeFacts DEF NvmeOn, In
<1> QED BY <1>3, <1>7, <1>8, <1>12, <1>13 DEF SwitchesNvme, NvmeSwitched

LEMMA WaitReadyKeeps ==
  ASSUME PcieInv, NEW p \in Places, p = Here, WaitReady \/ VerifyReady
  PROVE  PcieInv' /\ SwitchesNvme(p)
<1>1. /\ boot.at \in {"enabled", "verify"} /\ boot.at \in NvmeAt /\ UNCHANGED <<world, lists, hw, driver, free>>
  BY DEF WaitReady, VerifyReady, At, NvmeAt
<1>2. UNCHANGED <<function, driver, hw>>
  BY <1>1 DEF world
<1>3. /\ NvmePages(p) /\ NvmeCommand(p) /\ NvmeOn(p) /\ NvmeTold(p) /\ function[p].class = "nvme" /\ hw[p] \in NvmeDevice
      /\ DOMAIN hw = Places /\ boot.unit \in Nat \ {0} /\ boot.wait \in Nat /\ Device = hw[p]
      /\ boot = [place |-> p, at |-> boot.at, unit |-> boot.unit, wait |-> boot.wait]
  BY <1>1, NvmeFacts
<1>4. CASE Return
  BY <1>1, <1>4, NvmeReturns
<1>5. ASSUME NEW at, NEW wait, Thread(p, at, boot.unit, wait),
             at \in {"enabled", "verify"} \/ (at = "identify" /\ Device.CSTS.RDY)
      PROVE  PcieInv'
  <2>1. NvmePages(p)' /\ NvmeCommand(p)'
    BY <1>1, <1>2, <1>3, <1>5 DEF NvmePages, NvmeCommand, Names, In, Here, Thread
  <2>2. NvmeOn(p)'
    BY <1>1, <1>2, <1>3, <1>5 DEF NvmeOn, In, Here, Thread
  <2>3. NvmeTold(p)'
    BY <1>1, <1>2, <1>3, <1>5 DEF NvmeTold, In, Here, Thread
  <2>4. at \in NvmeAt
    BY <1>5 DEF NvmeAt
  <2>5. \A n \in Nat : Reached(p, n) => Reached(p, n)'
    BY <1>1, <1>3, <1>5, ReachedOn
  <2> HIDE DEF Reached
  <2> QED BY <1>1, <1>3, <1>5, <2>1, <2>2, <2>3, <2>4, <2>5, NvmeMoves, SameNvmeDevice
<1>6. CASE Turn
  <2>1. Thread(p, boot.at, boot.unit, boot.wait + 1)
    BY <1>3, <1>6 DEF Turn, Thread
  <2> QED BY <1>1, <1>2, <1>3, <1>5, <2>1, SameNvme
<1>7. CASE Go("verify")
  <2>1. Thread(p, "verify", boot.unit, boot.wait)
    BY <1>3, <1>7 DEF Go, Thread
  <2> QED BY <1>2, <1>3, <1>5, <2>1, SameNvme
<1>8. CASE Go("identify") /\ Device.CSTS.RDY
  <2>1. Thread(p, "identify", boot.unit, boot.wait)
    BY <1>3, <1>8 DEF Go, Thread
  <2> QED BY <1>2, <1>3, <1>5, <1>8, <2>1, SameNvme
<1> QED BY <1>4, <1>6, <1>7, <1>8 DEF WaitReady, VerifyReady

LEMMA CreateSecondKeeps ==
  ASSUME PcieInv, NEW p \in Places, p = Here, CreateSecond \/ TableRead
  PROVE  PcieInv' /\ SwitchesNvme(p)
<1>1. /\ boot.at \in {"completions", "table"} /\ boot.at \in NvmeAt /\ UNCHANGED <<world, lists, driver, free>>
      /\ Answered
  BY DEF CreateSecond, TableRead, At, NvmeAt
<1>2. UNCHANGED <<function, driver>>
  BY <1>1 DEF world
<1>3. /\ NvmePages(p) /\ NvmeCommand(p) /\ NvmeOn(p) /\ NvmeTold(p) /\ function[p].class = "nvme" /\ hw[p] \in NvmeDevice
      /\ DOMAIN hw = Places /\ boot.unit \in Nat \ {0} /\ boot.wait \in Nat /\ Device = hw[p] /\ Record = driver[p]
      /\ boot = [place |-> p, at |-> boot.at, unit |-> boot.unit, wait |-> boot.wait] /\ RecordTyped(p)
  BY <1>1, NvmeFacts
<1>4. hw[p].command = NoCommand
  BY <1>1, <1>3 DEF Answered
<1>5. CASE CreateSecond
  <2> DEFINE c == CreateSubmissionQueue(Record.page[The("identify")], SqSize)
             device == [hw[p] EXCEPT !.command = c]
  <2>1. boot.at = "completions" /\ hw' = [hw EXCEPT ![p].command = c] /\ Go("namespaces")
    BY <1>5 DEF CreateSecond, Submit, At
  <2>2. Record.page[The("identify")] \in Nat
    BY <1>3, <2>1 DEF RecordTyped, NvmePages, AllPages, In
  <2>3. c \in Commands
    BY <2>2 DEF Commands
  <2> HIDE DEF c
  <2>4. /\ device \in NvmeDevice /\ device.ASQ = hw[p].ASQ /\ device.ACQ = hw[p].ACQ /\ device.sq = hw[p].sq
        /\ device.cq = hw[p].cq /\ device.told = hw[p].told /\ device.command = c /\ device.CC = hw[p].CC /\ device.CSTS = hw[p].CSTS
    <3> HIDE DEF Commands
    <3> QED BY <1>3, <2>3 DEF NvmeDevice
  <2>5. hw'[p] = device /\ DOMAIN hw' = Places /\ \A q \in Places \ {p} : hw'[q] = hw[q]
    BY <1>3, <2>1
  <2> HIDE DEF device
  <2>6. Thread(p, "namespaces", boot.unit, boot.wait)
    BY <1>3, <2>1 DEF Go, Thread
  <2>7. NvmeStill(p) /\ "namespaces" \in NvmeAt
    BY <1>1, <2>4, <2>5 DEF NvmeStill, NvmeAt
  <2>8. NvmePages(p)' /\ NvmeOn(p)'
    BY <1>2, <1>3, <2>1, <2>4, <2>5, <2>6 DEF NvmePages, NvmeOn, Names, In, Here, Thread
  <2>9. NvmeCommand(p)'
    BY <1>2, <1>3, <2>4, <2>5, <2>6 DEF NvmeCommand, In, Here, Thread, c
  <2>10. NvmeTold(p)'
    <3>1. /\ boot'.place = p /\ boot'.at = "namespaces" /\ boot'.unit = boot.unit /\ hw'[p].told = hw[p].told
          /\ In(p, {"completions"}) /\ ~Before(p)'
      BY <1>3, <2>1, <2>4, <2>5, <2>6, NumbersPlaces DEF Thread, In, Before, Here
    <3>2. hw[p].told \subseteq {0} /\ driver[p].count \in {0, Len(function[p].namespaces)}
      BY <1>3, <3>1 DEF NvmeTold, In
    <3>3. \A n \in hw'[p].told : n < boot'.unit
      BY <1>3, <3>1, <3>2
    <3> HIDE DEF Before
    <3> QED BY <1>2, <3>1, <3>2, <3>3 DEF NvmeTold, In, Here
  <2>11. PcieInv'
    BY <1>1, <1>3, <2>1, <2>6, <2>7, <2>8, <2>9, <2>10, NvmeMoves, ReachedOn
  <2> QED BY <1>3, <2>4, <2>5, <2>11 DEF SwitchesNvme, NvmeSwitched
<1>6. CASE TableRead
  <2>1. boot.at = "table" /\ NextUnit /\ UNCHANGED hw
    BY <1>6 DEF TableRead, At
  <2>2. Thread(p, "namespaces", boot.unit + 1, boot.wait) /\ "namespaces" \in NvmeAt
    <3>1. boot' = [place |-> p, at |-> "namespaces", unit |-> boot.unit + 1, wait |-> boot.wait]
      BY <1>3, <2>1, ThreadMoves, Zenon DEF NextUnit
    <3> QED BY <1>3, <3>1 DEF Thread, NvmeAt
  <2>3. NvmePages(p)' /\ NvmeOn(p)' /\ NvmeCommand(p)'
    BY <1>2, <1>3, <1>4, <2>1, <2>2 DEF NvmePages, NvmeOn, NvmeCommand, Names, In, Here, Thread
  <2>4. NvmeTold(p)'
    <3>1. \A n \in hw[p].told : n \in Nat
      BY <1>3 DEF NvmeDevice
    <3>2. /\ boot'.place = p /\ boot'.at = "namespaces" /\ boot'.unit = boot.unit + 1 /\ In(p, {"table"}) /\ ~Before(p)'
      BY <1>3, <2>1, <2>2, NumbersPlaces DEF Thread, In, Before, Here
    <3>3. (\A n \in hw[p].told : n <= boot.unit) /\ driver[p].count \in {0, Len(function[p].namespaces)}
      BY <1>3, <3>2 DEF NvmeTold, In
    <3>4. \A n \in hw'[p].told : n < boot'.unit
      BY <1>3, <2>1, <3>1, <3>2, <3>3
    <3> HIDE DEF Before
    <3> QED BY <1>2, <2>1, <3>2, <3>3, <3>4 DEF NvmeTold, In, Here
  <2>5. PcieInv'
    BY <1>1, <1>3, <2>1, <2>2, <2>3, <2>4, NvmeMoves, ReachedOn, SameNvmeDevice
  <2> QED BY <1>3, <2>1, <2>5, SameNvme
<1> QED BY <1>5, <1>6

(* The last namespace was asked for: the page goes back.                    *)
LEMMA NvmeDoneKeeps ==
  ASSUME PcieInv, NEW p \in Places, p = Here, NvmeDone
  PROVE  PcieInv' /\ SwitchesNvme(p)
<1>1. /\ boot.at = "namespaces" /\ boot.at \in NvmeAt /\ UNCHANGED <<world, lists, hw, driver>>
      /\ Answered /\ free' = free \cup {Record.page[The("identify")]} /\ Return
  BY DEF NvmeDone, At, NvmeAt
<1>2. UNCHANGED <<function, driver, owned>>
  BY <1>1 DEF world
<1>3. /\ NvmePages(p) /\ function[p].class = "nvme" /\ Device = hw[p] /\ Record = driver[p]
      /\ boot = [place |-> p, at |-> boot.at, unit |-> boot.unit, wait |-> boot.wait] /\ DOMAIN hw = Places /\ DOMAIN driver = Places
  BY <1>1, NvmeFacts
<1>4. Leaves
  BY <1>1 DEF Return, Leaves
<1>5. p \in Nat /\ boot'.place = p + 1
  BY <1>4, NumbersPlaces DEF Leaves
<1>6. The("identify") \in Kept(p) /\ Kept(p)' = Kept(p) \ {The("identify")}
  BY <1>1, <1>2, <1>3, <1>5 DEF Kept, NvmePages, AllPages, In, Names, Passed
<1>7. PagesApart'
  <2>1. StepAt(p)
    BY <1>1, <1>3, <1>4, <1>5 DEF StepAt, Walks, Leaves, lists
  <2>2. \A q \in Places \ {p} : SamePages(q)
    BY <2>1, OthersPages DEF PcieInv
  <2>3. Names(p)' = Names(p) /\ \A n \in Names(p) : driver'[p].page[n] = driver[p].page[n]
    BY <1>2 DEF Names
  <2> QED BY <1>1, <1>2, <1>3, <1>6, <2>2, <2>3, NumbersPlaces, PageReturned DEF PcieInv
<1>8. PcieInv'
  BY <1>1, <1>3, <1>4, <1>7, QuietKeeps DEF Answered
<1> QED BY <1>1, <1>3, <1>8, SameNvme

(* A step of the set-up that gives the record pages, and what it makes of   *)
(* the rest of it.                                                          *)
RecordMade(p, filled, data, count) ==
  \/ /\ driver' = [driver EXCEPT ![p] = filled]
     /\ data = driver[p].data /\ count = driver[p].count
  \/ /\ driver' = [driver EXCEPT ![p] = [filled EXCEPT !.data = data]]
     /\ count = driver[p].count
  \/ driver' = [driver EXCEPT ![p] = [filled EXCEPT !.data = data, !.count = count]]
  \/ /\ driver' = [driver EXCEPT ![p] = [filled EXCEPT !.count = count]]
     /\ data = driver[p].data

RecordGiven(p, names, data, count) == RecordMade(p, Supplied(names), data, count)

GivesPages(p, at, names, n, data, count, device) ==
  /\ UNCHANGED <<world, lists>>
  /\ Thread(p, at, boot.unit, boot.wait)
  /\ n \in Nat \ {0} /\ DOMAIN names = 1 .. n
  /\ \A i, j \in 1 .. n : names[i] = names[j] => i = j
  /\ \A i \in 1 .. n : names[i] \notin Names(p)
  /\ Enough(n) /\ Allocate(n)
  /\ RecordGiven(p, names, data, count)
  /\ hw' = [hw EXCEPT ![p] = device]

Gained(p, names, n) ==
  /\ driver'[p].page = [name \in Names(p)' |-> driver'[p].page[name]]
  /\ Names(p)' = Names(p) \cup {names[i] : i \in 1 .. n}
  /\ \A i \in 1 .. n : driver'[p].page[names[i]] = Page(i) /\ Page(i) \in Nat \ {0}
  /\ \A name \in Names(p) : driver'[p].page[name] = driver[p].page[name]
  /\ \A name \in Names(p)' : driver'[p].page[name] \in Nat
  /\ PagesApart'

GotRecord(p, names, n, data, count) ==
  /\ driver'[p] = [base |-> driver[p].base, page |-> driver'[p].page, data |-> driver'[p].data, count |-> driver'[p].count]
  /\ driver'[p].data = data /\ driver'[p].count = count
  /\ Gained(p, names, n)

GotPages(p, names, n, data, count, device) ==
  /\ Inside(p) /\ hw'[p] = device /\ (\A q \in Places \ {p} : hw'[q] = hw[q])
  /\ GotRecord(p, names, n, data, count)

(* The pages may be any that were free ...                                  *)
LEMMA InsideMade ==
  ASSUME PcieInv, NEW p, Inside(p), NEW names, NEW pages, NEW n, NEW data, NEW count,
         NewNames(p, names, n), Taken(pages, n), RecordMade(p, Filled(names, pages), data, count)
  PROVE  /\ driver'[p] = [base |-> driver[p].base, page |-> driver'[p].page, data |-> driver'[p].data, count |-> driver'[p].count]
         /\ driver'[p].data = data /\ driver'[p].count = count
         /\ Took(p, names, n, pages)
<1> DEFINE was == Filled(names, pages)
           base == driver[p].base
           page == was.page
           before == driver[p].data
           number == driver[p].count
<1>0. PICK record :
       /\ driver' = [driver EXCEPT ![p] = record]
       /\ \/ record = was /\ data = before /\ count = number
          \/ record = [was EXCEPT !.data = data] /\ count = number
          \/ record = [was EXCEPT !.data = data, !.count = count]
          \/ record = [was EXCEPT !.count = count] /\ data = before
  BY DEF RecordMade
<1>1. DOMAIN driver = Places /\ p \in Places /\ p = Here /\ Record = driver[p]
  BY DEF PcieInv, RecordsTyped, Inside, Record
<1>2. /\ driver'[p] = record /\ DOMAIN driver' = Places /\ \A q \in Places \ {p} : driver'[q] = driver[q]
  BY <1>0, <1>1
<1>3. was = [base |-> base, page |-> page, data |-> before, count |-> number]
  <2>1. Record = [base |-> Record.base, page |-> Record.page, data |-> Record.data, count |-> Record.count]
    BY <1>1 DEF PcieInv, RecordsTyped, RecordTyped
  <2>2. Distinct(names, n)
    BY DEF NewNames
  <2>3. was = [base |-> Record.base, page |-> page, data |-> Record.data, count |-> Record.count]
    BY <2>1, <2>2, FilledPages, Zenon
  <2> QED BY <1>1, <2>3
<1>4. record = [base |-> base, page |-> page, data |-> data, count |-> count]
  <2> HIDE DEF was, base, page, before, number
  <2> QED BY ONLY <1>0, <1>3
<1>5. /\ driver'[p].page = Filled(names, pages).page /\ driver'[p].data = data /\ driver'[p].count = count
      /\ driver'[p] = [base |-> driver[p].base, page |-> driver'[p].page, data |-> driver'[p].data, count |-> driver'[p].count]
  <2> HIDE DEF was, base, page
  <2>1. driver'[p].page = page /\ driver'[p].data = data /\ driver'[p].count = count
    BY <1>2, <1>4
  <2> QED BY <1>2, <1>4, <2>1 DEF base, page, was
<1>6. Took(p, names, n, pages)
  <2> HIDE DEF was, base, page, before, number
  <2> QED BY <1>5, InsideFilled
<1> HIDE DEF was, base, page, before, number
<1> QED BY <1>5, <1>6

(* ... and mostly are the lowest.                                           *)
LEMMA InsideGiven ==
  ASSUME PcieInv, NEW p, Inside(p), NEW names, NEW n, NEW data, NEW count,
         n \in Nat \ {0}, DOMAIN names = 1 .. n,
         \A i, j \in 1 .. n : names[i] = names[j] => i = j,
         \A i \in 1 .. n : names[i] \notin Names(p),
         Enough(n), Allocate(n), RecordGiven(p, names, data, count)
  PROVE  GotRecord(p, names, n, data, count)
<1> DEFINE pages == [i \in 1 .. n |-> Page(i)]
<1>1. Taken(pages, n)
  BY LowestTaken
<1>2. Supplied(names) = Filled(names, pages)
  BY DEF Supplied
<1>3. \A i \in 1 .. n : pages[i] = Page(i)
  OBVIOUS
<1> HIDE DEF pages
<1>4. RecordMade(p, Filled(names, pages), data, count)
  BY <1>2 DEF RecordGiven
<1>5. /\ driver'[p] = [base |-> driver[p].base, page |-> driver'[p].page, data |-> driver'[p].data, count |-> driver'[p].count]
      /\ driver'[p].data = data /\ driver'[p].count = count
      /\ Took(p, names, n, pages)
  <2>1. NewNames(p, names, n)
    BY DEF NewNames, Distinct
  <2> QED BY <1>1, <1>4, <2>1, InsideMade
<1>6. Gained(p, names, n)
  <2>1. ASSUME NEW i \in 1 .. n PROVE driver'[p].page[names[i]] = Page(i) /\ Page(i) \in Nat \ {0}
    <3>1. driver'[p].page[names[i]] = pages[i] /\ pages[i] \in Nat \ {0}
      BY <1>5 DEF Took
    <3>2. pages[i] = Page(i)
      BY <1>3
    <3> QED BY <3>1, <3>2
  <2>2. \A i \in 1 .. n : driver'[p].page[names[i]] = Page(i) /\ Page(i) \in Nat \ {0}
    BY <2>1
  <2> QED BY <1>5, <2>2, Zenon DEF Took, Gained
<1> QED BY <1>5, <1>6 DEF GotRecord

LEMMA NvmeGains ==
  ASSUME PcieInv, NEW p \in Places, p = Here, boot.at \in NvmeAt, NEW at, at \in NvmeAt,
         NEW names, NEW n, NEW data, NEW count, NEW device, GivesPages(p, at, names, n, data, count, device)
  PROVE  GotPages(p, names, n, data, count, device)
<1>1. DOMAIN hw = Places /\ DOMAIN driver = Places /\ boot.unit \in Nat
  BY NvmeFacts
<1>2. hw'[p] = device /\ DOMAIN hw' = Places /\ \A q \in Places \ {p} : hw'[q] = hw[q]
  BY <1>1 DEF GivesPages
<1>3. DOMAIN driver' = Places /\ \A q \in Places \ {p} : driver'[q] = driver[q]
  BY <1>1 DEF GivesPages, RecordGiven, RecordMade
<1>4. Inside(p)
  BY <1>2, <1>3 DEF Inside, lists, Thread, GivesPages
<1>5. GotRecord(p, names, n, data, count)
  <2>1. /\ n \in Nat \ {0} /\ DOMAIN names = 1 .. n
        /\ \A i, j \in 1 .. n : names[i] = names[j] => i = j
        /\ \A i \in 1 .. n : names[i] \notin Names(p)
        /\ Enough(n) /\ Allocate(n) /\ RecordGiven(p, names, data, count)
    BY DEF GivesPages
  <2> QED BY <1>4, <2>1, InsideGiven, Zenon
<1> QED BY <1>2, <1>4, <1>5 DEF GotPages

LEMMA AdminQueuesKeeps ==
  ASSUME PcieInv, NEW p \in Places, p = Here, AdminQueues
  PROVE  PcieInv' /\ SwitchesNvme(p)
<1> DEFINE names == <<The("asq"), The("acq")>>
           device == [hw[p] EXCEPT !.ASQ = Page(1), !.ACQ = Page(2)]
<1>1. /\ boot.at = "admin" /\ boot.at \in NvmeAt /\ "enable" \in NvmeAt /\ UNCHANGED <<world, lists>>
      /\ Enough(2) /\ Allocate(2) /\ driver' = [driver EXCEPT ![p] = Supplied(names)]
      /\ hw' = [hw EXCEPT ![p] = device] /\ Go("enable")
  BY DEF AdminQueues, At, NvmeAt
<1>2. UNCHANGED <<function, registry>>
  BY <1>1 DEF world, lists
<1>3. /\ NvmePages(p) /\ NvmeCommand(p) /\ NvmeOn(p) /\ NvmeTold(p) /\ NvmeQueuesAt(p)
      /\ function[p].class = "nvme" /\ hw[p] \in NvmeDevice
      /\ boot.unit \in Nat \ {0} /\ boot.wait \in Nat
      /\ boot = [place |-> p, at |-> boot.at, unit |-> boot.unit, wait |-> boot.wait] /\ RecordTyped(p)
  BY <1>1, NvmeFacts
<1>4. Names(p) = {} /\ hw[p].command = NoCommand /\ hw[p].cq = 0 /\ hw[p].sq = 0 /\ hw[p].told = {}
      /\ ~hw[p].CC.EN /\ ~hw[p].CSTS.RDY
  BY <1>1, <1>3 DEF NvmePages, NvmeCommand, NvmeQueuesAt, NvmeTold, NvmeOn, In
<1>5. Thread(p, "enable", boot.unit, boot.wait)
  BY <1>1, <1>3 DEF Go, Thread
<1>6. /\ DOMAIN names = 1 .. 2 /\ names[1] = The("asq") /\ names[2] = The("acq")
      /\ \A i, j \in 1 .. 2 : names[i] = names[j] => i = j
      /\ {names[i] : i \in 1 .. 2} = AdminPages
  BY DEF The, AdminPages
<1>7. PICK a, b : a = Page(1) /\ b = Page(2)
  OBVIOUS
<1>8. \A n \in Nat : Reached(p, n) => Reached(p, n)'
  BY <1>1, <1>3, <1>5, ReachedOn
<1> HIDE DEF names, Reached, Before, GivesPages, GotPages, GotRecord
<1>9. GotPages(p, names, 2, driver[p].data, driver[p].count, device) /\ Names(p)' = AdminPages
  <2>1. GivesPages(p, "enable", names, 2, driver[p].data, driver[p].count, device)
    <3> HIDE DEF device
    <3>1. RecordGiven(p, names, driver[p].data, driver[p].count)
      BY <1>1 DEF RecordGiven, RecordMade
    <3> HIDE DEF RecordGiven
    <3> QED BY <1>1, <1>4, <1>5, <1>6, <3>1 DEF GivesPages
  <2>2. GotPages(p, names, 2, driver[p].data, driver[p].count, device)
    BY <1>1, <2>1, NvmeGains
  <2> QED BY <1>4, <1>6, <2>2 DEF GotPages, GotRecord, Gained
<1>91. /\ hw'[p] = device /\ driver'[p].page[The("asq")] = Page(1) /\ driver'[p].page[The("acq")] = Page(2)
       /\ Page(1) \in Nat /\ Page(2) \in Nat
  <2>1. 1 \in 1 .. 2 /\ 2 \in 1 .. 2
    OBVIOUS
  <2> QED BY <1>6, <1>9, <2>1 DEF GotPages, GotRecord, Gained
<1>10. /\ hw'[p] \in NvmeDevice /\ hw'[p].ASQ = Page(1) /\ hw'[p].ACQ = Page(2) /\ hw'[p].sq = 0 /\ hw'[p].cq = 0
       /\ hw'[p].command = NoCommand /\ hw'[p].told = {} /\ hw'[p].CC = hw[p].CC /\ hw'[p].CSTS = hw[p].CSTS
  <2>1. hw'[p] = [hw[p] EXCEPT !.ASQ = a, !.ACQ = b] /\ a \in Nat /\ b \in Nat
    BY <1>7, <1>91
  <2> HIDE DEF device, Commands
  <2> QED BY <1>3, <1>4, <1>7, <2>1 DEF NvmeDevice
<1> HIDE DEF device
<1>11. NvmePages(p)'
  BY <1>5, <1>9 DEF NvmePages, AllPages, In, Here, Thread
<1>12. NvmeQueuesAt(p)' /\ NvmeCommand(p)' /\ NvmeOn(p)'
  BY <1>4, <1>5, <1>9, <1>91, <1>10 DEF NvmeQueuesAt, NvmeCommand, NvmeOn, AdminPages, In, Here, Thread
<1>13. NvmeTold(p)'
  BY <1>5, <1>9, <1>10 DEF NvmeTold, In, Here, Thread
<1>14. PcieInv'
  <2>1. /\ Inside(p) /\ PagesApart' /\ registry' = registry /\ hw'[p].told = hw[p].told /\ boot.at # "namespace"
        /\ driver'[p] = [base |-> driver[p].base, page |-> driver'[p].page, data |-> driver'[p].data, count |-> driver'[p].count]
        /\ driver'[p].page = [name \in Names(p)' |-> driver'[p].page[name]]
        /\ \A name \in Names(p)' : driver'[p].page[name] \in Nat
    BY <1>1, <1>2, <1>4, <1>9, <1>10 DEF GotPages, GotRecord, Gained
  <2> QED BY <1>1, <1>8, <1>10, <1>11, <1>12, <1>13, <2>1, NvmeInside
<1> QED BY <1>3, <1>4, <1>9, <1>10, <1>14 DEF GotPages, GotRecord, Gained, SwitchesNvme, NvmeSwitched

(* One page under a new name, and a command for the controller.             *)
LEMMA PageAndCommand ==
  ASSUME PcieInv, NEW p \in Places, p = Here, boot.at \in {"identify", "identified"}, UNCHANGED <<world, lists>>,
         NEW at \in {"identified", "completions"}, Go(at), NEW name, name \in AllPages, name \notin Names(p),
         Enough(1), Allocate(1), NEW data, NEW count, RecordGiven(p, <<name>>, data, count),
         NEW c, hw' = [hw EXCEPT ![p].command = c], Page(1) \in Nat => c \in Commands,
         hw[p].command = NoCommand,
         \/ boot.at = "identify" /\ at = "identified" /\ name = The("identify") /\ c = IdentifyController(Page(1)) /\ data = Zeros
         \/ /\ boot.at = "identified" /\ at = "completions" /\ name = The("iocq") /\ c = CreateCompletionQueue(Page(1), CqSize)
            /\ count \in {0, Len(function[p].namespaces)}
  PROVE  PcieInv' /\ SwitchesNvme(p)
<1> DEFINE names == <<name>>
           device == [hw[p] EXCEPT !.command = c]
<1>1. /\ boot.at \in NvmeAt /\ at \in NvmeAt /\ hw' = [hw EXCEPT ![p] = device] /\ boot.at # "namespace"
  BY DEF NvmeAt
<1>2. UNCHANGED <<function, registry>>
  BY DEF world, lists
<1>3. /\ NvmePages(p) /\ NvmeOn(p) /\ NvmeTold(p) /\ NvmeQueuesAt(p)
      /\ function[p].class = "nvme" /\ hw[p] \in NvmeDevice
      /\ boot.unit \in Nat \ {0} /\ boot.wait \in Nat
      /\ boot = [place |-> p, at |-> boot.at, unit |-> boot.unit, wait |-> boot.wait] /\ RecordTyped(p)
  BY <1>1, NvmeFacts
<1>4. /\ Names(p) = AdminPages \cup (IF at = "identified" THEN {} ELSE {The("identify")})
      /\ hw[p].CC.EN /\ hw[p].CSTS.RDY /\ hw[p].told \subseteq {0}
      /\ at = "identified" => hw[p].told = {} /\ data = Zeros
  BY <1>3 DEF NvmePages, NvmeTold, NvmeOn, In
<1>5. Thread(p, at, boot.unit, boot.wait)
  BY <1>3 DEF Go, Thread
<1>6. DOMAIN names = 1 .. 1 /\ names[1] = name /\ {names[i] : i \in 1 .. 1} = {name}
  OBVIOUS
<1>7. \A n \in Nat : Reached(p, n) => Reached(p, n)'
  BY <1>1, <1>3, <1>5, ReachedOn
<1> HIDE DEF names, Reached, Before, GivesPages, GotPages, GotRecord, Commands
<1>8. GotPages(p, names, 1, data, count, device) /\ Names(p)' = Names(p) \cup {name}
  <2>1. GivesPages(p, at, names, 1, data, count, device)
    <3>1. RecordGiven(p, names, data, count)
      BY DEF names
    <3> HIDE DEF device, RecordGiven
    <3>2. \A i, j \in 1 .. 1 : names[i] = names[j] => i = j
      OBVIOUS
    <3>3. \A i \in 1 .. 1 : names[i] \notin Names(p)
      BY <1>6
    <3>4. 1 \in Nat \ {0}
      OBVIOUS
    <3> QED BY <1>1, <1>5, <1>6, <3>1, <3>2, <3>3, <3>4, Zenon DEF GivesPages
  <2>2. GotPages(p, names, 1, data, count, device)
    BY <1>1, <2>1, NvmeGains
  <2> QED BY <1>6, <2>2 DEF GotPages, GotRecord, Gained
<1>9. hw'[p] = device /\ driver'[p].page[name] = Page(1) /\ Page(1) \in Nat /\ c \in Commands
      /\ driver'[p].data = data /\ driver'[p].count = count
      /\ \A old \in Names(p) : driver'[p].page[old] = driver[p].page[old]
  <2>1. 1 \in 1 .. 1
    OBVIOUS
  <2> QED BY <1>6, <1>8, <2>1 DEF GotPages, GotRecord, Gained
<1>10. /\ hw'[p] \in NvmeDevice /\ hw'[p].ASQ = hw[p].ASQ /\ hw'[p].ACQ = hw[p].ACQ /\ hw'[p].sq = hw[p].sq
       /\ hw'[p].cq = hw[p].cq /\ hw'[p].command = c /\ hw'[p].told = hw[p].told /\ hw'[p].CC = hw[p].CC
       /\ hw'[p].CSTS = hw[p].CSTS
  <2> DEFINE old == hw[p]
             new == hw'[p]
  <2>1. new = [old EXCEPT !.command = c] /\ old \in NvmeDevice /\ c \in Commands
    BY <1>3, <1>9
  <2> HIDE DEF old, new
  <2>2. /\ new \in NvmeDevice /\ new.ASQ = old.ASQ /\ new.ACQ = old.ACQ /\ new.sq = old.sq
        /\ new.cq = old.cq /\ new.command = c /\ new.told = old.told /\ new.CC = old.CC /\ new.CSTS = old.CSTS
    BY ONLY <2>1 DEF NvmeDevice
  <2> QED BY <2>2 DEF old, new
<1> HIDE DEF device
<1>11. NvmePages(p)' /\ boot'.place = p /\ boot'.at = at
  BY <1>4, <1>5, <1>8 DEF NvmePages, AllPages, In, Here, Thread
<1>12. NvmeQueuesAt(p)'
  <2>1. The("asq") \in Names(p) /\ The("acq") \in Names(p) /\ name \notin AdminPages
    BY <1>4 DEF AdminPages, The
  <2>2. (Names(p)' = Names(p) \cup {name}) /\ (hw'[p].sq # 0 => The("identify") \in Names(p)) /\ (hw'[p].cq # 0 => The("iocq") \in Names(p))
    BY <1>3, <1>8, <1>10 DEF NvmeQueuesAt
  <2> QED BY <1>3, <1>9, <1>10, <2>1, <2>2 DEF NvmeQueuesAt
<1>13. NvmeCommand(p)' /\ NvmeOn(p)'
  BY <1>4, <1>9, <1>10, <1>11 DEF NvmeCommand, NvmeOn, In, Here
<1>14. NvmeTold(p)'
  <2>1. ~Before(p)'
    BY <1>11, NumbersPlaces DEF Before, Here
  <2> QED BY <1>2, <1>4, <1>9, <1>10, <1>11, <2>1 DEF NvmeTold, In, Here
<1>15. PcieInv'
  <2>1. /\ Inside(p) /\ PagesApart'
        /\ driver'[p] = [base |-> driver[p].base, page |-> driver'[p].page, data |-> driver'[p].data, count |-> driver'[p].count]
        /\ driver'[p].page = [old \in Names(p)' |-> driver'[p].page[old]]
        /\ \A old \in Names(p)' : driver'[p].page[old] \in Nat
    BY <1>8 DEF GotPages, GotRecord, Gained
  <2> QED BY <1>1, <1>2, <1>7, <1>10, <1>11, <1>12, <1>13, <1>14, <2>1, NvmeInside
<1> QED BY <1>3, <1>8, <1>10, <1>15 DEF GotPages, GotRecord, Gained, SwitchesNvme, NvmeSwitched

LEMMA IdentifyKeeps ==
  ASSUME PcieInv, NEW p \in Places, p = Here, IdentifyIt
  PROVE  PcieInv' /\ SwitchesNvme(p)
<1>1. /\ boot.at = "identify" /\ boot.at \in NvmeAt /\ UNCHANGED <<world, lists>> /\ Enough(1) /\ Allocate(1)
      /\ driver' = [driver EXCEPT ![p] = [Supplied(<<The("identify")>>) EXCEPT !.data = Zeros]]
      /\ hw' = [hw EXCEPT ![p].command = IdentifyController(Page(1))] /\ Go("identified")
  BY DEF IdentifyIt, At, NvmeAt, Submit
<1>2. hw[p].command = NoCommand /\ The("identify") \notin Names(p) /\ The("identify") \in AllPages
  <2>1. NvmePages(p) /\ NvmeCommand(p)
    BY <1>1, NvmeFacts
  <2> QED BY <1>1, <2>1 DEF NvmePages, NvmeCommand, In, AdminPages, AllPages, The
<1>3. Page(1) \in Nat => IdentifyController(Page(1)) \in Commands
  BY DEF Commands
<1>4. RecordGiven(p, <<The("identify")>>, Zeros, driver[p].count)
  BY <1>1 DEF RecordGiven, RecordMade
<1> HIDE DEF RecordGiven, Commands
<1> QED BY <1>1, <1>2, <1>3, <1>4, PageAndCommand

LEMMA CreateQueuesKeeps ==
  ASSUME PcieInv, NEW p \in Places, p = Here, CreateQueues
  PROVE  PcieInv' /\ SwitchesNvme(p)
<1>1. /\ boot.at = "identified" /\ boot.at \in NvmeAt /\ UNCHANGED <<world, lists>> /\ Enough(1) /\ Allocate(1)
      /\ driver' = [driver EXCEPT ![p] = [Supplied(<<The("iocq")>>) EXCEPT !.data = Zeros, !.count = driver[p].data.count]]
      /\ hw' = [hw EXCEPT ![p].command = CreateCompletionQueue(Page(1), CqSize)] /\ Go("completions")
      /\ hw[p].command = NoCommand
  BY DEF CreateQueues, At, NvmeAt, Submit, Answered, Device, Record
<1>2. The("iocq") \notin Names(p) /\ The("iocq") \in AllPages /\ driver[p].data.count \in {0, Len(function[p].namespaces)}
  <2>1. NvmePages(p) /\ NvmeTold(p)
    BY <1>1, NvmeFacts
  <2>2. Zeros.count = 0 /\ Told(function[p], 0).count = Len(function[p].namespaces)
    BY DEF Zeros, Told
  <2>3. driver[p].data \in {Zeros, Told(function[p], 0)}
    BY <1>1, <2>1 DEF NvmeTold, In
  <2> QED BY <1>1, <2>1, <2>2, <2>3 DEF NvmePages, In, AdminPages, AllPages, The
<1>3. Page(1) \in Nat => CreateCompletionQueue(Page(1), CqSize) \in Commands
  BY DEF Commands
<1>4. RecordGiven(p, <<The("iocq")>>, Zeros, driver[p].data.count)
  BY <1>1 DEF RecordGiven, RecordMade
<1> HIDE DEF RecordGiven, Commands
<1> QED BY <1>1, <1>2, <1>3, <1>4, PageAndCommand

LEMMA AskNamespaceKeeps ==
  ASSUME PcieInv, NEW p \in Places, p = Here, AskNamespace
  PROVE  PcieInv' /\ SwitchesNvme(p)
<1> DEFINE c == IdentifyNamespace(boot.unit, driver[p].page[The("identify")])
           device == [hw[p] EXCEPT !.command = c]
<1>1. /\ boot.at = "namespaces" /\ boot.at \in NvmeAt /\ "namespace" \in NvmeAt /\ UNCHANGED <<world, lists, free>>
      /\ hw[p].command = NoCommand /\ boot.unit <= driver[p].count
      /\ driver' = [driver EXCEPT ![p].data = Zeros]
      /\ hw' = [hw EXCEPT ![p] = device] /\ Go("namespace")
  BY DEF AskNamespace, At, NvmeAt, Submit, Answered, Device, Record
<1>2. UNCHANGED <<function, registry>>
  BY <1>1 DEF world, lists
<1>3. /\ NvmePages(p) /\ NvmeOn(p) /\ NvmeTold(p) /\ NvmeQueuesAt(p)
      /\ function[p].class = "nvme" /\ hw[p] \in NvmeDevice /\ DOMAIN hw = Places /\ DOMAIN driver = Places
      /\ boot.unit \in Nat \ {0} /\ boot.wait \in Nat
      /\ boot = [place |-> p, at |-> boot.at, unit |-> boot.unit, wait |-> boot.wait] /\ RecordTyped(p)
  BY <1>1, NvmeFacts
<1>4. /\ Names(p) = AllPages /\ hw[p].CC.EN /\ hw[p].CSTS.RDY /\ (\A n \in hw[p].told : n < boot.unit)
      /\ driver[p].count \in {0, Len(function[p].namespaces)}
  BY <1>1, <1>3 DEF NvmePages, NvmeTold, NvmeOn, In
<1>5. Thread(p, "namespace", boot.unit, boot.wait)
  BY <1>1, <1>3 DEF Go, Thread
<1>6. \A n \in Nat : Reached(p, n) => Reached(p, n)'
  BY <1>1, <1>3, <1>5, ReachedOn
<1>7. /\ hw'[p] = device /\ DOMAIN hw' = Places /\ (\A q \in Places \ {p} : hw'[q] = hw[q])
      /\ driver'[p] = [driver[p] EXCEPT !.data = Zeros] /\ DOMAIN driver' = Places
      /\ (\A q \in Places \ {p} : driver'[q] = driver[q])
  <2> HIDE DEF device
  <2> QED BY <1>1, <1>3
<1>8. Inside(p)
  <2> HIDE DEF device
  <2> QED BY <1>1, <1>5, <1>7 DEF Inside, Thread, lists
<1> HIDE DEF Before, Reached
<1>9. /\ driver'[p] = [base |-> driver[p].base, page |-> driver'[p].page, data |-> driver'[p].data, count |-> driver'[p].count]
      /\ driver'[p].page = driver[p].page /\ driver'[p].data = Zeros /\ driver'[p].count = driver[p].count
      /\ driver'[p].page = [name \in Names(p)' |-> driver'[p].page[name]]
      /\ \A name \in Names(p)' : driver'[p].page[name] \in Nat
  <2>1. driver[p] = [base |-> driver[p].base, page |-> driver[p].page, data |-> driver[p].data, count |-> driver[p].count]
    BY <1>3 DEF RecordTyped
  <2> HIDE DEF Zeros
  <2>2. /\ driver'[p] = [base |-> driver[p].base, page |-> driver[p].page, data |-> Zeros, count |-> driver[p].count]
        /\ driver'[p].page = driver[p].page /\ driver'[p].data = Zeros /\ driver'[p].count = driver[p].count
    BY <1>7, <2>1
  <2> QED BY <1>3, <2>2 DEF RecordTyped, Names
<1>10. c \in Commands
  <2>1. driver[p].page[The("identify")] \in Nat
    BY <1>3, <1>4 DEF RecordTyped, AllPages
  <2> QED BY <1>3, <2>1 DEF Commands
<1> HIDE DEF c
<1>11. /\ hw'[p] \in NvmeDevice /\ hw'[p].ASQ = hw[p].ASQ /\ hw'[p].ACQ = hw[p].ACQ /\ hw'[p].sq = hw[p].sq
       /\ hw'[p].cq = hw[p].cq /\ hw'[p].command = c /\ hw'[p].told = hw[p].told /\ hw'[p].CC = hw[p].CC
       /\ hw'[p].CSTS = hw[p].CSTS
  <2> HIDE DEF Commands
  <2> QED BY <1>3, <1>7, <1>10 DEF NvmeDevice
<1> HIDE DEF device
<1>12. NvmePages(p)' /\ boot'.place = p /\ boot'.at = "namespace" /\ boot'.unit = boot.unit /\ Names(p)' = Names(p)
  BY <1>4, <1>5, <1>9 DEF NvmePages, AllPages, In, Here, Thread, Names
<1>13. NvmeQueuesAt(p)'
  BY <1>3, <1>9, <1>11, <1>12 DEF NvmeQueuesAt
<1>14. NvmeCommand(p)' /\ NvmeOn(p)'
  BY <1>4, <1>9, <1>11, <1>12 DEF NvmeCommand, NvmeOn, In, Here, c
<1>15. NvmeTold(p)'
  <2>1. ~Before(p)'
    BY <1>12, NumbersPlaces DEF Before, Here
  <2>2. Len(function[p].namespaces) \in Nat
    BY <1>3, FunctionsKnown DEF PcieInv
  <2>3. boot.unit \in 1 .. Len(function[p].namespaces)
    BY <1>1, <1>3, <1>4, <2>2
  <2>4. boot.unit \notin hw'[p].told /\ \A n \in hw'[p].told : n <= boot'.unit
    <3>1. hw[p].told \subseteq Nat
      BY <1>3 DEF NvmeDevice
    <3> QED BY <1>3, <1>4, <1>11, <1>12, <3>1
  <2> HIDE DEF Zeros
  <2> QED BY <1>2, <1>4, <1>9, <1>12, <2>1, <2>3, <2>4 DEF NvmeTold, In, Here
<1>16. PcieInv'
  <2>1. registry' = registry /\ hw'[p].told = hw[p].told /\ boot.at # "namespace" /\ free' = free
    BY <1>1, <1>2, <1>11
  <2> QED BY <1>1, <1>6, <1>8, <1>9, <1>11, <1>12, <1>13, <1>14, <1>15, <2>1, NvmeInside
<1> QED BY <1>3, <1>7, <1>11, <1>16 DEF SwitchesNvme, NvmeSwitched

-----------------------------------------------------------------------------
(* The index of a namespace of at most sixteen formats is that of its own.  *)
LEMMA PlainIndex ==
  ASSUME NEW f, f.namespaces \in Seq(Namespaces), NEW n \in 1 .. Len(f.namespaces),
         NEW data, data = Told(f, n)
  PROVE  /\ data.size = f.namespaces[n].size /\ data.size \in Nat
         /\ f.namespaces[n].index.upper = 0 =>
              (NvmeDisk(f, n) <=> data.size # 0 /\ BlockSize(data) = 9)
<1> DEFINE said == f.namespaces[n]
<1>1. said \in Namespaces /\ n # 0
  OBVIOUS
<1> HIDE DEF said
<1>2. /\ said.size \in Nat /\ said.index.lower \in Nat /\ said.index.upper \in Nat
      /\ said.index.lower + 16 * said.index.upper + 1 \in DOMAIN said.formats
  <2>1. /\ said \in [size : Nat, index : [lower : 0 .. 15, upper : 0 .. 3], formats : Seq(Nat)]
        /\ said.index.lower + 16 * said.index.upper + 1 \in DOMAIN said.formats
    BY <1>1, Zenon DEF Namespaces
  <2>2. said.size \in Nat /\ said.index \in [lower : 0 .. 15, upper : 0 .. 3]
    BY <2>1
  <2>3. said.index.lower \in 0 .. 15 /\ said.index.upper \in 0 .. 3
    BY <2>2
  <2>4. (\A k \in 0 .. 15 : k \in Nat) /\ (\A k \in 0 .. 3 : k \in Nat)
    OBVIOUS
  <2> QED BY <2>1, <2>2, <2>3, <2>4, Zenon
<1>3. data.size = said.size /\ data.index = said.index /\ data.formats = said.formats
  BY <1>1 DEF Told, said
<1>4. ASSUME said.index.upper = 0
      PROVE  FormatIndex(data) = said.index.lower
  <2>1. InBoth(said.index.lower, 0) = 0
    <3>1. 0 % 2 = 0 /\ 0 \div 2 = 0
      OBVIOUS
    <3>2. PICK m \in Nat : m = said.index.lower
      BY <1>2
    <3>3. m % 2 \in Nat
      OBVIOUS
    <3>4. m \div 2 \in Nat
      OBVIOUS
    <3>5. (m \div 2) % 2 \in Nat
      <4>1. PICK half \in Nat : half = m \div 2
        BY <3>4
      <4>2. half % 2 \in Nat
        OBVIOUS
      <4> QED BY <4>1, <4>2
    <3> QED BY <3>1, <3>2, <3>3, <3>5 DEF InBoth
  <2> QED BY <1>2, <1>3, <1>4, <2>1 DEF FormatIndex
<1>5. ASSUME said.index.upper = 0
      PROVE  BlockSize(data) = said.formats[said.index.lower + 1]
  BY <1>2, <1>3, <1>4, <1>5 DEF BlockSize
<1> QED BY <1>2, <1>3, <1>5 DEF NvmeDisk, said

(* A new disk, of a unit that is not in the list yet.                       *)
LEMMA DiskAdded ==
  ASSUME PcieInv, NEW p \in Places, p = Here, boot'.place = p, NEW d \in Disk, d.place = p, registry' = <<d>> \o registry,
         function[p].class \in {"nvme", "ahci"}, UNCHANGED function, ~Before(p)',
         \A q \in Places \ {p} : LeftAlone(q),
         \A n \in Nat : Reached(p, n) => n # d.unit /\ Reached(p, n)',
         Reached(p, d.unit)'
  PROVE  /\ RegistryKnown'
         /\ Listed(p, d.unit)'
         /\ \A n : Listed(p, n) => Listed(p, n)'
         /\ \A k \in UnitsOf(p)' : registry'[k] = d \/ \E l \in UnitsOf(p) : registry'[k] = registry[l]
<1>1. BootTypes /\ RegistryKnown /\ registry \in Seq(Disk)
  BY DEF PcieInv, RegistryKnown
<1>2. /\ registry' \in Seq(Disk) /\ DOMAIN registry' = 1 .. Len(registry) + 1 /\ DOMAIN registry = 1 .. Len(registry)
      /\ Len(registry) \in Nat /\ registry'[1] = d
      /\ \A k \in DOMAIN registry : k + 1 \in DOMAIN registry' /\ registry'[k + 1] = registry[k]
      /\ \A k \in DOMAIN registry' : k = 1 \/ (k - 1 \in DOMAIN registry /\ registry'[k] = registry[k - 1])
  BY <1>1, Prepended
<1>3. ASSUME NEW k \in DOMAIN registry
      PROVE  registry[k].place \in Places /\ registry[k].unit \in Nat /\ Reached(registry[k].place, registry[k].unit)
             /\ ~Before(registry[k].place) /\ function[registry[k].place].class \in {"nvme", "ahci"}
  <2> HIDE DEF Before, Reached
  <2>1. registry[k] \in Disk
    BY <1>1
  <2> QED BY <1>1, <2>1 DEF RegistryKnown, Disk
<1>4. \A k \in DOMAIN registry : registry[k].place = p => registry[k].unit # d.unit
  <2> HIDE DEF Before, Reached
  <2> QED BY <1>3
<1>5. \A k, l \in DOMAIN registry' :
        registry'[k].place = registry'[l].place /\ registry'[k].unit = registry'[l].unit => k = l
  <2>1. \A k, l \in DOMAIN registry :
          registry[k].place = registry[l].place /\ registry[k].unit = registry[l].unit => k = l
    BY <1>1 DEF RegistryKnown
  <2> SUFFICES ASSUME NEW k \in DOMAIN registry', NEW l \in DOMAIN registry',
                      registry'[k].place = registry'[l].place, registry'[k].unit = registry'[l].unit
               PROVE  k = l
    BY Zenon
  <2>2. CASE k = 1 \/ l = 1
    BY <1>2, <1>4, <2>2
  <2>3. CASE k # 1 /\ l # 1
    <3>1. /\ k - 1 \in DOMAIN registry /\ registry'[k] = registry[k - 1]
          /\ l - 1 \in DOMAIN registry /\ registry'[l] = registry[l - 1]
      BY <1>2, <2>3
    <3>2. k - 1 = l - 1
      BY <2>1, <3>1
    <3> QED BY <1>2, <3>2
  <2> QED BY <2>2, <2>3
<1>6. ASSUME NEW q \in Places, NEW n \in Nat, Reached(q, n), ~Before(q)
      PROVE  ~Before(q)' /\ Reached(q, n)'
  <2>1. CASE q = p
    BY <1>6, <2>1
  <2>2. CASE q # p
    <3>1. LeftAlone(q)
      BY <2>2
    <3>2. Reached(q, n)'
      BY <2>2 DEF Reached, In, Here
    <3>3. Before(q)' <=> Before(q)
      BY <1>1, <3>1, SameStage
    <3> HIDE DEF Before, Reached
    <3> QED BY <1>6, <3>2, <3>3
  <2> QED BY <2>1, <2>2
<1>7. ASSUME NEW k \in DOMAIN registry', NEW q, q = registry'[k].place, NEW n, n = registry'[k].unit
      PROVE  ~Before(q)' /\ function[q].class \in {"nvme", "ahci"} /\ Reached(q, n)'
  <2>1. CASE k = 1
    BY <1>2, <1>7, <2>1
  <2>2. CASE k # 1
    <3>1. k - 1 \in DOMAIN registry /\ registry'[k] = registry[k - 1]
      BY <1>2, <2>2
    <3>2. q \in Places /\ n \in Nat /\ Reached(q, n) /\ ~Before(q) /\ function[q].class \in {"nvme", "ahci"}
      BY <1>3, <1>7, <3>1
    <3> HIDE DEF Before, Reached
    <3> QED BY <1>6, <3>2
  <2> QED BY <2>1, <2>2
<1>8. RegistryKnown'
  <2> HIDE DEF Before, Reached
  <2>1. (\A k \in DOMAIN registry : ~Before(registry[k].place) /\ Reached(registry[k].place, registry[k].unit))'
    BY <1>7
  <2>2. \A k \in DOMAIN registry' : function'[registry'[k].place].class \in {"nvme", "ahci"}
    BY <1>7
  <2> QED BY <1>2, <1>5, <2>1, <2>2 DEF RegistryKnown
<1>9. \A k \in UnitsOf(p) : k + 1 \in UnitsOf(p)' /\ registry'[k + 1] = registry[k]
  BY <1>2 DEF UnitsOf
<1>10. Listed(p, d.unit)' /\ \A n : Listed(p, n) => Listed(p, n)'
  <2>1. 1 \in UnitsOf(p)'
    BY <1>2 DEF UnitsOf
  <2>2. registry'[1].unit = d.unit
    BY <1>2
  <2>3. Listed(p, d.unit)'
    <3> HIDE DEF UnitsOf
    <3> QED BY ONLY <2>1, <2>2 DEF Listed
  <2>4. ASSUME NEW n, Listed(p, n) PROVE Listed(p, n)'
    <3>1. PICK k \in UnitsOf(p) : registry[k].unit = n
      BY <2>4 DEF Listed
    <3>2. k + 1 \in UnitsOf(p)' /\ registry'[k + 1].unit = n
      BY <1>9, <3>1
    <3> QED BY ONLY <3>2 DEF Listed
  <2> QED BY <2>3, <2>4
<1>11. \A k \in UnitsOf(p)' : registry'[k] = d \/ \E l \in UnitsOf(p) : registry'[k] = registry[l]
  <2>1. ASSUME NEW k \in UnitsOf(p)', k # 1 PROVE k - 1 \in UnitsOf(p) /\ registry'[k] = registry[k - 1]
    BY <1>2, <2>1 DEF UnitsOf
  <2> QED BY <1>2, <2>1
<1> QED BY <1>8, <1>10, <1>11

LEMMA AddNamespaceKeeps ==
  ASSUME PcieInv, NEW p \in Places, p = Here, AddNamespace
  PROVE  PcieInv' /\ SwitchesNvme(p)
<1> DEFINE data == driver[p].data
           unit == boot.unit
           f == function[p]
<1>1. /\ boot.at = "namespace" /\ boot.at \in NvmeAt /\ UNCHANGED <<world, chain, driver, free>>
      /\ hw[p].command = NoCommand
      /\ \/ data.size = 0 \/ BlockSize(data) # 9
         \/ data.size # 0 /\ BlockSize(data) = 9
  BY DEF AddNamespace, At, NvmeAt, Answered, Device
<1>2. UNCHANGED <<function, driver>>
  BY <1>1 DEF world
<1>3. /\ NvmePages(p) /\ NvmeOn(p) /\ NvmeTold(p) /\ NvmeQueuesAt(p)
      /\ function[p].class = "nvme" /\ hw[p] \in NvmeDevice /\ DOMAIN hw = Places /\ DOMAIN driver = Places
      /\ boot.unit \in Nat \ {0} /\ boot.wait \in Nat /\ Record = driver[p]
      /\ boot = [place |-> p, at |-> boot.at, unit |-> boot.unit, wait |-> boot.wait] /\ RecordTyped(p)
  BY <1>1, NvmeFacts
<1>4. /\ Names(p) = AllPages /\ hw[p].CC.EN /\ hw[p].CSTS.RDY /\ (\A n \in hw[p].told : n <= unit)
      /\ driver[p].count \in {0, Len(f.namespaces)} /\ unit \in 1 .. Len(f.namespaces)
      /\ data = (IF unit \in hw[p].told THEN Told(f, unit) ELSE Zeros)
  BY <1>1, <1>3 DEF NvmePages, NvmeTold, NvmeOn, In
<1>5. f.namespaces \in Seq(Namespaces) /\ MachineKnown
  BY <1>3, FunctionsKnown DEF PcieInv
<1>6. /\ NvmeDisksKnown(p) /\ hw[p].told \subseteq Nat /\ BootTypes
  BY <1>3 DEF PcieInv, NvmeDevice
<1> DEFINE plain(n) == f.namespaces[n].index.upper = 0
<1>7. /\ \A k \in UnitsOf(p) :
           /\ registry[k].unit \in DOMAIN f.namespaces
           /\ registry[k].capacity = f.namespaces[registry[k].unit].size
           /\ plain(registry[k].unit) => registry[k].unit \in hw[p].told /\ NvmeDisk(f, registry[k].unit)
      /\ \A n \in DOMAIN f.namespaces \cap hw[p].told :
           plain(n) /\ NvmeDisk(f, n) => n = unit \/ Listed(p, n)
  <2> HIDE DEF NvmeDisk, Listed, UnitsOf
  <2>1. ~In(p, {"panic"})
    BY <1>1 DEF In
  <2> QED BY <1>3, <1>6, <2>1 DEF NvmeDisksKnown
<1> HIDE DEF Reached, Before, NvmeDisk, Listed, UnitsOf
<1>8. CASE data.size = 0 \/ BlockSize(data) # 9
  <2>1. NextUnit /\ UNCHANGED <<registry, hw>>
    BY <1>3, <1>8 DEF AddNamespace
  <2>2. Thread(p, "namespaces", unit + 1, boot.wait) /\ "namespaces" \in NvmeAt
    <3>1. boot' = [place |-> p, at |-> "namespaces", unit |-> boot.unit + 1, wait |-> boot.wait]
      BY <1>3, <2>1, ThreadMoves, Zenon DEF NextUnit
    <3> QED BY <1>3, <3>1 DEF Thread, NvmeAt
  <2>3. /\ boot'.place = p /\ boot'.at = "namespaces" /\ boot'.unit = unit + 1 /\ ~Before(p)'
    BY <2>2, NumbersPlaces DEF Thread, Before, Here
  <2>4. NvmePages(p)' /\ NvmeOn(p)' /\ NvmeCommand(p)' /\ NvmeQueuesAt(p)'
    BY <1>1, <1>2, <1>3, <1>4, <2>1, <2>3 DEF NvmePages, NvmeOn, NvmeCommand, NvmeQueuesAt, Names, In, Here
  <2>5. NvmeTold(p)'
    <3>1. \A n \in hw'[p].told : n < boot'.unit
      BY <1>3, <1>4, <1>6, <2>1, <2>3
    <3> QED BY <1>2, <1>4, <2>3, <3>1 DEF NvmeTold, In, Here
  <2>6. ASSUME NEW n \in DOMAIN f.namespaces \cap hw[p].told, plain(n), NvmeDisk(f, n) PROVE Listed(p, n)
    <3>1. n # unit
      <4> SUFFICES ASSUME n = unit PROVE FALSE
        OBVIOUS
      <4>1. data = Told(f, unit)
        BY <1>4
      <4>2. data.size # 0 /\ BlockSize(data) = 9
        <5> HIDE DEF f, data, BlockSize
        <5> QED BY <1>4, <1>5, <2>6, <4>1, PlainIndex DEF f
      <4> QED BY <1>8, <4>2
    <3> QED BY <1>7, <2>6, <3>1
  <2>7. NvmeDisksKnown(p)'
    <3>1. UnitsOf(p)' = UnitsOf(p) /\ \A n : Listed(p, n)' <=> Listed(p, n)
      BY <2>1 DEF UnitsOf, Listed
    <3> QED BY <1>2, <1>7, <2>1, <2>6, <3>1 DEF NvmeDisksKnown
  <2>8. Inside(p) /\ hw'[p] \in NvmeDevice
    BY <1>1, <1>3, <2>1, <2>2 DEF Inside, Thread, lists
  <2>9. \A n \in Nat : Reached(p, n) => Reached(p, n)'
    BY <1>1, <1>3, <2>2, ReachedOn
  <2>10. PcieInv'
    BY <1>1, <1>2, <2>1, <2>4, <2>5, <2>7, <2>8, <2>9, NvmeInside
  <2> QED BY <1>3, <2>1, <2>10, SameNvme
<1>9. CASE data.size # 0 /\ BlockSize(data) = 9
  <2> DEFINE d == [place |-> p, unit |-> unit, capacity |-> data.size]
             device == [hw[p] EXCEPT !.command = Read]
  <2>1. /\ registry' = <<d>> \o registry /\ hw' = [hw EXCEPT ![p] = device] /\ Go("table")
    BY <1>3, <1>9 DEF AddNamespace, StorageInsert, Submit
  <2>2. unit \in hw[p].told /\ data = Told(f, unit)
    BY <1>4, <1>9 DEF Zeros
  <2>3. data.size = f.namespaces[unit].size /\ data.size \in Nat /\ (plain(unit) => NvmeDisk(f, unit))
    <3> HIDE DEF f, data, BlockSize
    <3> QED BY <1>4, <1>5, <1>9, <2>2, PlainIndex DEF f
  <2>4. d \in Disk /\ d.place = p /\ d.unit = unit /\ d.capacity = f.namespaces[unit].size
    BY <1>3, <2>3 DEF Disk
  <2> HIDE DEF d
  <2>5. Thread(p, "table", unit, boot.wait) /\ "table" \in NvmeAt
    BY <1>3, <2>1 DEF Go, Thread, NvmeAt
  <2>6. boot'.place = p /\ boot'.at = "table" /\ boot'.unit = unit /\ ~Before(p)' /\ ~Before(p)
    BY <1>1, <2>5, NumbersPlaces DEF Thread, Before, Here
  <2>7. hw'[p] = device /\ DOMAIN hw' = Places /\ \A q \in Places \ {p} : hw'[q] = hw[q]
    <3> HIDE DEF device
    <3> QED BY <1>3, <2>1
  <2>8. /\ hw'[p] \in NvmeDevice /\ hw'[p].ASQ = hw[p].ASQ /\ hw'[p].ACQ = hw[p].ACQ /\ hw'[p].sq = hw[p].sq
        /\ hw'[p].cq = hw[p].cq /\ hw'[p].command = Read /\ hw'[p].told = hw[p].told /\ hw'[p].CC = hw[p].CC
        /\ hw'[p].CSTS = hw[p].CSTS
    <3>1. Read \in Commands
      BY DEF Commands
    <3> HIDE DEF Commands, Read
    <3> QED BY <1>3, <2>7, <3>1 DEF NvmeDevice
  <2> HIDE DEF device
  <2>9. NvmePages(p)' /\ NvmeOn(p)' /\ NvmeCommand(p)' /\ NvmeQueuesAt(p)'
    BY <1>2, <1>3, <1>4, <2>6, <2>8 DEF NvmePages, NvmeOn, NvmeCommand, NvmeQueuesAt, Names, In, Here
  <2>10. NvmeTold(p)'
    BY <1>2, <1>4, <2>6, <2>8 DEF NvmeTold, In, Here
  <2>11. Inside(p)
    BY <1>1, <1>3, <2>1, <2>4, <2>5, <2>7 DEF Inside, Thread
  <2>12. /\ \A n \in Nat : Reached(p, n) => n # unit /\ Reached(p, n)'
         /\ Reached(p, unit)'
    BY <1>1, <1>3, <2>6 DEF Reached, In, Here
  <2>13. \A q \in Places \ {p} : LeftAlone(q)
    BY <1>6, <2>11, InsideSteps, LeavesOthers
  <2>14. /\ RegistryKnown' /\ Listed(p, unit)' /\ (\A n : Listed(p, n) => Listed(p, n)')
         /\ \A k \in UnitsOf(p)' : registry'[k] = d \/ \E l \in UnitsOf(p) : registry'[k] = registry[l]
    BY <1>2, <1>3, <2>1, <2>4, <2>6, <2>12, <2>13, DiskAdded
  <2>15. NvmeDisksKnown(p)'
    <3>0. unit \in DOMAIN f.namespaces
      BY <1>4, <1>5
    <3>1. ASSUME NEW k \in UnitsOf(p)'
          PROVE  /\ registry'[k].unit \in DOMAIN f.namespaces
                 /\ registry'[k].capacity = f.namespaces[registry'[k].unit].size
                 /\ plain(registry'[k].unit) => registry'[k].unit \in hw'[p].told /\ NvmeDisk(f, registry'[k].unit)
      <4>1. CASE registry'[k] = d
        BY <2>2, <2>3, <2>4, <2>8, <3>0, <4>1
      <4>2. CASE \E l \in UnitsOf(p) : registry'[k] = registry[l]
        BY <1>7, <2>8, <4>2
      <4> QED BY <2>14, <4>1, <4>2
    <3>2. \A n \in DOMAIN f.namespaces \cap hw'[p].told : plain(n) /\ NvmeDisk(f, n) => Listed(p, n)'
      <4> SUFFICES ASSUME NEW n \in DOMAIN f.namespaces \cap hw[p].told, plain(n), NvmeDisk(f, n) PROVE Listed(p, n)'
        BY <2>8
      <4>1. n = unit \/ Listed(p, n)
        BY <1>7
      <4>2. CASE n = unit
        BY <2>6, <2>14, <4>2
      <4>3. CASE Listed(p, n)
        BY <2>14, <4>3
      <4> QED BY <4>1, <4>2, <4>3
    <3> QED BY <1>2, <3>1, <3>2 DEF NvmeDisksKnown
  <2>16. PcieInv'
    BY <1>1, <1>2, <2>8, <2>9, <2>10, <2>11, <2>14, <2>15, NvmeInside
  <2> QED BY <1>3, <2>7, <2>8, <2>16 DEF SwitchesNvme, NvmeSwitched
<1> QED BY <1>8, <1>9

-----------------------------------------------------------------------------
(* The set-up of an AHCI controller.                                        *)
LEMMA AhciFacts ==
  ASSUME PcieInv, NEW p \in Places, p = Here, boot.at \in AhciAt
  PROVE  /\ function[p].class = "ahci" /\ DOMAIN hw = Places /\ DOMAIN driver = Places
         /\ AhciTypes(p) /\ AhciPages(p) /\ AhciQueuesAt(p) /\ AhciStopped(p) /\ AhciDisksKnown(p)
         /\ function[p].ports \in Seq(Ports)
         /\ boot = [place |-> p, at |-> boot.at, unit |-> boot.unit, wait |-> boot.wait]
         /\ boot.unit \in Nat \ {0} /\ boot.wait \in Nat
         /\ (boot.at = "general" => boot.unit = 1)
         /\ RecordTyped(p) /\ Record = driver[p] /\ Device = hw[p] /\ Function = function[p]
<1>1. BootTypes /\ AhciInv(p) /\ RecordsTyped /\ DOMAIN hw = Places /\ AhciDisksKnown(p) /\ MachineKnown
  BY DEF PcieInv
<1>2. function[p].class = "ahci" /\ RecordTyped(p) /\ DOMAIN driver = Places
  BY <1>1 DEF BootTypes, RecordsTyped, Function
<1>3. AhciTypes(p) /\ AhciPages(p) /\ AhciQueuesAt(p) /\ AhciStopped(p)
  BY <1>1, <1>2 DEF AhciInv
<1>4. function[p].ports \in Seq(Ports)
  BY <1>1, <1>2, FunctionsKnown
<1>5. boot \in [place : Nat, at : {"function", "open", "done", "panic"} \cup NvmeAt \cup AhciAt \cup XhciAt,
                unit : Nat \ {0}, wait : Nat]
      /\ (boot.at = "general" => boot.unit = 1)
  BY <1>1 DEF BootTypes
<1>6. boot = [place |-> p, at |-> boot.at, unit |-> boot.unit, wait |-> boot.wait] /\ boot.unit \in Nat \ {0} /\ boot.wait \in Nat
  <2> HIDE DEF NvmeAt, AhciAt, XhciAt
  <2> QED BY <1>5 DEF Here
<1> QED BY <1>1, <1>2, <1>3, <1>4, <1>5, <1>6 DEF Record, Device, Function

SwitchesAhci(p) ==
  /\ function[p].class = "ahci" /\ AhciSwitched(hw[p], hw'[p])
  /\ \A q \in Places \ {p} : hw'[q] = hw[q]

LEMMA SameAhci ==
  ASSUME NEW p, function[p].class = "ahci", hw' = hw
  PROVE  SwitchesAhci(p)
BY SameSwitched DEF SwitchesAhci

LEMMA AhciInside ==
  ASSUME PcieInv, NEW p, Inside(p), boot.at \in AhciAt,
         AhciTypes(p)', AhciPages(p)', AhciQueuesAt(p)', AhciStopped(p)',
         \/ driver'[p] = driver[p]
         \/ /\ driver'[p] = [base |-> driver[p].base, page |-> driver'[p].page, data |-> driver'[p].data,
                             count |-> driver'[p].count]
            /\ driver'[p].page = [name \in Names(p)' |-> driver'[p].page[name]]
            /\ \A name \in Names(p)' : driver'[p].page[name] \in Nat,
         \/ PagesApart'
         \/ free' = free /\ driver'[p].page = driver[p].page,
         AhciDisksKnown(p)',
         RegistryKnown' \/ (registry' = registry /\ \A unit \in Nat : Reached(p, unit) => Reached(p, unit)')
  PROVE  PcieInv'
<1>1. BootTypes /\ RecordTyped(p) /\ PagesApart /\ p = Here
  BY DEF PcieInv, RecordsTyped, Inside
<1>2. UNCHANGED function /\ owned' = owned /\ function[p].class = "ahci"
  BY <1>1 DEF Inside, world, BootTypes, Function
<1>3. AhciInv(p)' /\ NvmeInv(p)' /\ XhciInv(p)' /\ NvmeDisksKnown(p)'
  <2>1. AhciInv(p)'
    BY DEF AhciInv
  <2> QED BY <1>2, <2>1, OtherClass
<1>4. /\ driver'[p] = [base |-> driver[p].base, page |-> driver'[p].page, data |-> driver'[p].data,
                       count |-> driver'[p].count]
      /\ driver'[p].page = [name \in Names(p)' |-> driver'[p].page[name]]
      /\ \A name \in Names(p)' : driver'[p].page[name] \in Nat
  <2>1. CASE driver'[p] = driver[p]
    <3> HIDE DEF Before
    <3> QED BY <1>1, <2>1 DEF RecordTyped, Names
  <2> QED BY <2>1
<1>5. PagesApart'
  <2> SUFFICES ASSUME free' = free, driver'[p].page = driver[p].page PROVE PagesApart'
    OBVIOUS
  <2>1. SamePages(p)
    BY DEF SamePages, Kept, Names, Passed, Inside, Here
  <2>2. StepAt(p)
    BY <1>1, InsideSteps
  <2>3. \A q \in Places : SamePages(q)
    BY <1>1, <2>1, <2>2, OthersPages
  <2> QED BY <1>1, <1>2, <2>3, PagesStay
<1> HIDE DEF Reached
<1> QED BY <1>3, <1>4, <1>5, InsideKeeps

LEMMA AhciDisksOn ==
  ASSUME NEW p, p = Here, AhciDisksKnown(p), registry' = registry, UNCHANGED function, function[p].class = "ahci",
         boot'.place = p, boot.at \in AhciAt, boot'.at \in AhciAt \ {"general"}, ~Before(p),
         \A i \in DOMAIN function[p].ports : hw[p].port[i].reset => hw'[p].port[i].reset,
         \A i \in DOMAIN function[p].ports :
           /\ AhciDisk(function[p], i) /\ ~hw'[p].port[i].reset
           /\ boot.at = "general" \/ i > boot.unit \/ (i = boot.unit /\ boot.at # "name")
           => Listed(p, i) \/ i > boot'.unit \/ (i = boot'.unit /\ boot'.at # "name")
  PROVE  AhciDisksKnown(p)'
<1>1. UnitsOf(p)' = UnitsOf(p) /\ \A n : Listed(p, n)' <=> Listed(p, n)
  BY DEF UnitsOf, Listed
<1>2. In(p, AhciAt)' /\ ~In(p, {"panic"}) /\ (In(p, {"general", "panic"}) <=> boot.at = "general")
  BY DEF In, Here, AhciAt
<1> HIDE DEF AhciDisk, UnitsOf, Listed, Before, AhciAt
<1>3. \A i \in DOMAIN function[p].ports :
        AhciDisk(function[p], i) /\ ~hw'[p].port[i].reset =>
          Listed(p, i) \/ i > boot'.unit \/ (i = boot'.unit /\ boot'.at # "name")
  BY <1>2 DEF AhciDisksKnown
<1>4. \A k \in UnitsOf(p) : registry[k].unit \in DOMAIN function[p].ports /\ AhciDisk(function[p], registry[k].unit)
  BY DEF AhciDisksKnown
<1> QED BY <1>1, <1>2, <1>3, <1>4 DEF AhciDisksKnown

(* One port changes.                                                        *)
PortChanges(p, u, new) == hw' = [hw EXCEPT ![p] = [@ EXCEPT !.port = [hw[p].port EXCEPT ![u] = new]]]

LEMMA PortChanged ==
  ASSUME PcieInv, NEW p \in Places, p = Here, boot.at \in AhciAt, UNCHANGED function,
         NEW u \in DOMAIN function[p].ports, NEW new \in PortStates(function[p].ports[u]), PortChanges(p, u, new)
  PROVE  /\ AhciTypes(p)' /\ DOMAIN hw' = Places /\ \A q \in Places \ {p} : hw'[q] = hw[q]
         /\ hw'[p].AE = hw[p].AE /\ hw'[p].master = hw[p].master /\ hw'[p].port[u] = new
         /\ DOMAIN hw[p].port = DOMAIN function[p].ports
         /\ \A i \in DOMAIN function[p].ports : i # u => hw'[p].port[i] = hw[p].port[i]
<1> DEFINE d == hw[p]
           ports == DOMAIN function[p].ports
           new2 == [hw[p].port EXCEPT ![u] = new]
<1>1. DOMAIN d.port = ports /\ d = [AE |-> d.AE, master |-> d.master, port |-> d.port] /\ DOMAIN hw = Places
      /\ d.AE \in BOOLEAN /\ d.master \in BOOLEAN /\ \A i \in ports : d.port[i] \in PortStates(function[p].ports[i])
  BY AhciFacts DEF AhciTypes
<1> HIDE DEF PortStates
<1>2. new2[u] = new /\ DOMAIN new2 = ports /\ (\A i \in ports : i # u => new2[i] = d.port[i])
      /\ new2 = [i \in ports |-> new2[i]]
  BY <1>1
<1>3. hw' = [hw EXCEPT ![p] = [d EXCEPT !.port = new2]]
  BY DEF PortChanges
<1> HIDE DEF d, new2
<1>4. /\ hw'[p] = [d EXCEPT !.port = new2] /\ DOMAIN hw' = Places
  BY <1>1, <1>3
<1>5. \A q \in Places \ {p} : hw'[q] = hw[q]
  BY <1>1, <1>3
<1>6. /\ hw'[p] = [AE |-> d.AE, master |-> d.master, port |-> new2]
      /\ hw'[p].AE = d.AE /\ hw'[p].master = d.master /\ hw'[p].port = new2
  BY <1>1, <1>4
<1>7. AhciTypes(p)'
  <2>1. \A i \in ports : new2[i] \in PortStates(function[p].ports[i])
    BY <1>1, <1>2
  <2> QED BY <1>1, <1>2, <1>6, <2>1 DEF AhciTypes
<1> QED BY <1>1, <1>2, <1>4, <1>5, <1>6, <1>7 DEF d

(* The thread goes on with the port at hand, which it may have changed, or  *)
(* to the next one.                                                         *)
LEMMA AhciThreadStep ==
  ASSUME PcieInv, NEW p \in Places, p = Here, boot.at \in AhciAt \ {"general"}, UNCHANGED <<world, lists, driver, free>>,
         NEW at, NEW unit, NEW wait, Thread(p, at, unit, wait),
         AhciTypes(p)', DOMAIN hw' = Places, \A q \in Places \ {p} : hw'[q] = hw[q],
         hw'[p].AE = hw[p].AE, hw'[p].master = hw[p].master,
         \A i \in DOMAIN function[p].ports :
           /\ hw'[p].port[i].CLB = hw[p].port[i].CLB /\ hw'[p].port[i].FB = hw[p].port[i].FB
           /\ hw[p].port[i].reset => hw'[p].port[i].reset
           /\ ~hw'[p].port[i].reset => hw'[p].port[i].sign = function[p].ports[i].sign,
         \/ unit = boot.unit /\ at = boot.at
         \/ unit = boot.unit /\ boot.at \in {"port", "stop", "signature"} /\ at \in {"stop", "signature", "command"}
         \/ unit = boot.unit /\ boot.at = "restart" /\ at = "link"
         \/ /\ unit = boot.unit + 1 /\ boot.at \in {"port", "signature"} /\ at = "port"
            /\ boot.unit \in DOMAIN function[p].ports =>
                 ~AhciDisk(function[p], boot.unit) \/ hw'[p].port[boot.unit].reset,
         at # "port" =>
           /\ boot.unit \in DOMAIN function[p].ports
           /\ function[p].ports[boot.unit].implemented /\ function[p].ports[boot.unit].det = 3
           /\ function[p].ports[boot.unit].ipm = 1
           /\ (at \in {"stop", "signature", "command", "restart"} => ~hw'[p].port[boot.unit].ST)
           /\ (at \in {"signature", "command"} => ~hw'[p].port[boot.unit].CR \/ hw'[p].port[boot.unit].reset)
           /\ (at \in {"command", "restart", "link", "name"} => function[p].ports[boot.unit].sign = "ata")
  PROVE  PcieInv'
<1>1. UNCHANGED <<function, registry, driver, free>>
  BY DEF world, lists
<1>2. /\ function[p].class = "ahci" /\ DOMAIN driver = Places /\ AhciPages(p) /\ AhciQueuesAt(p) /\ AhciStopped(p)
      /\ AhciDisksKnown(p) /\ function[p].ports \in Seq(Ports) /\ boot.unit \in Nat \ {0}
  BY AhciFacts
<1>3. /\ at \in AhciAt \ {"general"} /\ boot'.place = p /\ boot'.at = at /\ boot'.unit = unit /\ unit \in Nat \ {0}
      /\ ~Before(p) /\ ~Before(p)'
  <2>1. at \in AhciAt \ {"general"} /\ boot'.place = p /\ boot'.at = at /\ boot'.unit = unit /\ unit \in Nat \ {0}
    BY DEF Thread, AhciAt
  <2>2. boot.at \notin {"function", "open", "done"} /\ at \notin {"function", "open", "done"}
    BY <2>1 DEF AhciAt
  <2>3. p \in Nat /\ boot.place = p
    BY NumbersPlaces DEF Here
  <2>4. ~Before(p)
    BY ONLY <2>2, <2>3 DEF Before, Here
  <2>5. ~Before(p)'
    BY ONLY <2>1, <2>2, <2>3 DEF Before, Here
  <2> QED BY <2>1, <2>4, <2>5
<1>4. Inside(p)
  BY <1>2, <1>3 DEF Inside, Thread, lists
<1>5. \A n \in Nat : Reached(p, n) => Reached(p, n)'
  BY <1>2, ReachedOn
<1> HIDE DEF Before, Reached
<1>6. AhciPages(p)'
  <2>1. ASSUME NEW i \in Nat,
               /\ In(p, {"port", "stop", "signature", "command"}) => i < boot.unit
        PROVE  boot.at \in {"port", "stop", "signature", "command"} => i < unit
    BY <1>2, <2>1 DEF In
  <2>2. ASSUME NEW name \in Names(p)
        PROVE  \E i \in DOMAIN function[p].ports :
                 /\ name \in {<<"port", i>>, <<"name", i>>}
                 /\ at \in {"port", "stop", "signature", "command"} => i < unit
                 /\ at \in {"restart", "link", "name"} => i < unit \/ name = <<"port", unit>>
    <3>1. PICK i \in DOMAIN function[p].ports :
            /\ name \in {<<"port", i>>, <<"name", i>>}
            /\ In(p, {"port", "stop", "signature", "command"}) => i < boot.unit
            /\ In(p, {"restart", "link", "name"}) => i < boot.unit \/ name = <<"port", boot.unit>>
      BY <1>2 DEF AhciPages
    <3>2. i \in Nat
      BY <1>2
    <3>3. /\ at \in {"port", "stop", "signature", "command"} => i < unit
          /\ at \in {"restart", "link", "name"} => i < unit \/ name = <<"port", unit>>
      BY <1>2, <1>3, <3>1, <3>2 DEF In, AhciAt
    <3> QED BY <3>1, <3>3
  <2>3. /\ UNCHANGED function /\ Names(p)' = Names(p)
        /\ (\A S : In(p, S)' => at \in S) /\ ~In(p, {"general"})' /\ boot'.unit = unit
    BY <1>1, <1>3 DEF Names, In, Here
  <2> HIDE DEF In, Names
  <2>4. ASSUME NEW name \in Names(p)
        PROVE  \E i \in DOMAIN function[p].ports :
                 /\ name \in {<<"port", i>>, <<"name", i>>}
                 /\ In(p, {"port", "stop", "signature", "command"})' => i < boot'.unit
                 /\ In(p, {"restart", "link", "name"})' => i < boot'.unit \/ name = <<"port", boot'.unit>>
    <3>1. /\ In(p, {"port", "stop", "signature", "command"})' => at \in {"port", "stop", "signature", "command"}
          /\ In(p, {"restart", "link", "name"})' => at \in {"restart", "link", "name"}
      BY <2>3
    <3> QED BY ONLY <2>2, <2>3, <3>1, name \in Names(p)
  <2> QED BY ONLY <2>3, <2>4, Zenon DEF AhciPages
<1>7. AhciQueuesAt(p)'
  <2>1. /\ AhciQueuesAt(p) /\ UNCHANGED <<function, driver>> /\ Names(p)' = Names(p)
        /\ hw'[p].AE = hw[p].AE /\ hw'[p].master = hw[p].master
        /\ \A i \in DOMAIN function[p].ports : hw'[p].port[i].CLB = hw[p].port[i].CLB /\ hw'[p].port[i].FB = hw[p].port[i].FB
    BY <1>1, <1>2 DEF Names
  <2> HIDE DEF Names
  <2> QED BY ONLY <2>1 DEF AhciQueuesAt
<1>8. AhciStopped(p)'
  <2>1. hw[p].AE /\ hw[p].master
    BY <1>2 DEF AhciStopped, In
  <2>2. at # "port" => unit = boot.unit
    OBVIOUS
  <2> QED BY <1>1, <1>3, <2>1, <2>2 DEF AhciStopped, In, Here, AhciAt
<1>9. AhciDisksKnown(p)'
  <2>1. ASSUME NEW i \in DOMAIN function[p].ports, AhciDisk(function[p], i), ~hw'[p].port[i].reset,
               i > boot.unit \/ (i = boot.unit /\ boot.at # "name")
        PROVE  i > unit \/ (i = unit /\ at # "name")
    <3>1. i \in Nat
      BY <1>2
    <3>2. CASE unit = boot.unit
      BY <2>1, <3>2
    <3>3. CASE unit = boot.unit + 1
      BY <1>2, <2>1, <3>1, <3>3
    <3> QED BY <3>2, <3>3
  <2> HIDE DEF AhciDisk
  <2> QED BY <1>1, <1>2, <1>3, <2>1, AhciDisksOn
<1> QED BY <1>1, <1>4, <1>5, <1>6, <1>7, <1>8, <1>9, AhciInside

LEMMA ThreadToPort ==
  ASSUME NEW p, boot = [place |-> p, at |-> boot.at, unit |-> boot.unit, wait |-> boot.wait],
         boot' = [boot EXCEPT !.at = "port", !.unit = boot.unit + 1, !.wait = 0]
  PROVE  boot' = [place |-> p, at |-> "port", unit |-> boot.unit + 1, wait |-> 0]
<1> DEFINE was == boot.at
           unit == boot.unit
           wait == boot.wait
           next == boot.unit + 1
<1>1. /\ boot = [place |-> p, at |-> was, unit |-> unit, wait |-> wait]
      /\ boot' = [boot EXCEPT !.at = "port", !.unit = next, !.wait = 0]
  OBVIOUS
<1>2. boot' = [place |-> p, at |-> "port", unit |-> next, wait |-> 0]
  <2> HIDE DEF was, unit, wait, next
  <2> QED BY ONLY <1>1
<1> QED BY <1>2

(* The thread looks at the port, and leaves everything as it is.            *)
LEMMA AhciLooks ==
  ASSUME PcieInv, NEW p \in Places, p = Here, boot.at \in AhciAt \ {"general"}, UNCHANGED <<world, lists, driver, free, hw>>
  PROVE  /\ AhciTypes(p)' /\ DOMAIN hw' = Places /\ (\A q \in Places \ {p} : hw'[q] = hw[q])
         /\ hw'[p].AE = hw[p].AE /\ hw'[p].master = hw[p].master
         /\ \A i \in DOMAIN function[p].ports :
              /\ hw'[p].port[i].CLB = hw[p].port[i].CLB /\ hw'[p].port[i].FB = hw[p].port[i].FB
              /\ hw[p].port[i].reset => hw'[p].port[i].reset
              /\ ~hw'[p].port[i].reset => hw'[p].port[i].sign = function[p].ports[i].sign
<1>1. UNCHANGED function /\ DOMAIN hw = Places /\ AhciTypes(p) /\ AhciStopped(p)
  BY AhciFacts DEF world
<1>2. AhciTypes(p)'
  BY <1>1 DEF AhciTypes
<1> QED BY <1>1, <1>2 DEF AhciStopped

LEMMA SkipPortKeeps ==
  ASSUME PcieInv, NEW p \in Places, p = Here, SkipPort \/ CheckSignature
  PROVE  PcieInv' /\ SwitchesAhci(p)
<1> DEFINE u == boot.unit
<1>1. /\ boot.at \in {"port", "signature"} /\ boot.at \in AhciAt \ {"general"}
      /\ UNCHANGED <<world, lists, driver, free, hw>>
  BY DEF SkipPort, CheckSignature, At, AhciAt
<1>2. /\ function[p].class = "ahci" /\ AhciTypes(p) /\ AhciStopped(p) /\ u \in Nat \ {0} /\ boot.wait \in Nat
      /\ boot = [place |-> p, at |-> boot.at, unit |-> boot.unit, wait |-> boot.wait]
      /\ Device = hw[p] /\ Function = function[p]
  BY <1>1, AhciFacts
<1>3. \/ /\ boot' = [boot EXCEPT !.at = "port", !.unit = boot.unit + 1, !.wait = 0]
         /\ boot.at = "port" => ~Present
         /\ boot.at = "signature" => hw[p].port[u].sign # "ata"
      \/ Go("command") /\ boot.at = "signature" /\ hw[p].port[u].sign = "ata"
  BY <1>1, <1>2 DEF SkipPort, CheckSignature, At, NextPort, Port, PortNumber
<1>4. CASE /\ boot' = [boot EXCEPT !.at = "port", !.unit = boot.unit + 1, !.wait = 0]
           /\ boot.at = "port" => ~Present
           /\ boot.at = "signature" => hw[p].port[u].sign # "ata"
  <2>1. Thread(p, "port", u + 1, 0) /\ "port" \in AhciAt
    <3>1. boot' = [place |-> p, at |-> "port", unit |-> u + 1, wait |-> 0]
      <4>1. /\ boot = [place |-> p, at |-> boot.at, unit |-> boot.unit, wait |-> boot.wait]
            /\ boot' = [boot EXCEPT !.at = "port", !.unit = u + 1, !.wait = 0]
        BY <1>2, <1>4
      <4> QED BY <4>1, ThreadToPort
    <3> QED BY <1>2, <3>1 DEF Thread, AhciAt
  <2>2. u \in DOMAIN function[p].ports => ~AhciDisk(function[p], u) \/ hw[p].port[u].reset
    <3>1. CASE boot.at = "port"
      BY <1>2, <1>4, <3>1 DEF Present, Said, PortNumber, AhciDisk
    <3>2. CASE boot.at = "signature"
      BY <1>2, <1>4, <3>2 DEF AhciStopped, AhciDisk
    <3> QED BY <1>1, <3>1, <3>2
  <2>3. PcieInv'
    <3> HIDE DEF AhciDisk
    <3> QED BY <1>1, <1>2, <2>1, <2>2, AhciLooks, AhciThreadStep
  <2> QED BY <1>1, <1>2, <2>3, SameAhci
<1>5. CASE Go("command") /\ boot.at = "signature" /\ hw[p].port[u].sign = "ata"
  <2>1. Thread(p, "command", u, boot.wait)
    BY <1>2, <1>5 DEF Thread, Go
  <2>2. /\ u \in DOMAIN function[p].ports
        /\ function[p].ports[u].implemented /\ function[p].ports[u].det = 3 /\ function[p].ports[u].ipm = 1
        /\ ~hw[p].port[u].ST /\ (~hw[p].port[u].CR \/ hw[p].port[u].reset)
    BY <1>5, <1>2 DEF AhciStopped, In, AhciAt
  <2>3. function[p].ports[u].sign = "ata"
    BY <1>2, <1>5, <2>2 DEF AhciTypes, PortStates
  <2>4. PcieInv'
    BY <1>1, <1>2, <1>5, <2>1, <2>2, <2>3, AhciLooks, AhciThreadStep
  <2> QED BY <1>1, <1>2, <2>4, SameAhci
<1> QED BY <1>3, <1>4, <1>5

(* The port at hand changes, and keeps its pages.                           *)
PortMoves(p, u, new) ==
  /\ PortChanges(p, u, new) /\ u \in DOMAIN function[p].ports /\ new \in PortStates(function[p].ports[u])
  /\ new.CLB = hw[p].port[u].CLB /\ new.FB = hw[p].port[u].FB
  /\ hw[p].port[u].reset => new.reset
  /\ ~new.reset => new.sign = function[p].ports[u].sign

LEMMA AhciMoves ==
  ASSUME PcieInv, NEW p \in Places, p = Here, boot.at \in AhciAt \ {"general"}, UNCHANGED <<world, lists, driver, free>>,
         NEW new, PortMoves(p, boot.unit, new)
  PROVE  /\ AhciTypes(p)' /\ DOMAIN hw' = Places /\ (\A q \in Places \ {p} : hw'[q] = hw[q])
         /\ hw'[p].AE = hw[p].AE /\ hw'[p].master = hw[p].master /\ hw'[p].port[boot.unit] = new
         /\ \A i \in DOMAIN function[p].ports :
              /\ hw'[p].port[i].CLB = hw[p].port[i].CLB /\ hw'[p].port[i].FB = hw[p].port[i].FB
              /\ hw[p].port[i].reset => hw'[p].port[i].reset
              /\ ~hw'[p].port[i].reset => hw'[p].port[i].sign = function[p].ports[i].sign
         /\ (new.ST => hw[p].port[boot.unit].ST \/ ~hw[p].port[boot.unit].CR) => SwitchesAhci(p)
<1> DEFINE u == boot.unit
<1>1. UNCHANGED function /\ AhciStopped(p) /\ function[p].class = "ahci"
  BY AhciFacts DEF world
<1> HIDE DEF PortStates, PortChanges
<1>2. u \in DOMAIN function[p].ports /\ new \in PortStates(function[p].ports[u]) /\ PortChanges(p, u, new)
  BY DEF PortMoves
<1>3. /\ AhciTypes(p)' /\ DOMAIN hw' = Places /\ (\A q \in Places \ {p} : hw'[q] = hw[q])
      /\ hw'[p].AE = hw[p].AE /\ hw'[p].master = hw[p].master /\ hw'[p].port[u] = new
      /\ DOMAIN hw[p].port = DOMAIN function[p].ports
      /\ \A i \in DOMAIN function[p].ports : i # u => hw'[p].port[i] = hw[p].port[i]
  BY <1>1, <1>2, PortChanged
<1>4. \A i \in DOMAIN function[p].ports :
        /\ hw'[p].port[i].CLB = hw[p].port[i].CLB /\ hw'[p].port[i].FB = hw[p].port[i].FB
        /\ hw[p].port[i].reset => hw'[p].port[i].reset
        /\ ~hw'[p].port[i].reset => hw'[p].port[i].sign = function[p].ports[i].sign
  BY <1>1, <1>3 DEF PortMoves, AhciStopped
<1>5. ASSUME new.ST => hw[p].port[u].ST \/ ~hw[p].port[u].CR PROVE SwitchesAhci(p)
  <2>1. ASSUME NEW i \in DOMAIN hw[p].port
        PROVE  /\ hw'[p].port[i].CLB = hw[p].port[i].CLB
               /\ hw'[p].port[i].ST /\ ~hw[p].port[i].ST => ~hw[p].port[i].CR
    <3>1. CASE i = u
      BY <1>3, <1>4, <1>5, <2>1, <3>1
    <3>2. CASE i # u
      BY <1>3, <2>1, <3>2
    <3> QED BY <3>1, <3>2
  <2> QED BY <1>1, <1>3, <2>1 DEF SwitchesAhci, AhciSwitched
<1> QED BY <1>3, <1>4, <1>5

(* The thread writes the port it is at, and goes on to stop it or to look   *)
(* for its signature.                                                       *)
LEMMA AhciPortStep ==
  ASSUME PcieInv, NEW p \in Places, p = Here, boot.at \in {"port", "stop", "signature"},
         UNCHANGED <<world, lists, driver, free>>, NEW new, PortMoves(p, boot.unit, new),
         NEW at \in {"stop", "signature"}, NEW wait, Thread(p, at, boot.unit, wait),
         boot.unit \in DOMAIN function[p].ports, function[p].ports[boot.unit].implemented,
         function[p].ports[boot.unit].det = 3, function[p].ports[boot.unit].ipm = 1,
         ~new.ST, at = "signature" => ~new.CR \/ new.reset
  PROVE  PcieInv'
<1>1. boot.at \in AhciAt \ {"general"}
  BY DEF AhciAt
<1>2. /\ AhciTypes(p)' /\ DOMAIN hw' = Places /\ (\A q \in Places \ {p} : hw'[q] = hw[q])
      /\ hw'[p].AE = hw[p].AE /\ hw'[p].master = hw[p].master /\ hw'[p].port[boot.unit] = new
      /\ \A i \in DOMAIN function[p].ports :
           /\ hw'[p].port[i].CLB = hw[p].port[i].CLB /\ hw'[p].port[i].FB = hw[p].port[i].FB
           /\ hw[p].port[i].reset => hw'[p].port[i].reset
           /\ ~hw'[p].port[i].reset => hw'[p].port[i].sign = function[p].ports[i].sign
  BY <1>1, AhciMoves
<1>3. /\ boot.at \in {"port", "stop", "signature"} /\ at \in {"stop", "signature", "command"}
      /\ at \in {"stop", "signature", "command", "restart"} => ~hw'[p].port[boot.unit].ST
      /\ at \in {"signature", "command"} => ~hw'[p].port[boot.unit].CR \/ hw'[p].port[boot.unit].reset
      /\ at \notin {"command", "restart", "link", "name"}
  BY <1>2
<1> QED BY <1>1, <1>2, <1>3, AhciThreadStep

LEMMA StopPortKeeps ==
  ASSUME PcieInv, NEW p \in Places, p = Here, StopPort \/ WaitStopped
  PROVE  PcieInv' /\ SwitchesAhci(p)
<1> DEFINE u == boot.unit
           old == hw[p].port[u]
<1>1. /\ boot.at \in {"port", "stop"} /\ boot.at \in AhciAt \ {"general"} /\ UNCHANGED <<world, lists, driver, free>>
  BY DEF StopPort, WaitStopped, At, AhciAt
<1>2. /\ function[p].class = "ahci" /\ AhciTypes(p) /\ AhciStopped(p) /\ u \in Nat \ {0} /\ boot.wait \in Nat
      /\ boot = [place |-> p, at |-> boot.at, unit |-> boot.unit, wait |-> boot.wait]
      /\ Device = hw[p] /\ Function = function[p]
  BY <1>1, AhciFacts
<1>3. /\ u \in DOMAIN function[p].ports
      /\ function[p].ports[u].implemented /\ function[p].ports[u].det = 3 /\ function[p].ports[u].ipm = 1
  <2>1. CASE StopPort
    BY <1>2, <2>1 DEF StopPort, Present, Said, PortNumber
  <2>2. CASE WaitStopped
    BY <1>2, <2>2 DEF WaitStopped, At, AhciStopped, In, AhciAt
  <2> QED BY <2>1, <2>2
<1>4. /\ old = [ST |-> old.ST, CR |-> old.CR, sign |-> old.sign, link |-> old.link, reset |-> old.reset,
                CLB |-> old.CLB, FB |-> old.FB]
      /\ old \in PortStates(function[p].ports[u])
      /\ (~old.reset => old.sign = function[p].ports[u].sign)
      /\ DOMAIN hw[p].port = DOMAIN function[p].ports
  BY <1>2, <1>3 DEF AhciTypes, AhciStopped, PortStates
<1>5. CASE StopPort
  <2> DEFINE new == [old EXCEPT !.ST = FALSE]
  <2>1. PortChanges(p, u, new) /\ Go("stop") /\ boot.at = "port"
    BY <1>5 DEF StopPort, PortChanges, PortNumber, At
  <2>2. /\ new \in PortStates(function[p].ports[u]) /\ new.CLB = old.CLB /\ new.FB = old.FB /\ new.reset = old.reset
        /\ new.sign = old.sign /\ new.ST = FALSE
    BY <1>4 DEF PortStates
  <2> HIDE DEF new
  <2>3. PortMoves(p, u, new)
    BY <1>3, <1>4, <2>1, <2>2 DEF PortMoves
  <2>4. Thread(p, "stop", u, boot.wait)
    BY <1>2, <2>1 DEF Thread, Go
  <2>5. PcieInv'
    BY <1>1, <1>3, <2>1, <2>2, <2>3, <2>4, AhciPortStep
  <2> QED BY <1>1, <2>2, <2>3, <2>5, AhciMoves
<1>6. CASE WaitStopped
  <2>1. boot.at = "stop" /\ ~old.ST
    BY <1>2, <1>6 DEF WaitStopped, At, AhciStopped, In
  <2>2. \/ Go("signature") /\ ~old.CR /\ hw' = hw
        \/ Turn /\ hw' = hw
        \/ /\ Go("signature")
           /\ hw' = [hw EXCEPT ![p].port[u] = [@ EXCEPT !.link = FALSE, !.sign = "none", !.reset = TRUE]]
    BY <1>2, <1>6 DEF WaitStopped, Port, PortNumber
  <2>3. CASE Go("signature") /\ ~old.CR /\ hw' = hw
    <3>1. Thread(p, "signature", u, boot.wait)
      BY <1>2, <2>3 DEF Thread, Go
    <3>2. PcieInv'
      BY <1>1, <1>2, <1>3, <2>1, <2>3, <3>1, AhciLooks, AhciThreadStep
    <3> QED BY <1>1, <1>2, <2>3, <3>2, SameAhci
  <2>4. CASE Turn /\ hw' = hw
    <3>1. Thread(p, "stop", u, boot.wait + 1)
      BY <1>2, <2>1, <2>4 DEF Thread, Turn
    <3>2. PcieInv'
      BY <1>1, <1>2, <1>3, <2>1, <2>4, <3>1, AhciLooks, AhciThreadStep
    <3> QED BY <1>1, <1>2, <2>4, <3>2, SameAhci
  <2>5. CASE /\ Go("signature")
             /\ hw' = [hw EXCEPT ![p].port[u] = [@ EXCEPT !.link = FALSE, !.sign = "none", !.reset = TRUE]]
    <3> DEFINE new == [old EXCEPT !.link = FALSE, !.sign = "none", !.reset = TRUE]
    <3>1. PortChanges(p, u, new)
      BY <2>5 DEF PortChanges
    <3>2. /\ new \in PortStates(function[p].ports[u]) /\ new.CLB = old.CLB /\ new.FB = old.FB /\ new.reset = TRUE
          /\ new.ST = old.ST
      BY <1>4 DEF PortStates
    <3> HIDE DEF new
    <3>3. PortMoves(p, u, new)
      BY <1>3, <1>4, <3>1, <3>2 DEF PortMoves
    <3>4. Thread(p, "signature", u, boot.wait)
      BY <1>2, <2>5 DEF Thread, Go
    <3>5. PcieInv'
      BY <1>1, <1>3, <2>1, <3>2, <3>3, <3>4, AhciPortStep
    <3> QED BY <1>1, <2>1, <3>2, <3>3, <3>5, AhciMoves
  <2> QED BY <2>2, <2>3, <2>4, <2>5
<1> QED BY <1>5, <1>6

LEMMA StartPortKeeps ==
  ASSUME PcieInv, NEW p \in Places, p = Here, StartPort
  PROVE  PcieInv' /\ SwitchesAhci(p)
<1> DEFINE u == boot.unit
           old == hw[p].port[u]
           new == [old EXCEPT !.ST = TRUE]
<1>1. /\ boot.at = "restart" /\ boot.at \in AhciAt \ {"general"} /\ UNCHANGED <<world, lists, driver, free>> /\ Go("link")
  BY DEF StartPort, At, AhciAt
<1>2. /\ function[p].class = "ahci" /\ AhciTypes(p) /\ AhciStopped(p) /\ u \in Nat \ {0} /\ boot.wait \in Nat
      /\ boot = [place |-> p, at |-> boot.at, unit |-> boot.unit, wait |-> boot.wait]
      /\ Device = hw[p] /\ Function = function[p]
  BY <1>1, AhciFacts
<1>3. /\ u \in DOMAIN function[p].ports
      /\ function[p].ports[u].implemented /\ function[p].ports[u].det = 3 /\ function[p].ports[u].ipm = 1
      /\ function[p].ports[u].sign = "ata"
  BY <1>1, <1>2 DEF AhciStopped, In, AhciAt
<1>4. /\ old = [ST |-> old.ST, CR |-> old.CR, sign |-> old.sign, link |-> old.link, reset |-> old.reset,
                CLB |-> old.CLB, FB |-> old.FB]
      /\ old \in PortStates(function[p].ports[u])
      /\ (~old.reset => old.sign = function[p].ports[u].sign)
  BY <1>2, <1>3 DEF AhciTypes, AhciStopped, PortStates
<1>5. PortChanges(p, u, new) /\ ~old.CR
  BY <1>2 DEF StartPort, PortChanges, PortNumber, Port
<1>6. /\ new \in PortStates(function[p].ports[u]) /\ new.CLB = old.CLB /\ new.FB = old.FB /\ new.reset = old.reset
      /\ new.sign = old.sign
  BY <1>4 DEF PortStates
<1> HIDE DEF new
<1>7. PortMoves(p, u, new)
  BY <1>3, <1>4, <1>5, <1>6 DEF PortMoves
<1>8. Thread(p, "link", u, boot.wait)
  BY <1>1, <1>2 DEF Thread, Go
<1>9. PcieInv'
  BY <1>1, <1>2, <1>3, <1>7, <1>8, AhciMoves, AhciThreadStep
<1> QED BY <1>1, <1>5, <1>7, <1>9, AhciMoves

LEMMA EnableAhciKeeps ==
  ASSUME PcieInv, NEW p \in Places, p = Here, EnableAhci
  PROVE  PcieInv' /\ SwitchesAhci(p)
<1> DEFINE d == hw[p]
           device == [d EXCEPT !.master = TRUE, !.AE = TRUE]
<1>1. /\ boot.at = "general" /\ boot.at \in AhciAt /\ UNCHANGED <<world, lists, driver, free>> /\ Go("port")
      /\ hw' = [hw EXCEPT ![p] = device]
  BY DEF EnableAhci, At, AhciAt
<1>2. UNCHANGED <<function, driver, registry, free>>
  BY <1>1 DEF world, lists
<1>3. /\ function[p].class = "ahci" /\ AhciTypes(p) /\ AhciStopped(p) /\ AhciPages(p) /\ boot.unit = 1 /\ boot.wait \in Nat
      /\ boot = [place |-> p, at |-> boot.at, unit |-> boot.unit, wait |-> boot.wait]
      /\ DOMAIN hw = Places /\ DOMAIN driver = Places /\ AhciDisksKnown(p)
  BY <1>1, AhciFacts
<1>4. Names(p) = {}
  BY <1>1, <1>3 DEF AhciPages, In
<1>5. d = [AE |-> d.AE, master |-> d.master, port |-> d.port]
  BY <1>3 DEF AhciTypes
<1>6. device = [AE |-> TRUE, master |-> TRUE, port |-> d.port]
  <2> DEFINE old == d
             enabled == old.AE
             master == old.master
             ports == old.port
             next == device
  <2>1. old = [AE |-> enabled, master |-> master, port |-> ports]
    BY <1>5
  <2>2. next = [old EXCEPT !.master = TRUE, !.AE = TRUE]
    OBVIOUS
  <2> HIDE DEF old, enabled, master, ports, next
  <2>3. next = [AE |-> TRUE, master |-> TRUE, port |-> ports]
    BY ONLY <2>1, <2>2
  <2> QED BY <2>3 DEF next, ports, old
<1>7. hw'[p] = device /\ DOMAIN hw' = Places /\ \A q \in Places \ {p} : hw'[q] = hw[q]
  <2> HIDE DEF device
  <2> QED BY <1>1, <1>3
<1> HIDE DEF device
<1>8. hw'[p].AE = TRUE /\ hw'[p].master = TRUE /\ hw'[p].port = hw[p].port
  BY <1>6, <1>7
<1>9. AhciTypes(p)'
  BY <1>2, <1>3, <1>6, <1>7, <1>8 DEF AhciTypes
<1>10. Thread(p, "port", 1, boot.wait)
  BY <1>1, <1>3 DEF Thread, Go
<1>11. Inside(p)
  BY <1>1, <1>2, <1>3, <1>7, <1>10 DEF Inside, Thread, lists, AhciAt
<1>12. /\ boot'.place = p /\ boot'.at = "port" /\ boot'.unit = 1 /\ ~Before(p)
  BY <1>1, <1>10, NumbersPlaces DEF Thread, Before, Here
<1>13. AhciPages(p)' /\ AhciQueuesAt(p)' /\ AhciStopped(p)'
  BY <1>2, <1>3, <1>4, <1>8, <1>12 DEF AhciPages, AhciQueuesAt, AhciStopped, In, Here, Names
<1>14. AhciDisksKnown(p)'
  <2>1. \A i \in DOMAIN function[p].ports : i > 1 \/ i = 1
    BY <1>1, AhciFacts
  <2> HIDE DEF AhciDisk, Listed, Before
  <2> QED BY <1>1, <1>2, <1>3, <1>8, <1>12, <2>1, AhciDisksOn DEF AhciAt
<1>15. \A n \in Nat : Reached(p, n) => Reached(p, n)'
  BY <1>1, <1>3, <1>10, ReachedOn
<1>16. PcieInv'
  <2> HIDE DEF Reached
  <2> QED BY <1>1, <1>2, <1>9, <1>11, <1>13, <1>14, <1>15, AhciInside
<1> QED BY <1>3, <1>7, <1>8, <1>16 DEF SwitchesAhci, AhciSwitched

(* A port gets the page of its command list.                                *)
LEMMA GiveCommandPageKeeps ==
  ASSUME PcieInv, NEW p \in Places, p = Here, GiveCommandPage
  PROVE  PcieInv' /\ SwitchesAhci(p)
<1> DEFINE u == boot.unit
           old == hw[p].port[u]
           name == <<"port", u>>
           page == Page(1)
           was == driver[p]
           base == was.base
           wasPage == was.page
           data == was.data
           count == was.count
           pages == [other \in Names(p) \cup {name} |-> IF other = name THEN page ELSE wasPage[other]]
           new == [old EXCEPT !.CLB = page, !.FB = <<page, FisOffset>>]
<1>1. /\ boot.at = "command" /\ boot.at \in AhciAt \ {"general"} /\ UNCHANGED <<world, lists>> /\ Go("restart")
      /\ Enough(1) /\ free' = free \ {page}
  BY DEF GiveCommandPage, At, AhciAt, CommandPage
<1>2. UNCHANGED <<function, registry, owned, chain>>
  BY <1>1 DEF world, lists
<1>3. /\ function[p].class = "ahci" /\ AhciTypes(p) /\ AhciStopped(p) /\ AhciPages(p) /\ AhciQueuesAt(p)
      /\ u \in Nat \ {0} /\ boot.wait \in Nat
      /\ boot = [place |-> p, at |-> boot.at, unit |-> boot.unit, wait |-> boot.wait]
      /\ DOMAIN hw = Places /\ DOMAIN driver = Places /\ AhciDisksKnown(p) /\ RecordTyped(p)
      /\ function[p].ports \in Seq(Ports)
  BY <1>1, AhciFacts
<1>4. /\ u \in DOMAIN function[p].ports
      /\ function[p].ports[u].implemented /\ function[p].ports[u].det = 3 /\ function[p].ports[u].ipm = 1
      /\ function[p].ports[u].sign = "ata" /\ ~old.ST /\ (~old.CR \/ old.reset) /\ hw[p].AE /\ hw[p].master
  BY <1>1, <1>3 DEF AhciStopped, In, AhciAt
<1>5. /\ old = [ST |-> old.ST, CR |-> old.CR, sign |-> old.sign, link |-> old.link, reset |-> old.reset,
                CLB |-> old.CLB, FB |-> old.FB]
      /\ old \in PortStates(function[p].ports[u])
      /\ DOMAIN hw[p].port = DOMAIN function[p].ports
  BY <1>3, <1>4 DEF AhciTypes, PortStates
<1>6. page \in Nat
  <2>1. FreePages /\ free \subseteq owned /\ owned \subseteq Nat
    BY PagesFree DEF PcieInv
  <2>2. \A i \in 1 .. 1 : Page(i) \in free
    BY <1>1, <2>1, PagesGivenOut
  <2>3. 1 \in 1 .. 1
    OBVIOUS
  <2> HIDE DEF Page
  <2>4. Page(1) \in free
    BY <2>2, <2>3, Zenon
  <2> QED BY <2>1, <2>4
<1>7. name \notin Names(p) /\ \A other \in Names(p) : \E i \in DOMAIN function[p].ports :
                                  other \in {<<"port", i>>, <<"name", i>>} /\ i < u
  <2>1. \A other \in Names(p) : \E i \in DOMAIN function[p].ports :
                                  other \in {<<"port", i>>, <<"name", i>>} /\ i < u
    BY <1>1, <1>3 DEF AhciPages, In
  <2> QED BY <1>3, <2>1
<1>8. driver' = [driver EXCEPT ![p].page = pages]
  BY <1>3 DEF GiveCommandPage, CommandPage, PortNumber, Names
<1>9. was = [base |-> base, page |-> wasPage, data |-> data, count |-> count]
  BY <1>3 DEF RecordTyped
<1>10. driver'[p] = [was EXCEPT !.page = pages] /\ DOMAIN driver' = Places
       /\ \A q \in Places \ {p} : driver'[q] = driver[q]
  <2> HIDE DEF pages
  <2> QED BY <1>3, <1>8
<1>11. driver'[p] = [base |-> base, page |-> pages, data |-> data, count |-> count]
  <2> HIDE DEF was, base, wasPage, data, count, pages
  <2> QED BY ONLY <1>9, <1>10
<1>12. /\ driver'[p].page = pages
       /\ driver'[p] = [base |-> driver[p].base, page |-> driver'[p].page, data |-> driver'[p].data, count |-> driver'[p].count]
  <2> HIDE DEF pages
  <2> QED BY <1>11
<1>13. /\ Names(p)' = Names(p) \cup {name} /\ pages[name] = page /\ \A other \in Names(p) : pages[other] = driver[p].page[other]
       /\ driver'[p].page = [other \in Names(p)' |-> driver'[p].page[other]]
  BY <1>7, <1>12 DEF Names
<1>14. PortChanges(p, u, new)
  BY DEF GiveCommandPage, PortChanges, PortNumber, CommandPage
<1>15. /\ new \in PortStates(function[p].ports[u]) /\ new.CLB = page /\ new.FB = <<page, FisOffset>> /\ new.reset = old.reset
       /\ new.sign = old.sign /\ new.ST = old.ST /\ new.CR = old.CR
  <2> DEFINE st == old.ST
             cr == old.CR
             sign == old.sign
             link == old.link
             reset == old.reset
             command == old.CLB
             answer == old.FB
             fis == <<page, FisOffset>>
  <2>1. old = [ST |-> st, CR |-> cr, sign |-> sign, link |-> link, reset |-> reset, CLB |-> command, FB |-> answer]
    BY <1>5
  <2>2. /\ st \in BOOLEAN /\ cr \in BOOLEAN /\ sign \in {function[p].ports[u].sign, "none"} /\ link \in BOOLEAN
        /\ reset \in BOOLEAN
    BY <1>5 DEF PortStates
  <2>3. fis \in Nat \X Nat
    <3> HIDE DEF page
    <3> QED BY <1>6 DEF FisOffset
  <2>4. new = [old EXCEPT !.CLB = page, !.FB = fis]
    OBVIOUS
  <2> HIDE DEF page, fis, old, new, st, cr, sign, link, reset, command, answer
  <2>5. new = [ST |-> st, CR |-> cr, sign |-> sign, link |-> link, reset |-> reset, CLB |-> page, FB |-> fis]
    BY ONLY <2>1, <2>4
  <2>6. new \in PortStates(function[p].ports[u])
    BY <1>6, <2>2, <2>3, <2>5 DEF PortStates
  <2>7. /\ new.CLB = page /\ new.FB = fis /\ new.reset = reset /\ new.sign = sign /\ new.ST = st /\ new.CR = cr
    BY <2>5
  <2> QED BY <2>6, <2>7 DEF st, cr, sign, reset, fis
<1> HIDE DEF new, PortStates, PortChanges
<1>16. /\ AhciTypes(p)' /\ DOMAIN hw' = Places /\ (\A q \in Places \ {p} : hw'[q] = hw[q])
       /\ hw'[p].AE = hw[p].AE /\ hw'[p].master = hw[p].master /\ hw'[p].port[u] = new
       /\ \A i \in DOMAIN function[p].ports : i # u => hw'[p].port[i] = hw[p].port[i]
  <2>1. boot.at \in AhciAt /\ UNCHANGED function /\ u \in DOMAIN function[p].ports
        /\ new \in PortStates(function[p].ports[u])
    BY <1>1, <1>2, <1>4, <1>15
  <2> HIDE DEF u
  <2> QED BY <1>14, <2>1, PortChanged
<1>17. Thread(p, "restart", u, boot.wait)
  BY <1>1, <1>3 DEF Thread, Go
<1>18. Inside(p)
  BY <1>1, <1>2, <1>3, <1>10, <1>16, <1>17 DEF Inside, Thread, AhciAt
<1>19. boot'.place = p /\ boot'.at = "restart" /\ boot'.unit = u /\ ~Before(p)
  BY <1>1, <1>17, NumbersPlaces DEF Thread, Before, Here
<1> HIDE DEF pages, page, Before, Reached
<1>20. PagesApart' /\ \A other \in Names(p)' : driver'[p].page[other] \in Nat
  <2> DEFINE names == <<name>>
             n == 1
             lowest == [i \in 1 .. n |-> Page(i)]
  <2>1. /\ DOMAIN names = 1 .. n /\ n \in Nat \ {0}
        /\ \A i, j \in 1 .. n : names[i] = names[j] => i = j
        /\ \A i \in 1 .. n : names[i] = name /\ Page(i) = page /\ lowest[i] = page
        /\ {names[i] : i \in 1 .. n} = {name} /\ {Page(i) : i \in 1 .. n} = {page}
    BY DEF page
  <2>2. Allocate(n) /\ Enough(n)
    BY <1>1, <2>1 DEF Allocate
  <2>3. Taken(lowest, n)
    BY <2>1, <2>2, LowestTaken
  <2> HIDE DEF names, name, n, lowest
  <2>4. /\ \A i \in 1 .. n : names[i] \notin Names(p)
        /\ Names(p)' = Names(p) \cup {names[i] : i \in 1 .. n}
        /\ \A i \in 1 .. n : driver'[p].page[names[i]] = lowest[i]
        /\ \A other \in Names(p) : driver'[p].page[other] = driver[p].page[other]
    BY <1>7, <1>12, <1>13, <2>1
  <2> QED BY <1>18, <2>1, <2>3, <2>4, GainsPages DEF NewNames, Named, Distinct
<1>21. AhciPages(p)'
  <2>1. \A other \in Names(p)' : \E i \in DOMAIN function[p].ports :
           other \in {<<"port", i>>, <<"name", i>>} /\ (i < u \/ other = <<"port", u>>)
    BY <1>4, <1>7, <1>13
  <2> QED BY <1>2, <1>19, <2>1 DEF AhciPages, Names, In, Here
<1>22. AhciQueuesAt(p)'
  <2>1. ASSUME NEW i \in DOMAIN function[p].ports, <<"port", i>> \in Names(p)'
        PROVE  /\ hw'[p].port[i].CLB = driver'[p].page[<<"port", i>>]
               /\ hw'[p].port[i].FB = <<hw'[p].port[i].CLB, FisOffset>>
               /\ hw'[p].AE /\ hw'[p].master
    <3>1. CASE i = u
      BY <1>4, <1>12, <1>13, <1>15, <1>16, <3>1
    <3>2. CASE i # u
      <4>1. <<"port", i>> # <<"port", u>>
        BY <3>2
      <4>2. <<"port", i>> \in Names(p)
        BY <1>13, <2>1, <4>1
      <4>3. /\ hw[p].port[i].CLB = driver[p].page[<<"port", i>>]
            /\ hw[p].port[i].FB = <<hw[p].port[i].CLB, FisOffset>>
        BY <1>3, <4>2 DEF AhciQueuesAt
      <4>4. driver'[p].page[<<"port", i>>] = driver[p].page[<<"port", i>>]
        BY <1>12, <1>13, <4>2
      <4> QED BY <1>4, <1>16, <3>2, <4>3, <4>4
    <3> QED BY <3>1, <3>2
  <2> QED BY <1>2, <2>1 DEF AhciQueuesAt, Names
<1>23. \A i \in DOMAIN function[p].ports :
         /\ hw'[p].port[i].reset = hw[p].port[i].reset /\ hw'[p].port[i].sign = hw[p].port[i].sign
         /\ hw'[p].port[i].ST = hw[p].port[i].ST
  BY <1>15, <1>16
<1>24. AhciStopped(p)'
  <2>1. /\ UNCHANGED function /\ boot'.place = p /\ boot'.at = "restart" /\ boot'.unit = boot.unit
        /\ hw'[p].AE /\ hw'[p].master /\ ~hw'[p].port[boot.unit].ST
    BY <1>2, <1>4, <1>16, <1>19, <1>23
  <2>2. \A i \in DOMAIN function[p].ports : ~hw'[p].port[i].reset => hw'[p].port[i].sign = function[p].ports[i].sign
    BY <1>3, <1>23 DEF AhciStopped
  <2>3. /\ boot.unit \in DOMAIN function[p].ports
        /\ function[p].ports[boot.unit].implemented /\ function[p].ports[boot.unit].det = 3
        /\ function[p].ports[boot.unit].ipm = 1 /\ function[p].ports[boot.unit].sign = "ata"
    BY <1>4
  <2> QED BY ONLY <2>1, <2>2, <2>3 DEF AhciStopped, In, Here
<1>25. AhciDisksKnown(p)'
  <2>1. ASSUME NEW i \in DOMAIN function[p].ports, AhciDisk(function[p], i), ~hw'[p].port[i].reset,
               boot.at = "general" \/ i > boot.unit \/ (i = boot.unit /\ boot.at # "name")
        PROVE  i > boot'.unit \/ (i = boot'.unit /\ boot'.at # "name")
    BY <1>1, <1>19, <2>1
  <2> HIDE DEF AhciDisk, Listed
  <2> QED BY <1>1, <1>2, <1>3, <1>19, <1>23, <2>1, AhciDisksOn DEF AhciAt
<1>26. \A n \in Nat : Reached(p, n) => Reached(p, n)'
  BY <1>1, <1>3, <1>17, ReachedOn
<1>27. PcieInv'
  BY <1>1, <1>2, <1>12, <1>13, <1>16, <1>18, <1>20, <1>21, <1>22, <1>24, <1>25, <1>26, AhciInside
<1>28. AhciSwitched(hw[p], hw'[p])
  <2>1. ASSUME NEW i \in DOMAIN hw[p].port
        PROVE  /\ hw'[p].port[i].CLB # hw[p].port[i].CLB => ~hw[p].port[i].CR \/ hw[p].port[i].reset
               /\ hw'[p].port[i].ST /\ ~hw[p].port[i].ST => ~hw[p].port[i].CR
    <3>1. CASE i = u
      BY <1>4, <1>5, <1>23, <3>1
    <3>2. CASE i # u
      BY <1>5, <1>16, <2>1, <3>2
    <3> QED BY <3>1, <3>2
  <2> QED BY <2>1 DEF AhciSwitched
<1> QED BY <1>3, <1>16, <1>27, <1>28 DEF SwitchesAhci

LEMMA AddDiskKeeps ==
  ASSUME PcieInv, NEW p \in Places, p = Here, AddDisk
  PROVE  PcieInv' /\ SwitchesAhci(p)
<1> DEFINE u == boot.unit
           f == function[p]
           d == [place |-> p, unit |-> u, capacity |-> 0]
<1>1. /\ boot.at = "link" /\ boot.at \in AhciAt \ {"general"} /\ UNCHANGED <<world, chain, hw, driver, free>> /\ Go("name")
      /\ registry' = <<d>> \o registry
  BY DEF AddDisk, At, AhciAt, StorageInsert, PortNumber
<1>2. UNCHANGED <<function, driver, hw, free>>
  BY <1>1 DEF world
<1>3. /\ f.class = "ahci" /\ AhciTypes(p) /\ AhciStopped(p) /\ AhciPages(p) /\ AhciQueuesAt(p)
      /\ u \in Nat \ {0} /\ boot.wait \in Nat
      /\ boot = [place |-> p, at |-> boot.at, unit |-> boot.unit, wait |-> boot.wait]
      /\ DOMAIN hw = Places /\ DOMAIN driver = Places /\ AhciDisksKnown(p) /\ BootTypes
  BY <1>1, AhciFacts DEF PcieInv
<1>4. /\ u \in DOMAIN f.ports /\ AhciDisk(f, u) /\ hw[p].AE /\ hw[p].master
      /\ f.ports[u].implemented /\ f.ports[u].det = 3 /\ f.ports[u].ipm = 1 /\ f.ports[u].sign = "ata"
  BY <1>1, <1>3 DEF AhciStopped, In, AhciAt, AhciDisk
<1>5. d \in Disk /\ d.place = p /\ d.unit = u
  BY <1>3 DEF Disk
<1>6. Thread(p, "name", u, boot.wait)
  BY <1>1, <1>3 DEF Thread, Go
<1>7. boot'.place = p /\ boot'.at = "name" /\ boot'.unit = u /\ ~Before(p) /\ ~Before(p)'
  BY <1>1, <1>6, NumbersPlaces DEF Thread, Before, Here
<1> HIDE DEF d, Before, AhciDisk, Listed, UnitsOf
<1>8. Inside(p)
  BY <1>1, <1>3, <1>5, <1>6 DEF Inside, Thread, AhciAt
<1>9. AhciTypes(p)' /\ AhciPages(p)' /\ AhciQueuesAt(p)' /\ AhciStopped(p)'
  <2>1. AhciTypes(p)'
    BY <1>2, <1>3 DEF AhciTypes
  <2>2. AhciPages(p)'
    BY <1>1, <1>2, <1>3, <1>7 DEF AhciPages, In, Here, Names
  <2>3. AhciQueuesAt(p)'
    BY <1>2, <1>3 DEF AhciQueuesAt, Names
  <2>4. AhciStopped(p)'
    BY <1>2, <1>3, <1>4, <1>7 DEF AhciStopped, In, Here
  <2> QED BY <2>1, <2>2, <2>3, <2>4
<1>10. /\ \A n \in Nat : Reached(p, n) => n # u /\ Reached(p, n)'
       /\ Reached(p, u)'
  BY <1>1, <1>3, <1>7 DEF Reached, In, Here
<1> HIDE DEF Reached
<1>11. \A q \in Places \ {p} : LeftAlone(q)
  BY <1>3, <1>8, InsideSteps, LeavesOthers
<1>12. /\ RegistryKnown' /\ Listed(p, u)' /\ (\A n : Listed(p, n) => Listed(p, n)')
       /\ \A k \in UnitsOf(p)' : registry'[k] = d \/ \E l \in UnitsOf(p) : registry'[k] = registry[l]
  BY <1>1, <1>2, <1>3, <1>5, <1>7, <1>10, <1>11, DiskAdded
<1>13. AhciDisksKnown(p)'
  <2>1. /\ \A k \in UnitsOf(p) : registry[k].unit \in DOMAIN f.ports /\ AhciDisk(f, registry[k].unit)
        /\ \A i \in DOMAIN f.ports :
             AhciDisk(f, i) /\ ~hw[p].port[i].reset => Listed(p, i) \/ i > u \/ i = u
    BY <1>1, <1>3, <1>7 DEF AhciDisksKnown, In, AhciAt
  <2>2. ASSUME NEW k \in UnitsOf(p)' PROVE registry'[k].unit \in DOMAIN f.ports /\ AhciDisk(f, registry'[k].unit)
    <3>1. CASE registry'[k] = d
      BY <1>4, <1>5, <3>1
    <3>2. CASE \E l \in UnitsOf(p) : registry'[k] = registry[l]
      BY <2>1, <3>2
    <3> QED BY <1>12, <3>1, <3>2
  <2>3. ASSUME NEW i \in DOMAIN f.ports, AhciDisk(f, i), ~hw[p].port[i].reset PROVE Listed(p, i)' \/ i > u
    <3>1. CASE i = u
      BY <1>7, <1>12, <3>1
    <3>2. CASE i # u
      BY <1>12, <2>1, <2>3, <3>2
    <3> QED BY <3>1, <3>2
  <2>4. In(p, AhciAt)'
    BY <1>7 DEF In, Here, AhciAt
  <2> QED BY <1>1, <1>2, <1>3, <1>7, <2>2, <2>3, <2>4 DEF AhciDisksKnown
<1>14. PcieInv'
  BY <1>1, <1>2, <1>8, <1>9, <1>12, <1>13, AhciInside DEF AhciAt
<1> QED BY <1>2, <1>3, <1>14, SameAhci

LEMMA AskNameKeeps ==
  ASSUME PcieInv, NEW p \in Places, p = Here, AskName
  PROVE  PcieInv' /\ SwitchesAhci(p)
<1> DEFINE u == boot.unit
           f == function[p]
           name == <<"name", u>>
           names == <<name>>
           n == 1
<1>1. /\ boot.at = "name" /\ boot.at \in AhciAt \ {"general"} /\ UNCHANGED <<world, lists, hw>> /\ NextPort
  BY DEF AskName, At, AhciAt
<1>2. UNCHANGED <<function, hw, registry, chain>>
  BY <1>1 DEF world, lists
<1>3. /\ f.class = "ahci" /\ AhciTypes(p) /\ AhciStopped(p) /\ AhciPages(p) /\ AhciQueuesAt(p)
      /\ u \in Nat \ {0} /\ boot.wait \in Nat
      /\ boot = [place |-> p, at |-> boot.at, unit |-> boot.unit, wait |-> boot.wait]
      /\ DOMAIN hw = Places /\ DOMAIN driver = Places /\ AhciDisksKnown(p) /\ f.ports \in Seq(Ports)
  BY <1>1, AhciFacts
<1>4. u \in DOMAIN f.ports /\ hw[p].AE /\ hw[p].master
  BY <1>1, <1>3 DEF AhciStopped, In, AhciAt
<1>5. PICK named \in BOOLEAN :
        driver' = [driver EXCEPT ![p] = [Supplied(names) EXCEPT !.count = IF named THEN @ + 1 ELSE @]]
  BY DEF AskName, PortNumber
<1> DEFINE count == IF named THEN Supplied(names).count + 1 ELSE Supplied(names).count
<1>6. driver' = [driver EXCEPT ![p] = [Supplied(names) EXCEPT !.count = count]]
  BY <1>5
<1>7. /\ DOMAIN names = 1 .. n /\ n \in Nat \ {0}
      /\ \A i, j \in 1 .. n : names[i] = names[j] => i = j
      /\ \A i \in 1 .. n : names[i] = name
      /\ {names[i] : i \in 1 .. n} = {name}
  OBVIOUS
<1>8. Enough(n) /\ Allocate(n)
  BY DEF AskName
<1>9. /\ DOMAIN driver' = Places /\ \A q \in Places \ {p} : driver'[q] = driver[q]
  BY <1>3, <1>6
<1>10. RecordGiven(p, names, driver[p].data, count)
  BY <1>6 DEF RecordGiven, RecordMade
<1>11. Thread(p, "port", u + 1, 0)
  <2>1. boot = [place |-> p, at |-> boot.at, unit |-> boot.unit, wait |-> boot.wait]
        /\ boot' = [boot EXCEPT !.at = "port", !.unit = u + 1, !.wait = 0]
    BY <1>1, <1>3 DEF NextPort
  <2>2. boot' = [place |-> p, at |-> "port", unit |-> u + 1, wait |-> 0]
    BY <2>1, ThreadToPort
  <2> QED BY <1>3, <2>2 DEF Thread
<1>12. Inside(p)
  BY <1>1, <1>2, <1>3, <1>9, <1>11 DEF Inside, Thread, AhciAt
<1>13. /\ boot'.place = p /\ boot'.at = "port" /\ boot'.unit = u + 1 /\ ~Before(p) /\ ~Before(p)'
  BY <1>1, <1>11, NumbersPlaces DEF Thread, Before, Here
<1>14. \A other \in Names(p) : \E i \in DOMAIN f.ports :
         other \in {<<"port", i>>, <<"name", i>>} /\ (i < u \/ other = <<"port", u>>)
  BY <1>1, <1>3 DEF AhciPages, In
<1>15. name \notin Names(p)
  BY <1>3, <1>14
<1> HIDE DEF names, n, count, Before, Reached, AhciDisk, Listed, RecordGiven, RecordMade
<1>16. GotRecord(p, names, n, driver[p].data, count)
  <2> HIDE DEF name
  <2>1. \A i \in 1 .. n : names[i] \notin Names(p)
    BY <1>7, <1>15
  <2> QED BY <1>7, <1>8, <1>10, <1>12, <2>1, InsideGiven
<1>17. Names(p)' = Names(p) \cup {name} /\ \A other \in Names(p) : driver'[p].page[other] = driver[p].page[other]
  BY <1>7, <1>16 DEF GotRecord, Gained
<1>18. AhciPages(p)'
  <2>1. \A other \in Names(p)' : \E i \in DOMAIN f.ports : other \in {<<"port", i>>, <<"name", i>>} /\ i < u + 1
    <3> SUFFICES ASSUME NEW other \in Names(p)'
                 PROVE  \E i \in DOMAIN f.ports : other \in {<<"port", i>>, <<"name", i>>} /\ i < u + 1
      OBVIOUS
    <3>1. CASE other = name
      BY <1>3, <1>4, <3>1
    <3>2. CASE other \in Names(p)
      <4>1. PICK i \in DOMAIN f.ports : other \in {<<"port", i>>, <<"name", i>>} /\ (i < u \/ other = <<"port", u>>)
        BY <1>14, <3>2
      <4>2. CASE i < u
        BY <1>3, <4>1, <4>2
      <4>3. CASE other = <<"port", u>>
        BY <1>3, <1>4, <4>3
      <4> QED BY <4>1, <4>2, <4>3
    <3> QED BY <1>17, <3>1, <3>2
  <2> QED BY <1>2, <1>13, <2>1 DEF AhciPages, Names, In, Here
<1>19. AhciQueuesAt(p)'
  <2>1. \A i \in DOMAIN f.ports : <<"port", i>> \in Names(p)' => <<"port", i>> \in Names(p)
    BY <1>17
  <2> QED BY <1>2, <1>3, <1>17, <2>1 DEF AhciQueuesAt, Names
<1>20. AhciTypes(p)' /\ AhciStopped(p)'
  BY <1>2, <1>3, <1>4, <1>13 DEF AhciTypes, AhciStopped, In, Here
<1>21. AhciDisksKnown(p)'
  <2>1. ASSUME NEW i \in DOMAIN f.ports, i > u PROVE i > u + 1 \/ i = u + 1
    BY <1>3, <2>1
  <2> QED BY <1>1, <1>2, <1>3, <1>13, <2>1, AhciDisksOn DEF AhciAt
<1>22. \A m \in Nat : Reached(p, m) => Reached(p, m)'
  BY <1>1, <1>3, <1>11, ReachedOn
<1>23. PcieInv'
  BY <1>1, <1>2, <1>12, <1>16, <1>18, <1>19, <1>20, <1>21, <1>22, AhciInside DEF GotRecord, Gained
<1> QED BY <1>2, <1>3, <1>23, SameAhci

LEMMA AhciDoneKeeps ==
  ASSUME PcieInv, NEW p \in Places, p = Here, AhciDone
  PROVE  PcieInv' /\ SwitchesAhci(p)
<1>1. /\ boot.at = "port" /\ boot.at \in AhciAt /\ UNCHANGED <<world, lists, hw, driver, free>> /\ Leaves
  BY DEF AhciDone, At, AhciAt, Return, Leaves
<1>2. /\ function[p].class = "ahci" /\ AhciPages(p) /\ AhciDisksKnown(p) /\ function[p].ports \in Seq(Ports)
      /\ boot.unit \in Nat \ {0} /\ Function = function[p]
  BY <1>1, AhciFacts
<1>3. boot.unit \notin DOMAIN function[p].ports
  BY <1>2 DEF AhciDone, PortNumber
<1>4. \A i \in DOMAIN function[p].ports : i < boot.unit
  BY <1>2, <1>3
<1>5. The("identify") \notin Names(p)
  BY <1>2 DEF AhciPages, The
<1>6. ~Before(p) /\ ~In(p, {"general", "panic"})
  BY <1>1, NumbersPlaces DEF Before, In, Here
<1>7. \A i \in DOMAIN function[p].ports : AhciDisk(function[p], i) /\ ~hw[p].port[i].reset => Listed(p, i)
  <2>1. \A i \in DOMAIN function[p].ports : ~(i > boot.unit) /\ i # boot.unit
    BY <1>2, <1>4
  <2> HIDE DEF AhciDisk, Listed, Before
  <2> QED BY <1>2, <1>6, <2>1 DEF AhciDisksKnown
<1>8. PcieInv'
  <2> HIDE DEF AhciDisk, Listed
  <2> QED BY <1>1, <1>2, <1>5, <1>7, QuietKeeps
<1> QED BY <1>1, <1>2, <1>8, SameAhci

(* Every step of the set-up of an AHCI controller.                          *)
LEMMA AhciStepsKeep ==
  ASSUME PcieInv, NEW p \in Places, p = Here,
         \/ EnableAhci \/ SkipPort \/ StopPort \/ WaitStopped \/ CheckSignature
         \/ GiveCommandPage \/ StartPort \/ AddDisk \/ AskName \/ AhciDone
  PROVE  PcieInv' /\ SwitchesAhci(p)
<1> HIDE DEF PcieInv
<1> QED BY EnableAhciKeeps, SkipPortKeeps, StopPortKeeps, GiveCommandPageKeeps, StartPortKeeps, AddDiskKeeps,
           AskNameKeeps, AhciDoneKeeps

-----------------------------------------------------------------------------
(* The set-up of an xHC.  The names of its pages differ.                    *)
LEMMA JoinedSequences ==
  ASSUME NEW T, NEW s \in Seq(T), NEW t \in Seq(T)
  PROVE  /\ s \o t \in Seq(T) /\ Len(s \o t) = Len(s) + Len(t)
         /\ \A i \in 1 .. Len(s) + Len(t) : (s \o t)[i] = IF i <= Len(s) THEN s[i] ELSE t[i - Len(s)]
OBVIOUS

PageNames == {The("context"), The("command"), The("event")}
             \cup {<<"array", i>> : i \in Nat} \cup {<<"scratch", i>> : i \in Nat}

LEMMA ArrayCounted ==
  ASSUME NEW f, f.capability.scratchpads \in Nat
  PROVE  ArrayPages(f) \in Nat
<1> DEFINE n == f.capability.scratchpads + Pointers - 1
<1>1. n \in Nat /\ Pointers \in Nat /\ Pointers > 0
  BY PointersAssumption
<1> HIDE DEF n
<1>2. n \div Pointers \in Nat
  BY <1>1
<1> QED BY <1>2 DEF ArrayPages, n

LEMMA NumberedNames ==
  ASSUME NEW name, NEW k \in Nat, \A i \in Nat : <<name, i>> \in PageNames
  PROVE  LET g == [i \in 1 .. k |-> <<name, i>>]
         IN  g \in Seq(PageNames) /\ Len(g) = k /\ \A i \in 1 .. k : g[i] = <<name, i>>
<1> DEFINE numbered(i) == <<name, i>>
           g == [i \in 1 .. k |-> numbered(i)]
<1>1. \A i \in 1 .. k : numbered(i) \in PageNames
  OBVIOUS
<1> HIDE DEF numbered, PageNames
<1>2. g \in [1 .. k -> PageNames]
  BY <1>1
<1>3. g \in Seq(PageNames) /\ Len(g) = k /\ \A i \in 1 .. k : g[i] = numbered(i)
  BY <1>2
<1> QED BY <1>3 DEF numbered

(* Two sequences one behind the other.                                      *)
LEMMA JoinedParts ==
  ASSUME NEW s \in Seq(PageNames), NEW t \in Seq(PageNames)
  PROVE  /\ s \o t \in Seq(PageNames) /\ Len(s \o t) = Len(s) + Len(t)
         /\ \A i \in 1 .. Len(s) : (s \o t)[i] = s[i]
         /\ \A i \in 1 .. Len(t) : (s \o t)[Len(s) + i] = t[i]
<1> DEFINE k == Len(s)
           m == Len(t)
<1>1. /\ s \o t \in Seq(PageNames) /\ Len(s \o t) = k + m /\ k \in Nat /\ m \in Nat
      /\ \A i \in 1 .. k + m : (s \o t)[i] = IF i <= k THEN s[i] ELSE t[i - k]
  <2> HIDE DEF PageNames
  <2> QED BY JoinedSequences
<1> HIDE DEF k, m, PageNames
<1>2. ASSUME NEW i \in 1 .. k PROVE (s \o t)[i] = s[i]
  BY <1>1
<1>3. ASSUME NEW i \in 1 .. m PROVE (s \o t)[k + i] = t[i]
  <2>1. k + i \in 1 .. k + m /\ ~(k + i <= k) /\ k + i - k = i
    BY <1>1
  <2> QED BY <1>1, <2>1
<1> QED BY <1>1, <1>2, <1>3 DEF k, m

LEMMA ScratchpadsKnown ==
  ASSUME NEW f, f.capability.scratchpads \in Nat
  PROVE  LET k == ArrayPages(f) m == f.capability.scratchpads
         IN  /\ Scratchpads(f) \in Seq(PageNames) /\ Len(Scratchpads(f)) = k + m /\ k \in Nat
             /\ \A i \in 1 .. k : Scratchpads(f)[i] = <<"array", i>>
             /\ \A i \in 1 .. m : Scratchpads(f)[k + i] = <<"scratch", i>>
<1> DEFINE k == ArrayPages(f)
           m == f.capability.scratchpads
           g == [i \in 1 .. k |-> <<"array", i>>]
           h == [i \in 1 .. m |-> <<"scratch", i>>]
<1>1. k \in Nat /\ m \in Nat
  BY ArrayCounted
<1>2. \A i \in Nat : <<"array", i>> \in PageNames /\ <<"scratch", i>> \in PageNames
  BY DEF PageNames
<1> HIDE DEF PageNames, k, m
<1>3. g \in Seq(PageNames) /\ Len(g) = k /\ \A i \in 1 .. k : g[i] = <<"array", i>>
  BY <1>1, <1>2, NumberedNames, Zenon
<1>4. h \in Seq(PageNames) /\ Len(h) = m /\ \A i \in 1 .. m : h[i] = <<"scratch", i>>
  BY <1>1, <1>2, NumberedNames, Zenon
<1>5. Scratchpads(f) = g \o h
  BY DEF Scratchpads, k, m
<1> HIDE DEF g, h
<1>6. /\ g \o h \in Seq(PageNames) /\ Len(g \o h) = k + m
      /\ \A i \in 1 .. k : (g \o h)[i] = g[i]
      /\ \A i \in 1 .. m : (g \o h)[k + i] = h[i]
  <2>1. /\ g \o h \in Seq(PageNames) /\ Len(g \o h) = Len(g) + Len(h)
        /\ \A i \in 1 .. Len(g) : (g \o h)[i] = g[i]
        /\ \A i \in 1 .. Len(h) : (g \o h)[Len(g) + i] = h[i]
    BY <1>3, <1>4, JoinedParts, Zenon
  <2> QED BY <1>3, <1>4, <2>1
<1> QED BY <1>1, <1>3, <1>4, <1>5, <1>6, Zenon DEF k, m

LEMMA XhcPagesKnown ==
  ASSUME NEW f, f.capability.scratchpads \in Nat, NEW n, n = Len(XhcPages(f))
  PROVE  /\ n \in Nat \ {0} /\ n >= 3 /\ DOMAIN XhcPages(f) = 1 .. n
         /\ ArrayPages(f) \in Nat /\ n = ArrayPages(f) + f.capability.scratchpads + 3
         /\ XhcPages(f)[1] = The("context") /\ XhcPages(f)[n - 1] = The("command") /\ XhcPages(f)[n] = The("event")
         /\ \A i \in 1 .. ArrayPages(f) : XhcPages(f)[1 + i] = <<"array", i>>
         /\ \A i, j \in 1 .. n : XhcPages(f)[i] = XhcPages(f)[j] => i = j
         /\ \A i \in 1 .. n : XhcPages(f)[i] \in PageNames
<1> DEFINE s == Scratchpads(f)
           k == ArrayPages(f)
           m == f.capability.scratchpads
           context == The("context")
           command == The("command")
           event == The("event")
           front == <<context>>
           ends == <<command, event>>
           most == front \o s
           q == most \o ends
<1>1. /\ s \in Seq(PageNames) /\ Len(s) = k + m /\ k \in Nat /\ m \in Nat
      /\ \A i \in 1 .. k : s[i] = <<"array", i>>
      /\ \A i \in 1 .. m : s[k + i] = <<"scratch", i>>
  BY ScratchpadsKnown
<1>2. XhcPages(f) = q
  BY DEF XhcPages
<1>3. context \in PageNames /\ command \in PageNames /\ event \in PageNames
  BY DEF PageNames
<1> HIDE DEF s, context, command, event, PageNames, m, k
<1>4. /\ front \in Seq(PageNames) /\ Len(front) = 1 /\ front[1] = context
      /\ ends \in Seq(PageNames) /\ Len(ends) = 2 /\ ends[1] = command /\ ends[2] = event
  BY <1>3
<1> HIDE DEF front, ends
<1>5. /\ most \in Seq(PageNames) /\ Len(most) = 1 + (k + m)
      /\ \A i \in 1 .. 1 : most[i] = front[i]
      /\ \A i \in 1 .. k + m : most[1 + i] = s[i]
  <2>1. /\ front \o s \in Seq(PageNames) /\ Len(front \o s) = Len(front) + Len(s)
        /\ \A i \in 1 .. Len(front) : (front \o s)[i] = front[i]
        /\ \A i \in 1 .. Len(s) : (front \o s)[Len(front) + i] = s[i]
    BY <1>1, <1>4, JoinedParts, Zenon
  <2> QED BY <1>1, <1>4, <2>1
<1>6. /\ q \in Seq(PageNames) /\ Len(q) = 1 + (k + m) + 2
      /\ \A i \in 1 .. 1 + (k + m) : q[i] = most[i]
      /\ \A i \in 1 .. 2 : q[1 + (k + m) + i] = ends[i]
  <2> HIDE DEF most
  <2>1. /\ most \o ends \in Seq(PageNames) /\ Len(most \o ends) = Len(most) + Len(ends)
        /\ \A i \in 1 .. Len(most) : (most \o ends)[i] = most[i]
        /\ \A i \in 1 .. Len(ends) : (most \o ends)[Len(most) + i] = ends[i]
    BY <1>4, <1>5, JoinedParts, Zenon
  <2> QED BY <1>1, <1>4, <1>5, <2>1
<1> HIDE DEF q, most
<1>7. n = k + m + 3 /\ DOMAIN q = 1 .. n /\ n \in Nat /\ n >= 3 /\ n - 1 = 1 + (k + m) + 1 /\ n = 1 + (k + m) + 2
  BY <1>1, <1>2, <1>6
<1>8. q[1] = context
  BY <1>1, <1>4, <1>5, <1>6
<1>9. q[n - 1] = command /\ q[n] = event
  BY <1>4, <1>6, <1>7
<1>10. ASSUME NEW i \in 1 .. k PROVE q[1 + i] = <<"array", i>>
  <2>1. i \in 1 .. k + m /\ 1 + i \in 1 .. 1 + (k + m)
    BY <1>1
  <2> QED BY <1>1, <1>5, <1>6, <2>1
<1>11. ASSUME NEW i \in 1 .. m PROVE q[1 + (k + i)] = <<"scratch", i>>
  <2>1. k + i \in 1 .. k + m /\ 1 + (k + i) \in 1 .. 1 + (k + m)
    BY <1>1
  <2> QED BY <1>1, <1>5, <1>6, <2>1
<1>12. ASSUME NEW i \in 1 .. n
       PROVE  \/ i = 1 /\ q[i] = context
              \/ i = n - 1 /\ q[i] = command
              \/ i = n /\ q[i] = event
              \/ i \in 2 .. k + 1 /\ q[i] = <<"array", i - 1>>
              \/ i \in k + 2 .. k + m + 1 /\ q[i] = <<"scratch", i - 1 - k>>
  <2>1. i = 1 \/ i = n - 1 \/ i = n \/ i \in 2 .. k + 1 \/ i \in k + 2 .. k + m + 1
    BY <1>1, <1>7
  <2>2. CASE i \in 2 .. k + 1
    <3>1. i - 1 \in 1 .. k /\ 1 + (i - 1) = i
      BY <1>1, <2>2
    <3>2. q[1 + (i - 1)] = <<"array", i - 1>>
      BY <1>10, <3>1
    <3> QED BY <2>2, <3>1, <3>2
  <2>3. CASE i \in k + 2 .. k + m + 1
    <3>1. i - 1 - k \in 1 .. m /\ 1 + (k + (i - 1 - k)) = i
      BY <1>1, <2>3
    <3>2. q[1 + (k + (i - 1 - k))] = <<"scratch", i - 1 - k>>
      BY <1>11, <3>1
    <3> QED BY <2>3, <3>1, <3>2
  <2> QED BY <1>8, <1>9, <2>1, <2>2, <2>3
<1>13. ASSUME NEW i \in 1 .. n, NEW j \in 1 .. n, q[i] = q[j] PROVE i = j
  BY <1>1, <1>7, <1>12, <1>13 DEF The, context, command, event
<1>14. \A i \in 1 .. n : q[i] \in PageNames
  BY <1>6, <1>7
<1>15. \A i \in 1 .. k : q[1 + i] = <<"array", i>>
  BY <1>10, Zenon
<1>16. \A i, j \in 1 .. n : q[i] = q[j] => i = j
  BY <1>13, Zenon
<1>17. n \in Nat \ {0}
  BY <1>7
<1> QED BY <1>1, <1>2, <1>7, <1>8, <1>9, <1>14, <1>15, <1>16, <1>17, Zenon DEF context, command, event, m, k

(* The pages they get were free, and those of the array are a run.          *)
LEMMA XhcTaken ==
  ASSUME PcieInv, NEW f, f.capability.scratchpads \in Nat, EnoughForXhc(f), NEW n, n = Len(XhcPages(f)),
         free' = free \ {XhcAddresses(f)[i] : i \in 1 .. n}
  PROVE  /\ Taken(XhcAddresses(f), n)
         /\ \A i \in 1 .. ArrayPages(f) : XhcAddresses(f)[1 + i] = XhcAddresses(f)[2] + i - 1
<1> DEFINE k == ArrayPages(f)
           m == f.capability.scratchpads
           context == Page(1)
           rest == free \ {context}
           runs == RunsOf(rest, k)
           first == ArrayFirst(k)
           others == Others(k)
           nth(i) == NthOf(others, i)
           page == XhcAddresses(f)
<1>1. FreePages /\ Enough(1) /\ runs # {} /\ Cardinality(others) >= m + 2
  BY PagesFree DEF PcieInv, EnoughForXhc
<1>2. k \in Nat /\ m \in Nat /\ n \in Nat /\ n = k + m + 3 /\ DOMAIN XhcPages(f) = 1 .. n
  BY XhcPagesKnown
<1>3. context \in free
  <2>1. 1 \in 1 .. 1 /\ \A i \in 1 .. 1 : Page(i) \in free
    BY <1>1, PagesGivenOut
  <2> HIDE DEF Page
  <2> QED BY <2>1, Zenon
<1>4. free \subseteq Nat /\ IsFiniteSet(free)
  BY <1>1 DEF FreePages
<1> HIDE DEF k, m, Page
<1>5. first \in runs
  <2>1. runs \subseteq free
    BY DEF RunsOf
  <2>2. runs \subseteq Nat /\ IsFiniteSet(runs)
    BY <1>4, <2>1, FS_Subset
  <2> HIDE DEF runs
  <2>3. Cardinality(runs) \in Nat /\ Cardinality(runs) # 0
    BY <1>1, <2>2, FS_CardinalityType, FS_EmptySet
  <2>4. 1 \in Nat \ {0} /\ Cardinality(runs) >= 1
    BY <2>3
  <2>5. NthOf(runs, 1) \in runs
    BY <2>2, <2>4, LowestThere, Zenon
  <2> QED BY <2>5 DEF ArrayFirst, runs
<1>6. first \in Nat /\ \A i \in 1 .. k : first + i - 1 \in rest
  <2> HIDE DEF first
  <2>1. first \in rest /\ first .. (first + k - 1) \subseteq rest
    BY <1>5 DEF RunsOf
  <2>2. first \in Nat
    BY <1>4, <2>1
  <2>3. \A i \in 1 .. k : first + i - 1 \in first .. (first + k - 1)
    BY <1>2, <2>2
  <2> HIDE DEF rest
  <2> QED BY <2>1, <2>2, <2>3
<1>7. others = rest \ {first + i - 1 : i \in 1 .. k}
  BY DEF Others, Array
<1> HIDE DEF first, others
<1>8. /\ \A i \in 1 .. m + 2 : nth(i) \in others
      /\ \A i, j \in 1 .. m + 2 : nth(i) = nth(j) => i = j
  <2>1. others \subseteq Nat /\ IsFiniteSet(others)
    <3>1. others \subseteq free
      BY <1>7
    <3> QED BY <1>4, <3>1, FS_Subset
  <2>2. m + 2 \in Nat \ {0} /\ m + 2 \in Nat
    BY <1>2
  <2> HIDE DEF others
  <2> DEFINE c == m + 2
  <2>3. c \in Nat \ {0} /\ c \in Nat /\ Cardinality(others) >= c
    BY <1>1, <2>2
  <2> HIDE DEF c
  <2>4. /\ \A i \in 1 .. c : NthOf(others, i) \in others
        /\ \A i, j \in 1 .. c : NthOf(others, i) = NthOf(others, j) => i = j
    BY <2>1, <2>3, LowestApart, Zenon
  <2> QED BY <2>4, Zenon DEF c
<1> HIDE DEF nth
<1>9. page = [i \in 1 .. n |-> CASE i = 1 -> context
                              [] 1 < i /\ i <= k + 1 -> first + i - 2
                              [] i > k + 1 -> nth(i - k - 1)]
  BY <1>2 DEF XhcAddresses, k, first, nth, others
<1> HIDE DEF page, context, rest
<1>10. ASSUME NEW i \in 1 .. n
       PROVE  \/ i = 1 /\ page[i] = context
              \/ i \in 2 .. k + 1 /\ page[i] = first + (i - 1) - 1 /\ i - 1 \in 1 .. k
              \/ i \in k + 2 .. n /\ page[i] = nth(i - k - 1) /\ i - k - 1 \in 1 .. m + 2
  <2>1. CASE i = 1
    BY <1>2, <1>9, <2>1
  <2>2. CASE i \in 2 .. k + 1
    <3>1. i # 1 /\ 1 < i /\ i <= k + 1 /\ ~(i > k + 1) /\ i - 1 \in 1 .. k
      BY <1>2, <2>2
    <3>2. page[i] = first + i - 2
      BY <1>9, <3>1
    <3> QED BY <1>6, <2>2, <3>1, <3>2
  <2>3. CASE i \in k + 2 .. n
    <3>1. i # 1 /\ ~(i <= k + 1) /\ i > k + 1 /\ i - k - 1 \in 1 .. m + 2
      BY <1>2, <2>3
    <3>2. page[i] = nth(i - k - 1)
      BY <1>9, <3>1
    <3> QED BY <2>3, <3>1, <3>2
  <2> QED BY <1>2, <2>1, <2>2, <2>3
<1>11. /\ \A i \in 1 .. k : first + i - 1 # context /\ first + i - 1 \in free /\ first + i - 1 \notin others
       /\ \A i \in 1 .. m + 2 : nth(i) # context /\ nth(i) \in free
  BY <1>6, <1>7, <1>8 DEF rest
<1>12. \A i \in 1 .. n : page[i] \in free
  BY <1>3, <1>10, <1>11
<1>13. ASSUME NEW i \in 1 .. n, NEW j \in 1 .. n, page[i] = page[j] PROVE i = j
  <2>1. /\ \/ i = 1 /\ page[i] = context
           \/ i \in 2 .. k + 1 /\ page[i] = first + (i - 1) - 1 /\ i - 1 \in 1 .. k
           \/ i \in k + 2 .. n /\ page[i] = nth(i - k - 1) /\ i - k - 1 \in 1 .. m + 2
        /\ \/ j = 1 /\ page[j] = context
           \/ j \in 2 .. k + 1 /\ page[j] = first + (j - 1) - 1 /\ j - 1 \in 1 .. k
           \/ j \in k + 2 .. n /\ page[j] = nth(j - k - 1) /\ j - k - 1 \in 1 .. m + 2
    BY <1>10
  <2>2. CASE i \in k + 2 .. n /\ j \in k + 2 .. n
    BY <1>2, <1>8, <1>13, <2>1, <2>2
  <2>3. CASE i \in 2 .. k + 1 /\ j \in 2 .. k + 1
    <3>1. i \in Nat /\ j \in Nat /\ i # 1 /\ j # 1 /\ i \notin k + 2 .. n /\ j \notin k + 2 .. n
      BY <1>2, <2>3
    <3>2. page[i] = first + (i - 1) - 1 /\ page[j] = first + (j - 1) - 1
      BY <2>1, <3>1
    <3>3. first + (i - 1) - 1 = first + (j - 1) - 1
      BY <1>13, <3>2
    <3> QED BY <1>6, <3>1, <3>3
  <2> QED BY <1>2, <1>8, <1>11, <1>13, <2>1, <2>2, <2>3
<1>14. ASSUME NEW i \in 1 .. k PROVE page[1 + i] = page[2] + i - 1
  <2>1. 1 + i \in 1 .. n /\ 2 \in 1 .. n /\ 1 + i \in 2 .. k + 1 /\ 2 \in 2 .. k + 1 /\ 1 + i \notin k + 2 .. n /\ 2 \notin k + 2 .. n
    BY <1>2
  <2>2. page[1 + i] = first + (1 + i - 1) - 1 /\ page[2] = first + (2 - 1) - 1
    BY <1>10, <2>1
  <2> QED BY <1>2, <1>6, <2>2
<1> QED BY <1>12, <1>13, <1>14 DEF Taken, page, k

LEMMA XhciFacts ==
  ASSUME PcieInv, NEW p \in Places, p = Here, boot.at \in XhciAt
  PROVE  /\ function[p].class = "xhci" /\ DOMAIN hw = Places /\ DOMAIN driver = Places
         /\ hw[p] \in XhciDevice /\ XhciPages(p) /\ XhciRegistersAt(p) /\ XhciHalted(p)
         /\ hw[p] = [RS |-> hw[p].RS, INTE |-> hw[p].INTE, HCRST |-> hw[p].HCRST, HCH |-> hw[p].HCH, CNR |-> hw[p].CNR,
                     master |-> hw[p].master, operational |-> hw[p].operational, interrupter |-> hw[p].interrupter]
         /\ function[p].capability.slots \in Nat /\ function[p].capability.scratchpads \in Nat
         /\ boot = [place |-> p, at |-> boot.at, unit |-> boot.unit, wait |-> boot.wait]
         /\ boot.unit \in Nat \ {0} /\ boot.wait \in Nat
         /\ RecordTyped(p) /\ Record = driver[p] /\ Device = hw[p] /\ Function = function[p]
<1>1. BootTypes /\ XhciInv(p) /\ RecordsTyped /\ DOMAIN hw = Places /\ MachineKnown
  BY DEF PcieInv
<1>2. function[p].class = "xhci" /\ RecordTyped(p) /\ DOMAIN driver = Places
  BY <1>1 DEF BootTypes, RecordsTyped, Function
<1>3. hw[p] \in XhciDevice /\ XhciPages(p) /\ XhciRegistersAt(p) /\ XhciHalted(p)
  BY <1>1, <1>2 DEF XhciInv
<1>4. hw[p] = [RS |-> hw[p].RS, INTE |-> hw[p].INTE, HCRST |-> hw[p].HCRST, HCH |-> hw[p].HCH, CNR |-> hw[p].CNR,
               master |-> hw[p].master, operational |-> hw[p].operational, interrupter |-> hw[p].interrupter]
  BY <1>3 DEF XhciDevice
<1>5. function[p].capability.slots \in Nat /\ function[p].capability.scratchpads \in Nat
  BY <1>1, <1>2, FunctionsKnown DEF Field
<1>6. boot \in [place : Nat, at : {"function", "open", "done", "panic"} \cup NvmeAt \cup AhciAt \cup XhciAt,
                unit : Nat \ {0}, wait : Nat]
  BY <1>1 DEF BootTypes
<1>7. boot = [place |-> p, at |-> boot.at, unit |-> boot.unit, wait |-> boot.wait] /\ boot.unit \in Nat \ {0} /\ boot.wait \in Nat
  <2> HIDE DEF NvmeAt, AhciAt, XhciAt
  <2> QED BY <1>6 DEF Here
<1> QED BY <1>1, <1>2, <1>3, <1>4, <1>5, <1>7 DEF Record, Device, Function

SwitchesXhci(p) ==
  /\ function[p].class = "xhci" /\ XhciSwitched(hw[p], hw'[p])
  /\ \A q \in Places \ {p} : hw'[q] = hw[q]

LEMMA SameXhci ==
  ASSUME NEW p, function[p].class = "xhci", hw' = hw
  PROVE  SwitchesXhci(p)
BY SameSwitched DEF SwitchesXhci

LEMMA XhciInside ==
  ASSUME PcieInv, NEW p, Inside(p), boot.at \in XhciAt, boot'.at \in XhciAt,
         hw'[p] \in XhciDevice, XhciPages(p)', XhciRegistersAt(p)', XhciHalted(p)', registry' = registry,
         \/ driver'[p] = driver[p]
         \/ /\ driver'[p] = [base |-> driver[p].base, page |-> driver'[p].page, data |-> driver'[p].data,
                             count |-> driver'[p].count]
            /\ driver'[p].page = [name \in Names(p)' |-> driver'[p].page[name]]
            /\ \A name \in Names(p)' : driver'[p].page[name] \in Nat,
         \/ PagesApart'
         \/ free' = free /\ driver'[p].page = driver[p].page
  PROVE  PcieInv'
<1>1. BootTypes /\ RecordTyped(p) /\ PagesApart /\ p = Here
  BY DEF PcieInv, RecordsTyped, Inside
<1>2. UNCHANGED function /\ owned' = owned /\ function[p].class = "xhci"
  BY <1>1 DEF Inside, world, BootTypes, Function
<1>3. AhciInv(p)' /\ NvmeInv(p)' /\ XhciInv(p)' /\ NvmeDisksKnown(p)' /\ AhciDisksKnown(p)'
  <2>1. XhciInv(p)'
    BY DEF XhciInv
  <2> QED BY <1>2, <2>1, OtherClass
<1>4. /\ driver'[p] = [base |-> driver[p].base, page |-> driver'[p].page, data |-> driver'[p].data,
                       count |-> driver'[p].count]
      /\ driver'[p].page = [name \in Names(p)' |-> driver'[p].page[name]]
      /\ \A name \in Names(p)' : driver'[p].page[name] \in Nat
  <2>1. CASE driver'[p] = driver[p]
    <3> HIDE DEF Before
    <3> QED BY <1>1, <2>1 DEF RecordTyped, Names
  <2> QED BY <2>1
<1>5. PagesApart'
  <2> SUFFICES ASSUME free' = free, driver'[p].page = driver[p].page PROVE PagesApart'
    OBVIOUS
  <2>1. SamePages(p)
    BY DEF SamePages, Kept, Names, Passed, Inside, Here
  <2>2. StepAt(p)
    BY <1>1, InsideSteps
  <2>3. \A q \in Places : SamePages(q)
    BY <1>1, <2>1, <2>2, OthersPages
  <2> QED BY <1>1, <1>2, <2>3, PagesStay
<1>6. \A unit \in Nat : Reached(p, unit)'
  BY DEF Reached, In, XhciAt
<1> HIDE DEF Reached
<1> QED BY <1>3, <1>4, <1>5, <1>6, InsideKeeps

(* The thread writes USBCMD.                                                *)
XhciCommands(p, device, at) ==
  /\ UNCHANGED <<world, lists, driver, free>>
  /\ DOMAIN hw' = DOMAIN hw /\ hw'[p] = device /\ (\A q \in Places \ {p} : hw'[q] = hw[q]) /\ device \in XhciDevice
  /\ device.operational = hw[p].operational /\ device.interrupter = hw[p].interrupter
  /\ Go(at) /\ at \in XhciAt \ {"halt"}

LEMMA XhciMoves ==
  ASSUME PcieInv, NEW p \in Places, p = Here, boot.at \in XhciAt, NEW device, NEW at, XhciCommands(p, device, at),
         at \in {"halting", "resetting", "configure"} => boot.at \in {"halt", "halting", "resetting"},
         /\ device.HCRST => at = "resetting"
         /\ at \in {"halting", "resetting", "configure", "start"} => ~device.RS
         /\ at \in {"resetting", "configure", "start"} => device.HCH
         /\ at \in {"configure", "start"} => ~device.CNR,
         at \in {"starting", "start"} => boot.at = "start"
  PROVE  PcieInv' /\ hw'[p] = device /\ \A q \in Places \ {p} : hw'[q] = hw[q]
<1>1. /\ DOMAIN hw = Places /\ DOMAIN driver = Places /\ XhciPages(p) /\ XhciRegistersAt(p)
      /\ boot = [place |-> p, at |-> boot.at, unit |-> boot.unit, wait |-> boot.wait]
      /\ boot.unit \in Nat \ {0} /\ boot.wait \in Nat
  BY XhciFacts
<1>2. UNCHANGED <<function, registry, driver, free>>
  BY DEF XhciCommands, world, lists
<1>3. hw'[p] = device /\ DOMAIN hw' = Places /\ \A q \in Places \ {p} : hw'[q] = hw[q]
  BY <1>1 DEF XhciCommands
<1>4. boot' = [place |-> p, at |-> at, unit |-> boot.unit, wait |-> boot.wait] /\ boot'.at = at /\ boot'.place = p
  BY <1>1 DEF XhciCommands, Go
<1>5. Inside(p)
  BY <1>1, <1>2, <1>3, <1>4 DEF Inside, XhciCommands, lists
<1>6. XhciPages(p)'
  <2>1. In(p, {"halt", "halting", "resetting", "configure"})' => In(p, {"halt", "halting", "resetting", "configure"})
    BY <1>4 DEF In, Here, XhciCommands
  <2> QED BY <1>1, <1>2, <2>1 DEF XhciPages, Names
<1>7. XhciRegistersAt(p)' /\ XhciHalted(p)'
  BY <1>1, <1>2, <1>3, <1>4 DEF XhciRegistersAt, XhciHalted, Names, In, Here, XhciCommands
<1>8. PcieInv'
  BY <1>2, <1>3, <1>4, <1>5, <1>6, <1>7, XhciInside DEF XhciCommands
<1> QED BY <1>3, <1>8

LEMMA HaltKeeps ==
  ASSUME PcieInv, NEW p \in Places, p = Here, HaltController \/ ResetController \/ StartController
  PROVE  PcieInv' /\ SwitchesXhci(p)
<1>1. boot.at \in {"halt", "halting", "start"} /\ boot.at \in XhciAt /\ UNCHANGED <<world, lists, driver, free>>
  BY DEF HaltController, ResetController, StartController, At, XhciAt
<1>2. /\ function[p].class = "xhci" /\ hw[p] \in XhciDevice /\ XhciHalted(p) /\ DOMAIN hw = Places
      /\ hw[p].RS \in BOOLEAN /\ hw[p].HCRST \in BOOLEAN /\ hw[p].CNR \in BOOLEAN /\ Device = hw[p]
  BY <1>1, XhciFacts DEF XhciDevice
<1>3. CASE HaltController
  <2> DEFINE device == [hw[p] EXCEPT !.RS = FALSE]
  <2>1. boot.at = "halt" /\ Go("halting") /\ hw' = [hw EXCEPT ![p] = device]
    BY <1>3 DEF HaltController, At
  <2>2. /\ device \in XhciDevice /\ device.RS = FALSE /\ device.HCRST = hw[p].HCRST
        /\ device.operational = hw[p].operational /\ device.interrupter = hw[p].interrupter
    BY <1>2 DEF XhciDevice
  <2> HIDE DEF device
  <2>3. ~hw[p].HCRST
    BY <1>2, <2>1 DEF XhciHalted, In
  <2>4. XhciCommands(p, device, "halting")
    BY <1>1, <1>2, <2>1, <2>2 DEF XhciCommands, XhciAt
  <2>5. PcieInv' /\ hw'[p] = device /\ \A q \in Places \ {p} : hw'[q] = hw[q]
    BY <1>1, <2>1, <2>2, <2>3, <2>4, XhciMoves
  <2> QED BY <1>2, <2>2, <2>5 DEF SwitchesXhci, XhciSwitched
<1>4. CASE ResetController
  <2> DEFINE device == [hw[p] EXCEPT !.HCRST = TRUE]
  <2>1. boot.at = "halting" /\ Go("resetting") /\ hw' = [hw EXCEPT ![p] = device] /\ hw[p].HCH
    BY <1>2, <1>4 DEF ResetController, At
  <2>2. /\ device \in XhciDevice /\ device.RS = hw[p].RS /\ device.HCH = hw[p].HCH
        /\ device.operational = hw[p].operational /\ device.interrupter = hw[p].interrupter
    BY <1>2 DEF XhciDevice
  <2> HIDE DEF device
  <2>3. ~hw[p].RS
    BY <1>2, <2>1 DEF XhciHalted, In
  <2>4. XhciCommands(p, device, "resetting")
    BY <1>1, <1>2, <2>1, <2>2 DEF XhciCommands, XhciAt
  <2>5. PcieInv' /\ hw'[p] = device /\ \A q \in Places \ {p} : hw'[q] = hw[q]
    BY <1>1, <2>1, <2>2, <2>3, <2>4, XhciMoves
  <2> QED BY <1>2, <2>1, <2>2, <2>5 DEF SwitchesXhci, XhciSwitched
<1>5. CASE StartController
  <2> DEFINE device == [hw[p] EXCEPT !.INTE = TRUE, !.RS = TRUE]
  <2>1. boot.at = "start" /\ Go("starting") /\ hw' = [hw EXCEPT ![p] = device]
    BY <1>5 DEF StartController, At
  <2>2. /\ device \in XhciDevice /\ device.HCRST = hw[p].HCRST
        /\ device.operational = hw[p].operational /\ device.interrupter = hw[p].interrupter
    BY <1>2 DEF XhciDevice
  <2> HIDE DEF device
  <2>3. ~hw[p].HCRST /\ hw[p].HCH /\ ~hw[p].CNR
    BY <1>2, <2>1 DEF XhciHalted, In
  <2>4. XhciCommands(p, device, "starting")
    BY <1>1, <1>2, <2>1, <2>2 DEF XhciCommands, XhciAt
  <2>5. PcieInv' /\ hw'[p] = device /\ \A q \in Places \ {p} : hw'[q] = hw[q]
    BY <1>1, <2>1, <2>2, <2>3, <2>4, XhciMoves
  <2> QED BY <1>2, <2>2, <2>3, <2>5 DEF SwitchesXhci, XhciSwitched
<1> QED BY <1>3, <1>4, <1>5

LEMMA CheckResetKeeps ==
  ASSUME PcieInv, NEW p \in Places, p = Here, CheckReset \/ XhciDone
  PROVE  PcieInv' /\ SwitchesXhci(p)
<1>1. boot.at \in {"resetting", "starting"} /\ boot.at \in XhciAt /\ UNCHANGED <<world, lists, hw, driver, free>>
  BY DEF CheckReset, XhciDone, At, XhciAt
<1>2. /\ function[p].class = "xhci" /\ hw[p] \in XhciDevice /\ XhciHalted(p) /\ DOMAIN hw = Places /\ XhciPages(p)
      /\ hw[p].RS \in BOOLEAN /\ hw[p].HCRST \in BOOLEAN /\ hw[p].CNR \in BOOLEAN /\ Device = hw[p]
      /\ function[p].capability.scratchpads \in Nat
  BY <1>1, XhciFacts DEF XhciDevice
<1>3. ~hw[p].HCRST
  <2>1. CASE CheckReset
    BY <1>2, <2>1 DEF CheckReset, ResetOver
  <2>2. CASE XhciDone
    BY <1>2, <2>2 DEF XhciDone, At, XhciHalted, In
  <2> QED BY <2>1, <2>2
<1>4. CASE boot.at = "resetting" /\ Go("configure")
  <2>1. hw[p].HCH /\ ~hw[p].RS /\ ~hw[p].CNR
    BY <1>2, <1>4 DEF CheckReset, XhciDone, At, ResetOver, XhciHalted, In
  <2>2. XhciCommands(p, hw[p], "configure")
    BY <1>1, <1>2, <1>4 DEF XhciCommands, XhciAt
  <2>3. PcieInv'
    BY <1>1, <1>3, <1>4, <2>1, <2>2, XhciMoves
  <2> QED BY <1>1, <1>2, <2>3, SameXhci
<1>5. CASE Return
  <2>1. Leaves
    BY <1>5 DEF Return, Leaves
  <2>2. The("identify") \notin Names(p)
    <3>1. The("identify") \notin PageNames
      BY DEF PageNames, The
    <3>2. \A i \in DOMAIN XhcPages(function[p]) : XhcPages(function[p])[i] \in PageNames
      BY <1>2, XhcPagesKnown
    <3> HIDE DEF PageNames
    <3> QED BY <1>2, <3>1, <3>2 DEF XhciPages
  <2>3. PcieInv'
    BY <1>1, <1>2, <1>3, <2>1, <2>2, QuietKeeps
  <2> QED BY <1>1, <1>2, <2>3, SameXhci
<1> QED BY <1>4, <1>5 DEF CheckReset, XhciDone, At

LEMMA ConfigureKeeps ==
  ASSUME PcieInv, NEW p \in Places, p = Here, ConfigureController
  PROVE  PcieInv' /\ SwitchesXhci(p)
<1> DEFINE f == function[p]
           names == XhcPages(f)
           n == Len(names)
           k == ArrayPages(f)
           page == XhcAddresses(f)
           data == Segment(page[n])
           operational == [DCBAAP |-> page[1], CRCR |-> page[n - 1], DNCTRL |-> 65535, CONFIG |-> f.capability.slots]
           interrupter == [IE |-> TRUE, ERSTSZ |-> 1, ERSTBA |-> <<page[1], SegmentTable>>, ERDP |-> page[n]]
           was == hw[p]
           device == [was EXCEPT !.operational = operational, !.interrupter = interrupter]
<1>1. boot.at = "configure" /\ boot.at \in XhciAt /\ UNCHANGED <<world, lists>> /\ Go("start")
  BY DEF ConfigureController, At, XhciAt
<1>2. UNCHANGED <<function, registry, chain>>
  BY <1>1 DEF world, lists
<1>3. /\ f.class = "xhci" /\ was \in XhciDevice /\ XhciHalted(p) /\ XhciPages(p) /\ DOMAIN hw = Places /\ DOMAIN driver = Places
      /\ f.capability.slots \in Nat /\ f.capability.scratchpads \in Nat /\ Function = f
      /\ boot = [place |-> p, at |-> boot.at, unit |-> boot.unit, wait |-> boot.wait]
      /\ boot.unit \in Nat \ {0} /\ boot.wait \in Nat
      /\ was = [RS |-> was.RS, INTE |-> was.INTE, HCRST |-> was.HCRST, HCH |-> was.HCH, CNR |-> was.CNR,
                master |-> was.master, operational |-> was.operational, interrupter |-> was.interrupter]
  BY <1>1, XhciFacts
<1>4. Names(p) = {} /\ ~was.HCRST /\ ~was.RS /\ was.HCH /\ ~was.CNR
  BY <1>1, <1>3 DEF XhciPages, XhciHalted, In
<1>5. /\ n \in Nat \ {0} /\ n >= 3 /\ DOMAIN names = 1 .. n /\ k \in Nat /\ n = k + f.capability.scratchpads + 3
      /\ names[1] = The("context") /\ names[n - 1] = The("command") /\ names[n] = The("event")
      /\ \A i \in 1 .. k : names[1 + i] = <<"array", i>>
      /\ \A i, j \in 1 .. n : names[i] = names[j] => i = j
  <2>1. f.capability.scratchpads \in Nat /\ n = Len(XhcPages(f)) /\ k = ArrayPages(f)
    BY <1>3
  <2> HIDE DEF XhcPages, f, n, k
  <2> QED BY ONLY <2>1, XhcPagesKnown
<1>6. /\ EnoughForXhc(f) /\ free' = free \ {page[i] : i \in 1 .. n}
      /\ driver' = [driver EXCEPT ![p] = [Filled(names, page) EXCEPT !.data = data]]
      /\ hw' = [hw EXCEPT ![p] = device]
  <2> HIDE DEF XhcPages, XhcAddresses
  <2> QED BY <1>3 DEF ConfigureController
<1>7. Taken(page, n) /\ \A i \in 1 .. k : page[1 + i] = page[2] + i - 1
  <2>1. n = Len(XhcPages(f))
    OBVIOUS
  <2> HIDE DEF f, n
  <2> QED BY <1>3, <1>6, <2>1, XhcTaken
<1> HIDE DEF page
<1>8. hw'[p] = device /\ DOMAIN hw' = Places /\ \A q \in Places \ {p} : hw'[q] = hw[q]
  <2> HIDE DEF device
  <2> QED BY <1>3, <1>6
<1>9. DOMAIN driver' = Places /\ \A q \in Places \ {p} : driver'[q] = driver[q]
  <2> HIDE DEF names, data
  <2> QED BY <1>3, <1>6
<1>10. boot' = [place |-> p, at |-> "start", unit |-> boot.unit, wait |-> boot.wait] /\ boot'.place = p /\ boot'.at = "start"
  BY <1>1, <1>3 DEF Go
<1>11. Inside(p)
  BY <1>1, <1>2, <1>3, <1>8, <1>9, <1>10 DEF Inside, XhciAt
<1>12. RecordMade(p, Filled(names, page), data, driver[p].count)
  <2> HIDE DEF names, data
  <2> QED BY <1>6 DEF RecordMade
<1>13. /\ driver'[p] = [base |-> driver[p].base, page |-> driver'[p].page, data |-> driver'[p].data, count |-> driver'[p].count]
       /\ driver'[p].data = data /\ Took(p, names, n, page)
  <2> HIDE DEF names, data, n
  <2>1. NewNames(p, names, n)
    BY <1>4, <1>5 DEF NewNames, Distinct
  <2> QED BY <1>7, <1>11, <1>12, <2>1, InsideMade
<1> HIDE DEF XhcPages
<1>14. /\ page[1] \in Nat /\ page[n - 1] \in Nat /\ page[n] \in Nat
       /\ driver'[p].page[The("context")] = page[1] /\ driver'[p].page[The("command")] = page[n - 1]
       /\ driver'[p].page[The("event")] = page[n]
       /\ {The("context"), The("event"), The("command")} \subseteq Names(p)'
       /\ Names(p)' = {names[i] : i \in 1 .. n}
       /\ driver'[p].data = Segment(driver'[p].page[The("event")])
       /\ \A i \in 1 .. k : driver'[p].page[<<"array", i>>] = driver'[p].page[<<"array", 1>>] + i - 1
  <2>1. 1 \in 1 .. n /\ n - 1 \in 1 .. n /\ n \in 1 .. n
    BY <1>5
  <2>2. /\ \A i \in 1 .. n : driver'[p].page[names[i]] = page[i] /\ page[i] \in Nat \ {0}
        /\ Names(p)' = {names[i] : i \in 1 .. n} /\ driver'[p].data = data
    BY <1>4, <1>13 DEF Took
  <2>3. ASSUME NEW i \in 1 .. k PROVE driver'[p].page[<<"array", i>>] = driver'[p].page[<<"array", 1>>] + i - 1
    <3> DEFINE m == f.capability.scratchpads
    <3>4. m \in Nat /\ n \in Nat /\ k \in Nat /\ n = k + m + 3
      BY <1>3, <1>5
    <3> HIDE DEF n, k, m
    <3>1. 1 + i \in 1 .. n /\ 2 \in 1 .. n /\ 1 \in 1 .. k /\ 1 + 1 = 2
      BY <3>4
    <3>2. names[1 + i] = <<"array", i>> /\ names[2] = <<"array", 1>>
      BY <1>5, <3>1
    <3>3. driver'[p].page[<<"array", i>>] = page[1 + i] /\ driver'[p].page[<<"array", 1>>] = page[2]
      <4> HIDE DEF names, n
      <4> QED BY <2>2, <3>1, <3>2
    <3> QED BY <1>7, <3>3
  <2> HIDE DEF names, n, k, data
  <2>4. \A i \in 1 .. k : driver'[p].page[<<"array", i>>] = driver'[p].page[<<"array", 1>>] + i - 1
    BY <2>3, Zenon
  <2>5. page[1] \in Nat /\ page[n - 1] \in Nat /\ page[n] \in Nat
    BY <2>1, <2>2
  <2>6. /\ driver'[p].page[The("context")] = page[1] /\ driver'[p].page[The("command")] = page[n - 1]
        /\ driver'[p].page[The("event")] = page[n]
    BY <1>5, <2>1, <2>2
  <2>7. {The("context"), The("event"), The("command")} \subseteq Names(p)'
    <3>1. \A i \in 1 .. n : names[i] \in Names(p)'
      BY <2>2
    <3>2. names[1] \in Names(p)' /\ names[n - 1] \in Names(p)' /\ names[n] \in Names(p)'
      BY <2>1, <3>1, Zenon
    <3> QED BY <1>5, <3>2
  <2>8. data = Segment(driver'[p].page[The("event")])
    BY <2>6 DEF data
  <2> QED BY <2>2, <2>4, <2>5, <2>6, <2>7, <2>8, Zenon
<1>15. /\ operational \in Operational /\ interrupter \in [IE : BOOLEAN, ERSTSZ : Nat, ERSTBA : Nat \X Nat, ERDP : Nat]
  <2> DEFINE first == page[1]
             rings == page[n - 1]
             events == page[n]
  <2>1. first \in Nat /\ rings \in Nat /\ events \in Nat /\ f.capability.slots \in Nat
    BY <1>3, <1>14
  <2> DEFINE slots == f.capability.slots
             table == <<first, SegmentTable>>
  <2>2. /\ operational = [DCBAAP |-> first, CRCR |-> rings, DNCTRL |-> 65535, CONFIG |-> slots]
        /\ interrupter = [IE |-> TRUE, ERSTSZ |-> 1, ERSTBA |-> table, ERDP |-> events]
    OBVIOUS
  <2>3. table \in Nat \X Nat
    BY <2>1 DEF SegmentTable
  <2> HIDE DEF first, rings, events, f, slots, table, operational, interrupter
  <2>4. slots \in Nat
    BY <2>1 DEF slots
  <2>5. operational \in Operational
    BY <2>1, <2>2, <2>4 DEF Operational
  <2>6. interrupter \in [IE : BOOLEAN, ERSTSZ : Nat, ERSTBA : Nat \X Nat, ERDP : Nat]
    BY <2>1, <2>2, <2>3
  <2> QED BY <2>5, <2>6
<1>16. /\ operational.DCBAAP = page[1] /\ operational.CRCR = page[n - 1] /\ interrupter.ERSTBA = <<page[1], SegmentTable>>
       /\ interrupter.ERDP = page[n]
  OBVIOUS
<1> HIDE DEF operational, interrupter
<1>17. /\ device \in XhciDevice /\ device.HCRST = was.HCRST /\ device.RS = was.RS /\ device.HCH = was.HCH /\ device.CNR = was.CNR
       /\ device.operational = operational /\ device.interrupter = interrupter
  <2> HIDE DEF was, Operational
  <2> QED BY <1>3, <1>15 DEF XhciDevice
<1> HIDE DEF device
<1>18. XhciPages(p)' /\ XhciHalted(p)'
  <2>1. Names(p)' = {XhcPages(function'[p])[i] : i \in DOMAIN XhcPages(function'[p])}
    BY <1>2, <1>5, <1>14
  <2>2. XhciPages(p)'
    BY <1>10, <2>1 DEF XhciPages, In, Here
  <2>3. XhciHalted(p)'
    BY <1>4, <1>8, <1>10, <1>17 DEF XhciHalted, In, Here
  <2> QED BY <2>2, <2>3
<1>19. XhciRegistersAt(p)'
  BY <1>2, <1>8, <1>14, <1>16, <1>17 DEF XhciRegistersAt
<1>20. PcieInv'
  BY <1>1, <1>2, <1>8, <1>10, <1>11, <1>13, <1>17, <1>18, <1>19, XhciInside DEF Took, XhciAt
<1> QED BY <1>3, <1>4, <1>8, <1>17, <1>20 DEF SwitchesXhci, XhciSwitched

-----------------------------------------------------------------------------
(* Every step of the boot thread, ...                                       *)
LEMMA XhciStepsKeep ==
  ASSUME PcieInv, NEW p \in Places, p = Here,
         HaltController \/ ResetController \/ CheckReset \/ ConfigureController \/ StartController \/ XhciDone
  PROVE  PcieInv' /\ SwitchesXhci(p)
<1> HIDE DEF PcieInv
<1> QED BY HaltKeeps, CheckResetKeeps, ConfigureKeeps

LEMMA NvmeStepsKeep ==
  ASSUME PcieInv, NEW p \in Places, p = Here,
         \/ WaitDisabled \/ AdminQueues \/ Enable \/ WaitReady \/ VerifyReady
         \/ IdentifyIt \/ CreateQueues \/ CreateSecond
         \/ AskNamespace \/ AddNamespace \/ TableRead \/ NvmeDone
  PROVE  PcieInv' /\ SwitchesNvme(p)
<1> HIDE DEF PcieInv
<1>1. CASE WaitDisabled \/ AdminQueues \/ Enable
  BY <1>1, WaitDisabledKeeps, AdminQueuesKeeps, EnableKeeps
<1>2. CASE WaitReady \/ VerifyReady
  BY <1>2, WaitReadyKeeps
<1>3. CASE IdentifyIt \/ CreateQueues
  BY <1>3, IdentifyKeeps, CreateQueuesKeeps
<1>4. CASE CreateSecond \/ TableRead
  BY <1>4, CreateSecondKeeps
<1>5. CASE AskNamespace \/ AddNamespace \/ NvmeDone
  BY <1>5, AskNamespaceKeeps, AddNamespaceKeeps, NvmeDoneKeeps
<1> QED BY <1>1, <1>2, <1>3, <1>4, <1>5

(* ... and every step at all: it changes no device, or the one at a place,  *)
(* as its class allows.                                                     *)
SwitchesOne ==
  \/ hw' = hw
  \/ \E p \in Places :
       /\ \A q \in Places \ {p} : hw'[q] = hw[q]
       /\ \/ function[p].class = "nvme" /\ NvmeSwitched(hw[p], hw'[p])
          \/ function[p].class = "xhci" /\ XhciSwitched(hw[p], hw'[p])
          \/ function[p].class = "ahci" /\ AhciSwitched(hw[p], hw'[p])

LEMMA BootKeeps ==
  ASSUME PcieInv, BootStep
  PROVE  PcieInv' /\ SwitchesOne
<1>1. CASE Dispatch \/ WalkOver
  <2> HIDE DEF PcieInv
  <2> QED BY <1>1, DispatchKeeps, WalkOverKeeps DEF SwitchesOne
<1>2. CASE Open("nvme", 0, "reset") \/ Open("ahci", 5, "general") \/ Open("xhci", 0, "halt")
  <2> HIDE DEF PcieInv
  <2> QED BY <1>2, OpenKeeps DEF SwitchesOne
<1>3. CASE NvmePanics \/ AhciPanics \/ XhciPanics
  <2> HIDE DEF PcieInv
  <2> QED BY <1>3, PanicKeeps DEF SwitchesOne
<1>4. CASE \/ WaitDisabled \/ AdminQueues \/ Enable \/ WaitReady \/ VerifyReady
           \/ IdentifyIt \/ CreateQueues \/ CreateSecond
           \/ AskNamespace \/ AddNamespace \/ TableRead \/ NvmeDone
  <2>1. boot.at \in NvmeAt
    BY <1>4 DEF WaitDisabled, AdminQueues, Enable, WaitReady, VerifyReady, IdentifyIt, CreateQueues, CreateSecond,
                AskNamespace, AddNamespace, TableRead, NvmeDone, At, NvmeAt
  <2>2. PICK p \in Places : p = Here
    BY <2>1 DEF PcieInv, BootTypes
  <2> HIDE DEF PcieInv
  <2>3. PcieInv' /\ SwitchesNvme(p)
    BY <1>4, <2>2, NvmeStepsKeep
  <2> QED BY <2>3 DEF SwitchesNvme, SwitchesOne
<1>5. CASE \/ EnableAhci \/ SkipPort \/ StopPort \/ WaitStopped \/ CheckSignature
           \/ GiveCommandPage \/ StartPort \/ AddDisk \/ AskName \/ AhciDone
  <2>1. boot.at \in AhciAt
    BY <1>5 DEF EnableAhci, SkipPort, StopPort, WaitStopped, CheckSignature, GiveCommandPage, StartPort, AddDisk,
                AskName, AhciDone, At, AhciAt
  <2>2. PICK p \in Places : p = Here
    BY <2>1 DEF PcieInv, BootTypes
  <2> HIDE DEF PcieInv
  <2>3. PcieInv' /\ SwitchesAhci(p)
    BY <1>5, <2>2, AhciStepsKeep
  <2> QED BY <2>3 DEF SwitchesAhci, SwitchesOne
<1>6. CASE HaltController \/ ResetController \/ CheckReset \/ ConfigureController \/ StartController \/ XhciDone
  <2>1. boot.at \in XhciAt
    BY <1>6 DEF HaltController, ResetController, CheckReset, ConfigureController, StartController, XhciDone, At, XhciAt
  <2>2. PICK p \in Places : p = Here
    BY <2>1 DEF PcieInv, BootTypes
  <2> HIDE DEF PcieInv
  <2>3. PcieInv' /\ SwitchesXhci(p)
    BY <1>6, <2>2, XhciStepsKeep
  <2> QED BY <2>3 DEF SwitchesXhci, SwitchesOne
<1> QED BY <1>1, <1>2, <1>3, <1>4, <1>5, <1>6 DEF BootStep, NvmeSteps, AhciSteps, XhciSteps

LEMMA PcieStays == ASSUME PcieInv, UNCHANGED setupVars PROVE PcieInv'
<1>1. UNCHANGED <<function, hw, driver, chain, registry, free, owned, boot>>
  BY DEF setupVars
<1>2. BootTypes' /\ MachineKnown' /\ DOMAIN hw' = Places
  BY <1>1 DEF PcieInv, BootTypes, MachineKnown, Here, Function
<1>3. RecordsTyped'
  BY <1>1 DEF PcieInv, RecordsTyped, RecordTyped, Names, Before, Here
<1>4. PagesApart'
  BY <1>1 DEF PcieInv, PagesApart, Kept, Passed
<1>5. ASSUME NEW p \in Places PROVE NvmeInv(p)' /\ AhciInv(p)' /\ XhciInv(p)'
  <2>1. NvmeInv(p)'
    <3>1. NvmePages(p)' = NvmePages(p) /\ NvmeQueuesAt(p)' = NvmeQueuesAt(p)
      BY <1>1 DEF NvmePages, NvmeQueuesAt, Names, In, Here
    <3>2. NvmeCommand(p)' = NvmeCommand(p) /\ NvmeOn(p)' = NvmeOn(p)
      BY <1>1 DEF NvmeCommand, NvmeOn, In, Here
    <3>3. NvmeTold(p)' = NvmeTold(p)
      BY <1>1 DEF NvmeTold, Before, In, Here
    <3> QED BY <1>1, <3>1, <3>2, <3>3 DEF PcieInv, NvmeInv
  <2>2. AhciInv(p)'
    <3>1. AhciTypes(p)' = AhciTypes(p) /\ AhciQueuesAt(p)' = AhciQueuesAt(p)
      BY <1>1 DEF AhciTypes, AhciQueuesAt, Names
    <3>2. AhciPages(p)' = AhciPages(p) /\ AhciStopped(p)' = AhciStopped(p)
      BY <1>1 DEF AhciPages, AhciStopped, Names, In, Here
    <3> QED BY <1>1, <3>1, <3>2 DEF PcieInv, AhciInv
  <2>3. XhciInv(p)'
    BY <1>1 DEF PcieInv, XhciInv, XhciPages, XhciRegistersAt, XhciHalted, Names, In, Here
  <2> QED BY <2>1, <2>2, <2>3
<1>6. ChainKnown'
  BY <1>1 DEF PcieInv, ChainKnown, Before, Here
<1>7. RegistryKnown'
  BY <1>1 DEF PcieInv, RegistryKnown, Before, Reached, In, Here
<1>8. ASSUME NEW p \in Places PROVE NvmeDisksKnown(p)' /\ AhciDisksKnown(p)'
  <2>1. NvmeDisksKnown(p)'
    BY <1>1 DEF PcieInv, NvmeDisksKnown, UnitsOf, Listed, In, Here
  <2>2. AhciDisksKnown(p)'
    BY <1>1 DEF PcieInv, AhciDisksKnown, UnitsOf, Listed, Before, In, Here
  <2> QED BY <2>1, <2>2
<1> QED BY <1>2, <1>3, <1>4, <1>5, <1>6, <1>7, <1>8 DEF PcieInv

LEMMA PcieSteps == ASSUME PcieInv, [PcieNext]_setupVars PROVE PcieInv' /\ SwitchesOne
<1> HIDE DEF PcieInv
<1>1. CASE BootStep
  BY <1>1, BootKeeps
<1>2. CASE \E p \in Places : Controller(p) \/ Fatal(p)
  <2>1. PICK p \in Places : Controller(p) \/ Fatal(p)
    BY <1>2
  <2>2. CASE NvmeController(p) \/ Fatal(p)
    BY <2>2, NvmeControllerKeeps DEF SwitchesOne
  <2>3. CASE AhciController(p)
    BY <2>3, AhciControllerKeeps DEF SwitchesOne
  <2>4. CASE XhciController(p)
    BY <2>4, XhciControllerKeeps DEF SwitchesOne
  <2> QED BY <2>1, <2>2, <2>3, <2>4 DEF Controller
<1>3. CASE UNCHANGED setupVars
  BY <1>3, PcieStays DEF SwitchesOne, setupVars
<1> QED BY <1>1, <1>2, <1>3 DEF PcieNext

-----------------------------------------------------------------------------
(* Places count from one.                                                   *)
LEMMA PlacesNumbered == \A p \in Places : p \in Nat /\ p >= 1
<1> DEFINE n == Cardinality(Places)
<1>1. n \in Nat /\ Places = 1 .. n
  BY SetupAssumption, FS_CardinalityType
<1> HIDE DEF n
<1> QED BY <1>1

(* How the firmware leaves a controller of each class.                      *)
LEMMA NvmeLeft ==
  ASSUME NEW f, NEW d, f.class = "nvme", d \in LeftBehind(f)
  PROVE  \E e, r, s \in BOOLEAN : d = NvmeRegisters(e, r, FALSE, s)
<1> DEFINE Registers(e, r, s) == NvmeRegisters(e, r, FALSE, s)
           left == {Registers(e, r, s) : e, r, s \in BOOLEAN}
<1> HIDE DEF NvmeRegisters, AhciRegisters, XhciRegisters
<1>1. LeftBehind(f) = left
  BY DEF LeftBehind
<1> HIDE DEF Registers
<1>2. d \in left
  BY <1>1
<1>3. \E e, r, s \in BOOLEAN : d = Registers(e, r, s)
  BY ONLY <1>2
<1> QED BY <1>3 DEF Registers

LEMMA AhciLeft ==
  ASSUME NEW f, NEW d, f.class = "ahci", d \in LeftBehind(f)
  PROVE  \E s, w \in BOOLEAN : d = AhciRegisters(f, s, w)
<1> HIDE DEF NvmeRegisters, AhciRegisters, XhciRegisters
<1>1. LeftBehind(f) = {AhciRegisters(f, s, w) : s, w \in BOOLEAN}
  BY DEF LeftBehind
<1>2. d \in {AhciRegisters(f, s, w) : s, w \in BOOLEAN}
  BY <1>1
<1> QED BY ONLY <1>2

LEMMA XhciLeft ==
  ASSUME NEW f, NEW d, f.class = "xhci", d \in LeftBehind(f)
  PROVE  \E r, u, s \in BOOLEAN : d = XhciRegisters(r, u, s)
<1> HIDE DEF NvmeRegisters, AhciRegisters, XhciRegisters
<1> DEFINE pairs == {<<FALSE, FALSE>>, <<FALSE, TRUE>>, <<TRUE, TRUE>>}
<1>1. LeftBehind(f) = {XhciRegisters(u[1], u[2], s) : u \in pairs, s \in BOOLEAN}
  BY DEF LeftBehind
<1>2. ASSUME NEW u \in pairs PROVE u[1] \in BOOLEAN /\ u[2] \in BOOLEAN
  <2>1. CASE u = <<FALSE, FALSE>>
    BY <2>1
  <2>2. CASE u = <<FALSE, TRUE>>
    BY <2>2
  <2>3. CASE u = <<TRUE, TRUE>>
    BY <2>3
  <2> QED BY <2>1, <2>2, <2>3
<1> HIDE DEF pairs
<1>3. d \in {XhciRegisters(u[1], u[2], s) : u \in pairs, s \in BOOLEAN}
  BY <1>1
<1>4. PICK u \in pairs, s \in BOOLEAN : d = XhciRegisters(u[1], u[2], s)
  BY ONLY <1>3
<1> QED BY <1>2, <1>4

(* The first state.                                                         *)
LEMMA PcieBegins == ASSUME PcieInit PROVE PcieInv
<1>1. PICK m \in Machines :
        /\ function = m.functions /\ owned = 1 .. m.pages
        /\ hw \in [Places -> UNION {LeftBehind(m.functions[p]) : p \in Places}]
        /\ \A p \in Places : hw[p] \in LeftBehind(m.functions[p])
  BY DEF PcieInit
<1>2. PICK mcfg \in BOOLEAN : Begins(mcfg)
  BY DEF PcieInit
<1>3. /\ driver = [p \in Places |-> NoRecord]
      /\ chain = <<>> /\ registry = <<>> /\ free = owned
  BY DEF PcieInit, PcieInitial
<1>4. /\ boot \in [place : Nat, at : {"function", "done"}, unit : Nat \ {0}, wait : Nat]
      /\ boot.place = 1 /\ boot.at \in {"function", "done"} /\ boot.wait = 0 /\ boot.unit = 1
  BY <1>2 DEF Begins
<1>5. BootTypes
  BY <1>4 DEF BootTypes, NvmeAt, AhciAt, XhciAt
<1>6. MachineKnown
  BY <1>1, DevicesAssumption, SetupAssumption DEF MachineKnown
<1>7. DOMAIN hw = Places /\ \A p \in Places : hw[p] \in LeftBehind(function[p])
  BY <1>1
<1>8. ASSUME NEW p \in Places PROVE Before(p) /\ \A S : "function" \notin S /\ "done" \notin S => ~In(p, S)
  <2>1. p \in Nat /\ p >= 1
    BY PlacesNumbered
  <2> QED BY <1>4, <2>1 DEF Before, In, Here
<1>9. ASSUME NEW p \in Places
      PROVE  driver[p] = NoRecord /\ Names(p) = {} /\ driver[p].page = [name \in {} |-> 0] /\ Kept(p) = {}
  BY <1>3 DEF NoRecord, Names, Kept
<1>10. RecordsTyped
  <2>1. NoRecord = [base |-> NoRecord.base, page |-> NoRecord.page, data |-> NoRecord.data, count |-> NoRecord.count]
    BY DEF NoRecord
  <2>2. \A p \in Places : RecordTyped(p)
    <3> HIDE DEF NoRecord, Before
    <3> QED BY <1>9, <2>1 DEF RecordTyped
  <2> QED BY <1>3, <2>2 DEF RecordsTyped
<1>11. PagesApart
  BY <1>3, <1>9 DEF PagesApart
<1>12. ASSUME NEW p \in Places PROVE NvmeInv(p)
  <2> SUFFICES ASSUME function[p].class = "nvme" PROVE NvmeInv(p)
    BY DEF NvmeInv
  <2>1. PICK e, r, s \in BOOLEAN : hw[p] = NvmeRegisters(e, r, FALSE, s)
    BY <1>7, NvmeLeft
  <2>2. /\ hw[p].ASQ = 0 /\ hw[p].ACQ = 0 /\ hw[p].sq = 0 /\ hw[p].cq = 0 /\ hw[p].command = NoCommand /\ hw[p].told = {}
        /\ hw[p] \in NvmeDevice
    <3>1. NoCommand \in Commands
      BY DEF Commands
    <3> HIDE DEF Commands, NoCommand
    <3> QED BY <2>1, <3>1 DEF NvmeRegisters, NvmeDevice, Configuration, Status
  <2>3. NvmePages(p) /\ NvmeQueuesAt(p) /\ NvmeCommand(p) /\ NvmeOn(p)
    <3> HIDE DEF In
    <3> QED BY <1>8, <1>9, <2>2 DEF NvmePages, NvmeQueuesAt, NvmeCommand, NvmeOn
  <2>4. NvmeTold(p)
    <3> HIDE DEF In, Before
    <3> QED BY <1>8, <2>2 DEF NvmeTold
  <2> QED BY <2>2, <2>3, <2>4 DEF NvmeInv
<1>13. ASSUME NEW p \in Places PROVE AhciInv(p)
  <2> SUFFICES ASSUME function[p].class = "ahci" PROVE AhciInv(p)
    BY DEF AhciInv
  <2> DEFINE ports == function[p].ports
  <2>1. PICK s, w \in BOOLEAN : hw[p] = AhciRegisters(function[p], s, w)
    BY <1>7, AhciLeft
  <2>2. ports \in Seq(Ports)
    BY <1>6, FunctionsKnown
  <2>3. /\ hw[p] = [AE |-> hw[p].AE, master |-> hw[p].master, port |-> hw[p].port] /\ hw[p].AE = FALSE /\ hw[p].master = w
        /\ hw[p].port = [i \in DOMAIN ports |-> AhciPort(s /\ ports[i].det = 3, ports[i])]
    BY <2>1 DEF AhciRegisters
  <2>4. ASSUME NEW i \in DOMAIN ports
        PROVE  hw[p].port[i] \in PortStates(ports[i]) /\ hw[p].port[i].sign = ports[i].sign
    <3>1. hw[p].port[i] = AhciPort(s /\ ports[i].det = 3, ports[i])
      BY <2>3
    <3> DEFINE starts == s /\ ports[i].det = 3
               sign == ports[i].sign
               link == ports[i].det = 3
    <3>2. starts \in BOOLEAN /\ link \in BOOLEAN
      OBVIOUS
    <3>3. hw[p].port[i] = [ST |-> starts, CR |-> starts, sign |-> sign, link |-> link, reset |-> FALSE, CLB |-> 0, FB |-> <<0, 0>>]
      BY <3>1 DEF AhciPort
    <3>4. PortStates(ports[i]) = [ST : BOOLEAN, CR : BOOLEAN, sign : {sign, "none"}, link : BOOLEAN, reset : BOOLEAN,
                                  CLB : Nat, FB : Nat \X Nat]
      BY DEF PortStates
    <3> HIDE DEF starts, sign, link, ports
    <3>5. hw[p].port[i] \in PortStates(ports[i]) /\ hw[p].port[i].sign = sign
      BY <3>2, <3>3, <3>4
    <3> QED BY <3>5 DEF sign
  <2> HIDE DEF ports, PortStates
  <2>5. AhciTypes(p)
    <3>1. hw[p].port = [i \in DOMAIN ports |-> hw[p].port[i]]
      BY <2>3
    <3> QED BY <2>3, <2>4, <3>1 DEF AhciTypes, ports
  <2>6. AhciPages(p) /\ AhciQueuesAt(p) /\ AhciStopped(p)
    <3>1. ~In(p, AhciAt \ {"general"}) /\ ~In(p, AhciAt \ {"general", "port"})
      BY <1>8 DEF AhciAt
    <3> HIDE DEF In, AhciAt
    <3> QED BY <1>8, <1>9, <2>4, <3>1 DEF AhciPages, AhciQueuesAt, AhciStopped, ports
  <2> QED BY <2>5, <2>6 DEF AhciInv
<1>14. ASSUME NEW p \in Places PROVE XhciInv(p)
  <2> SUFFICES ASSUME function[p].class = "xhci" PROVE XhciInv(p)
    BY DEF XhciInv
  <2>1. PICK r, u, s \in BOOLEAN : hw[p] = XhciRegisters(r, u, s)
    BY <1>7, XhciLeft
  <2>2. hw[p] \in XhciDevice /\ ~hw[p].HCRST
    <3>1. Left \in Operational /\ Nothing \in Operational
          /\ NoInterrupter \in [IE : BOOLEAN, ERSTSZ : Nat, ERSTBA : Nat \X Nat, ERDP : Nat]
      BY DEF Left, Nothing, NoInterrupter, Operational
    <3> HIDE DEF Operational, Left, Nothing, NoInterrupter
    <3> QED BY <2>1, <3>1 DEF XhciRegisters, XhciDevice
  <2>3. XhciPages(p) /\ XhciRegistersAt(p) /\ XhciHalted(p)
    <3> HIDE DEF In
    <3> QED BY <1>8, <1>9, <2>2 DEF XhciPages, XhciRegistersAt, XhciHalted
  <2> QED BY <2>2, <2>3 DEF XhciInv
<1>15. ChainKnown /\ RegistryKnown
  BY <1>3 DEF ChainKnown, RegistryKnown
<1>16. ASSUME NEW p \in Places PROVE NvmeDisksKnown(p) /\ AhciDisksKnown(p)
  <2>1. UnitsOf(p) = {}
    BY <1>3 DEF UnitsOf
  <2>2. NvmeDisksKnown(p)
    <3>1. function[p].class = "nvme" => hw[p].told = {}
      <4> HIDE DEF Before
      <4> QED BY <1>8, <1>12 DEF NvmeInv, NvmeTold
    <3> HIDE DEF UnitsOf
    <3> QED BY <2>1, <3>1 DEF NvmeDisksKnown
  <2>3. AhciDisksKnown(p)
    <3> HIDE DEF UnitsOf, Before
    <3> QED BY <1>8, <2>1 DEF AhciDisksKnown
  <2> QED BY <2>2, <2>3
<1> QED BY <1>5, <1>6, <1>7, <1>10, <1>11, <1>12, <1>13, <1>14, <1>15, <1>16 DEF PcieInv

(* PcieInv holds throughout.                                                *)
LEMMA PcieAlways == PcieSpec => []PcieInv
<1>1. PcieInit => PcieInv
  BY PcieBegins
<1>2. PcieInv /\ [PcieNext]_setupVars => PcieInv'
  BY PcieSteps
<1> QED BY <1>1, <1>2, PTL DEF PcieSpec

-----------------------------------------------------------------------------
(* No controller is switched before it has followed the last switch.        *)
THEOREM SwitchesFollowed == PcieSpec => SwitchedCleanly
<1> DEFINE Clean ==
      \A p \in DOMAIN hw :
        CASE function[p].class = "nvme" -> NvmeSwitched(hw[p], hw'[p])
          [] function[p].class = "xhci" -> XhciSwitched(hw[p], hw'[p])
          [] function[p].class = "ahci" -> AhciSwitched(hw[p], hw'[p])
          [] OTHER -> TRUE
<1>1. PcieInv /\ [PcieNext]_setupVars => [Clean]_setupVars
  <2> SUFFICES ASSUME PcieInv, [PcieNext]_setupVars, NEW p \in DOMAIN hw
               PROVE  CASE function[p].class = "nvme" -> NvmeSwitched(hw[p], hw'[p])
                        [] function[p].class = "xhci" -> XhciSwitched(hw[p], hw'[p])
                        [] function[p].class = "ahci" -> AhciSwitched(hw[p], hw'[p])
                        [] OTHER -> TRUE
    OBVIOUS
  <2>1. SwitchesOne /\ p \in Places
    BY PcieSteps DEF PcieInv
  <2>2. CASE hw'[p] = hw[p]
    BY <2>2, SameSwitched
  <2>3. CASE \/ function[p].class = "nvme" /\ NvmeSwitched(hw[p], hw'[p])
             \/ function[p].class = "xhci" /\ XhciSwitched(hw[p], hw'[p])
             \/ function[p].class = "ahci" /\ AhciSwitched(hw[p], hw'[p])
    BY <2>3
  <2> QED BY <2>1, <2>2, <2>3 DEF SwitchesOne
<1>2. PcieSpec => [][Clean]_setupVars
  BY <1>1, PcieAlways, PTL DEF PcieSpec
<1> QED BY <1>2 DEF SwitchedCleanly

(* The invariant says so of every controller.                               *)
LEMMA ReadyThen == ASSUME PcieInv PROVE ControllersReady
<1>1. PagesApart /\ MachineKnown /\ ChainKnown
  BY DEF PcieInv
<1>2. FoundWhereDecoded
  <2> SUFFICES ASSUME NEW k \in DOMAIN chain, NEW f, f = function[chain[k]], NEW i, i = BaseRegister(f.class),
                      f.address[i].type # 1
               PROVE  driver[chain[k]].base = Decodes(f, i)
    BY DEF FoundWhereDecoded
  <2>1. chain[k] \in Places /\ f.class \in Classes /\ driver[chain[k]].base = BaseAddress(f, i)
    BY <1>1 DEF ChainKnown
  <2>2. AddressAssumption(f.address, i)
    BY <1>1, <2>1, FunctionsKnown
  <2> DEFINE a == f.address[i]
             upper == High * f.address[i + 1].base
  <2>3. a \in [io : BOOLEAN, type : {0, 1, 2}, base : Nat] /\ (a.io => a.type = 0)
    BY <2>2 DEF AddressAssumption
  <2>4. BaseAddress(f, i) = CASE a.io \/ a.type = 0 -> a.base [] a.type = 2 -> a.base + upper [] OTHER -> 0
    BY DEF BaseAddress
  <2>5. Decodes(f, i) = a.base + IF a.type = 2 THEN upper ELSE 0
    BY DEF Decodes
  <2> HIDE DEF a, upper
  <2>6. CASE a.type = 0
    BY <2>1, <2>3, <2>4, <2>5, <2>6
  <2>7. CASE a.type = 2
    <3>1. ~a.io
      BY <2>3, <2>7
    <3> QED BY <2>1, <2>4, <2>5, <2>7, <3>1
  <2>8. a.type # 1
    BY DEF a
  <2> QED BY <2>3, <2>6, <2>7, <2>8
<1>3. ASSUME NEW p \in Places, function[p].class = "xhci" PROVE XhciWorksWith(p)
  <2>1. XhciRegistersAt(p)
    BY <1>3 DEF PcieInv, XhciInv
  <2>2. Field(function[p].capability.slots, 255)
    BY <1>1, <1>3, FunctionsKnown
  <2>3. ContextBytes(function[p].capability.slots) <= SegmentTable
    BY <2>2 DEF Field, ContextBytes, SegmentTable
  <2>4. \A ring : Segment(ring).RSBA = ring
    BY DEF Segment
  <2> QED BY <2>1, <2>3, <2>4 DEF XhciRegistersAt, XhciWorksWith, Names
<1>4. ASSUME NEW p \in Places, function[p].class = "ahci" PROVE AhciWorksWith(p)
  <2>1. AhciQueuesAt(p) /\ DOMAIN hw[p].port = DOMAIN function[p].ports
    BY <1>4 DEF PcieInv, AhciInv, AhciTypes
  <2> QED BY <2>1 DEF AhciQueuesAt, AhciWorksWith, Names
<1>5. ASSUME NEW p \in Places, function[p].class = "nvme" PROVE NvmeWorksWith(p)
  <2>1. NvmeQueuesAt(p)
    BY <1>5 DEF PcieInv, NvmeInv
  <2> QED BY <2>1 DEF NvmeQueuesAt, NvmeWorksWith, Names
<1> QED BY <1>1, <1>2, <1>3, <1>4, <1>5 DEF ControllersReady

(* A controller is found at the address it decodes and works with the pages *)
(* of its record, the array of its scratchpads in one piece, whatever their *)
(* number (xhci.c:159).  No page is lost and none has two uses, with the    *)
(* exception PagesApart names: the page of the identify commands of an NVM  *)
(* Express controller whose set-up is over is its submission queue and went *)
(* back to the allocator (nvme.c:355), which may give it to a later         *)
(* controller.                                                              *)
THEOREM ReadyControllers == PcieSpec => []ControllersReady
<1>1. PcieInv => ControllersReady
  BY ReadyThen
<1> QED BY <1>1, PcieAlways, PTL

(* Registered is what can be read.                                          *)
LEMMA RegisteredThen == ASSUME PcieInv PROVE DisksRegistered
<1>1. /\ RegistryKnown /\ BootTypes /\ registry \in Seq(Disk)
      /\ \A p \in Places : NvmeDisksKnown(p) /\ AhciDisksKnown(p)
  BY DEF PcieInv, RegistryKnown
<1>2. ASSUME NEW p \in Places, Passed(p) PROVE ~Before(p) /\ \A S : ~In(p, S)
  <2>1. p \in Nat /\ Here \in Nat /\ Here > p
    BY <1>1, <1>2, NumbersPlaces DEF BootTypes, Passed, Here
  <2> QED BY <2>1 DEF Before, In
<1>3. ASSUME NEW p \in Places, function[p].class = "nvme" PROVE NvmeRegistered(p)
  <2> HIDE DEF NvmeDisk, Before, In
  <2>1. NvmeDisksKnown(p)
    BY <1>1
  <2> QED BY <1>2, <1>3, <2>1 DEF NvmeDisksKnown, NvmeRegistered, Listed
<1>4. ASSUME NEW p \in Places, function[p].class = "ahci" PROVE AhciRegistered(p)
  <2> HIDE DEF AhciDisk, Before, In, UnitsOf
  <2>1. AhciDisksKnown(p)
    BY <1>1
  <2> QED BY <1>2, <1>4, <2>1 DEF AhciDisksKnown, AhciRegistered, Listed
<1>5. ASSUME NEW p \in Places, function[p].class \notin {"nvme", "ahci"} PROVE UnitsOf(p) = {}
  <2> HIDE DEF Before, Reached
  <2> QED BY <1>1, <1>5 DEF RegistryKnown, UnitsOf
<1>6. \A k, l \in DOMAIN registry :
        registry[k].place = registry[l].place /\ registry[k].unit = registry[l].unit => k = l
  BY <1>1 DEF RegistryKnown
<1> QED BY <1>3, <1>4, <1>5, <1>6 DEF DisksRegistered

THEOREM RegisteredDisks == PcieSpec => []DisksRegistered
<1>1. PcieInv => DisksRegistered
  BY RegisteredThen
<1> QED BY <1>1, PcieAlways, PTL

-----------------------------------------------------------------------------
(* The memory map.  What a map tells of a page, by the entries of I.        *)
MapEntry == [base : Nat, size : Nat \ {0}, type : STRING]
MapRegion == [base : Nat, size : Nat \ {0}, type : 1 .. 3]

Tells(map, I, x, t) == \E k \in I : x \in PagesOf(map[k]) /\ map[k].type = t

InOrder(map, I) == \A k, n \in I : k < n => End(map[k]) <= map[n].base

NoneTwice(map, I) == \A k, n \in I : k # n => End(map[k]) <= map[n].base \/ End(map[n]) <= map[k].base

MapTypes ==
  /\ firmware \in Maps /\ loaderMap \in Seq(MapEntry) /\ loaderMap # <<>>
  /\ stage \in {"sort", "compact", "convert", "kernel"} /\ cursor \in Nat \ {0} /\ merged \in Nat \ {0}
  /\ kernelMap \in Seq(MapRegion) /\ given \in Seq(MapRegion)
  /\ stage \in {"sort", "convert"} => cursor <= Len(loaderMap) + 1
  /\ stage = "compact" => merged <= cursor /\ cursor <= Len(loaderMap)
  /\ stage = "kernel" => cursor <= Len(kernelMap) + 1
  /\ stage \in {"sort", "compact"} => kernelMap = <<>>
  /\ stage = "convert" => (kernelMap = <<>> <=> cursor = 1)
  /\ stage # "kernel" => given = <<>>

(* The entries that count while the map is compacted: those it has merged   *)
(* to and those it has still to look at.                                    *)
Counts ==
  IF stage = "compact" THEN (1 .. merged) \cup (cursor + 1 .. Len(loaderMap)) ELSE 1 .. Len(loaderMap)

(* They tell what the firmware told, and are in order when they are sorted. *)
MapSame == \A x \in Nat, t \in STRING : Tells(loaderMap, Counts, x, t) <=> Tells(firmware, DOMAIN firmware, x, t)

MapOrder ==
  IF stage = "sort"
  THEN /\ NoneTwice(loaderMap, 1 .. Len(loaderMap))
       /\ \A k \in 1 .. cursor - 1 : \A n \in k + 1 .. Len(loaderMap) : loaderMap[k].base <= loaderMap[n].base
  ELSE InOrder(loaderMap, Counts)

(* The pages a region stands for: region 0 says it starts at 0, and has the *)
(* size of what it was made of.                                             *)
RealBase(j) == IF j = 1 THEN loaderMap[1].base ELSE kernelMap[j].base
RealEnd(j) == RealBase(j) + kernelMap[j].size
RealPages(j) == RealBase(j) .. RealEnd(j) - 1

EntriesRead == IF stage = "convert" THEN cursor - 1 ELSE Len(loaderMap)

MadeOf(j, x) ==
  \E k \in 1 .. EntriesRead :
    /\ x \in PagesOf(loaderMap[k]) /\ Region(loaderMap[k]).type = kernelMap[j].type
    /\ j > 1 => kernelMap[j].base <= loaderMap[k].base

(* The regions are in order and stand for the entries read, each for those  *)
(* of its own type.                                                         *)
RegionsKnown ==
  stage \in {"convert", "kernel"} =>
    /\ kernelMap # <<>> => kernelMap[1].base = 0
    /\ \A j, l \in DOMAIN kernelMap : j < l => RealEnd(j) <= kernelMap[l].base
    /\ \A j \in DOMAIN kernelMap : \A k \in EntriesRead + 1 .. Len(loaderMap) : RealEnd(j) <= loaderMap[k].base
    /\ \A j \in DOMAIN kernelMap : \A x \in RealPages(j) : MadeOf(j, x)
    /\ \A k \in 1 .. EntriesRead : \E j \in DOMAIN kernelMap :
         PagesOf(loaderMap[k]) \subseteq RealPages(j) /\ kernelMap[j].type = Region(loaderMap[k]).type

(* The allocator was given the free regions above 1 MB, in their order.     *)
ToGive(j) == kernelMap[j].base >= Meg /\ kernelMap[j].type = Free

GivenKnown ==
  stage = "kernel" =>
    /\ \A g \in DOMAIN given : \E j \in 1 .. cursor - 1 : given[g] = kernelMap[j] /\ ToGive(j)
    /\ \A j \in 1 .. cursor - 1 : ToGive(j) => \E g \in DOMAIN given : given[g] = kernelMap[j]
    /\ \A g, h \in DOMAIN given : g < h => End(given[g]) <= given[h].base

MapInv == MapTypes /\ MapSame /\ MapOrder /\ RegionsKnown /\ GivenKnown

LEMMA MapBegins == ASSUME MapInit PROVE MapInv
<1>1. /\ firmware \in Maps /\ loaderMap = firmware /\ stage = "sort" /\ cursor = 1 /\ merged = 1
      /\ kernelMap = <<>> /\ given = <<>>
  BY DEF MapInit
<1>2. /\ firmware # <<>> /\ firmware \in Seq(MapEntry)
      /\ \A k, n \in DOMAIN firmware :
           k # n => firmware[k].base + firmware[k].size <= firmware[n].base \/ firmware[n].base + firmware[n].size <= firmware[k].base
  BY <1>1, MapsAssumption DEF MapEntry
<1>3. Len(loaderMap) \in Nat /\ DOMAIN firmware = 1 .. Len(loaderMap)
  BY <1>1, <1>2
<1>4. MapTypes
  BY <1>1, <1>2, <1>3 DEF MapTypes
<1>5. MapSame
  BY <1>1, <1>3 DEF MapSame, Counts
<1>6. MapOrder
  BY <1>1, <1>2, <1>3 DEF MapOrder, NoneTwice, End
<1> QED BY <1>1, <1>4, <1>5, <1>6 DEF MapInv, RegionsKnown, GivenKnown

-----------------------------------------------------------------------------
(* The sort.                                                                *)
LEMMA LowestFound ==
  ASSUME loaderMap \in Seq(MapEntry), NEW c \in 1 .. Len(loaderMap)
  PROVE  LowestFrom(c) \in c .. Len(loaderMap) /\ \A n \in c .. Len(loaderMap) : loaderMap[LowestFrom(c)].base <= loaderMap[n].base
<1> DEFINE len == Len(loaderMap)
           base(k) == loaderMap[k].base
           bases == {base(k) : k \in c .. len}
<1>1. len \in Nat /\ \A k \in c .. len : base(k) \in Nat
  <2>1. len \in Nat /\ \A k \in c .. len : loaderMap[k] \in MapEntry
    OBVIOUS
  <2> QED BY <2>1 DEF MapEntry
<1>2. c \in c .. len
  BY <1>1
<1>3. bases \in SUBSET Nat /\ bases # {}
  BY <1>1, <1>2
<1>4. PICK b \in bases : \A y \in bases : b <= y
  <2> HIDE DEF bases
  <2> QED BY <1>3, LeastNumber
<1> DEFINE lowest == {k \in c .. len : base(k) = b}
<1>5. lowest \in SUBSET Nat /\ lowest # {}
  BY <1>1, <1>4
<1>6. PICK m \in lowest : \A y \in lowest : m <= y
  <2> HIDE DEF lowest
  <2> QED BY <1>5, LeastNumber
<1>7. m \in c .. len /\ base(m) = b /\ \A n \in c .. len : base(m) < base(n) \/ (base(m) = base(n) /\ m <= n)
  <2>1. m \in c .. len /\ base(m) = b
    OBVIOUS
  <2> SUFFICES ASSUME NEW n \in c .. len PROVE base(m) < base(n) \/ (base(m) = base(n) /\ m <= n)
    BY <2>1
  <2>2. b <= base(n)
    BY <1>4
  <2>3. base(n) = b => m <= n
    BY <1>6
  <2> HIDE DEF base, lowest, bases
  <2> QED BY <1>1, <2>1, <2>2, <2>3
<1>8. \E k \in c .. len : \A n \in c .. len :
        \/ loaderMap[k].base < loaderMap[n].base
        \/ loaderMap[k].base = loaderMap[n].base /\ k <= n
  BY <1>7
<1>9. LowestFrom(c) \in c .. len /\ \A n \in c .. len :
        \/ loaderMap[LowestFrom(c)].base < loaderMap[n].base
        \/ loaderMap[LowestFrom(c)].base = loaderMap[n].base /\ LowestFrom(c) <= n
  <2> HIDE DEF len
  <2> QED BY <1>8 DEF LowestFrom, len
<1> HIDE DEF base, len, lowest, bases
<1>10. ASSUME NEW n \in c .. len PROVE base(LowestFrom(c)) <= base(n)
  <2>1. base(LowestFrom(c)) \in Nat /\ base(n) \in Nat
    BY <1>1, <1>9
  <2>2. base(LowestFrom(c)) < base(n) \/ base(LowestFrom(c)) = base(n)
    BY <1>9 DEF base
  <2> QED BY <2>1, <2>2
<1> QED BY <1>9, <1>10 DEF len, base

LEMMA SortKeeps == ASSUME MapInv, SortMemoryMap PROVE MapInv'
<1> DEFINE c == cursor
           len == Len(loaderMap)
           m == LowestFrom(c)
<1>1. /\ stage = "sort" /\ c \in Nat \ {0} /\ c <= len + 1 /\ len \in Nat \ {0} /\ loaderMap \in Seq(MapEntry)
      /\ firmware' = firmware /\ kernelMap' = kernelMap /\ given' = given /\ kernelMap = <<>> /\ given = <<>>
      /\ firmware \in Maps /\ merged \in Nat \ {0}
  BY DEF SortMemoryMap, MapInv, MapTypes
<1>2. /\ NoneTwice(loaderMap, 1 .. len)
      /\ \A k \in 1 .. c - 1 : \A n \in k + 1 .. len : loaderMap[k].base <= loaderMap[n].base
      /\ \A x \in Nat, t \in STRING : Tells(loaderMap, 1 .. len, x, t) <=> Tells(firmware, DOMAIN firmware, x, t)
  BY <1>1 DEF MapInv, MapOrder, MapSame, Counts
<1>3. CASE c > len
  <2>1. stage' = "compact" /\ cursor' = 1 /\ merged' = 1 /\ loaderMap' = loaderMap
    BY <1>3 DEF SortMemoryMap, GoOn
  <2>2. Counts' = 1 .. len
    BY <1>1, <2>1 DEF Counts
  <2>3. ASSUME NEW k \in 1 .. len, NEW n \in 1 .. len, k < n PROVE End(loaderMap[k]) <= loaderMap[n].base
    <3>1. loaderMap[k] \in MapEntry /\ loaderMap[n] \in MapEntry
      BY <1>1
    <3>2. loaderMap[k].base <= loaderMap[n].base
      BY <1>1, <1>2, <1>3, <2>3
    <3>3. End(loaderMap[k]) <= loaderMap[n].base \/ End(loaderMap[n]) <= loaderMap[k].base
      BY <1>2, <2>3 DEF NoneTwice
    <3> QED BY <3>1, <3>2, <3>3 DEF End, MapEntry
  <2>4. MapTypes'
    BY <1>1, <2>1 DEF MapTypes, MapInv
  <2>5. MapSame'
    BY <1>1, <1>2, <2>1, <2>2 DEF MapSame
  <2>6. MapOrder'
    BY <2>1, <2>2, <2>3 DEF MapOrder, InOrder
  <2> QED BY <2>1, <2>4, <2>5, <2>6 DEF MapInv, RegionsKnown, GivenKnown
<1>4. CASE c <= len
  <2>1. /\ loaderMap' = [loaderMap EXCEPT ![c] = loaderMap[m], ![m] = loaderMap[c]]
        /\ cursor' = c + 1 /\ stage' = "sort" /\ merged' = merged
    BY <1>1, <1>4 DEF SortMemoryMap
  <2>2. m \in c .. len /\ \A n \in c .. len : loaderMap[m].base <= loaderMap[n].base
    BY <1>1, <1>4, LowestFound
  <2> HIDE DEF m
  <2> DEFINE from(k) == IF k = c THEN m ELSE IF k = m THEN c ELSE k
  <2>3. /\ c \in 1 .. len /\ m \in 1 .. len
        /\ \A k \in 1 .. len : from(k) \in 1 .. len /\ from(from(k)) = k
        /\ \A k, n \in 1 .. len : from(k) = from(n) => k = n
    BY <1>1, <1>4, <2>2
  <2>4. DOMAIN loaderMap = 1 .. len /\ \A k \in 1 .. len : loaderMap[k] \in MapEntry
    BY <1>1
  <2>5. DOMAIN loaderMap' = 1 .. len /\ \A k \in 1 .. len : loaderMap'[k] = loaderMap[from(k)]
    BY <2>1, <2>3, <2>4
  <2>6. loaderMap' \in Seq(MapEntry) /\ Len(loaderMap') = len
    BY <1>1, <2>1, <2>3, <2>4
  <2>7. Counts' = 1 .. len
    BY <2>1, <2>6 DEF Counts
  <2> HIDE DEF len, c, from
  <2>8. MapTypes'
    <3>1. loaderMap' # <<>> /\ cursor' \in Nat \ {0} /\ cursor' <= len + 1
      BY <1>1, <1>4, <2>1, <2>6
    <3> QED BY <1>1, <2>1, <2>6, <3>1 DEF MapTypes
  <2>9. MapSame'
    <3> SUFFICES ASSUME NEW x \in Nat, NEW t \in STRING
                 PROVE  Tells(loaderMap', 1 .. len, x, t) <=> Tells(firmware, DOMAIN firmware, x, t)
      BY <1>1, <2>7 DEF MapSame
    <3>1. Tells(loaderMap', 1 .. len, x, t) => Tells(loaderMap, 1 .. len, x, t)
      BY <2>3, <2>5 DEF Tells
    <3>2. Tells(loaderMap, 1 .. len, x, t) => Tells(loaderMap', 1 .. len, x, t)
      <4> SUFFICES ASSUME NEW k \in 1 .. len, x \in PagesOf(loaderMap[k]), loaderMap[k].type = t
                   PROVE  Tells(loaderMap', 1 .. len, x, t)
        BY DEF Tells
      <4>1. from(k) \in 1 .. len /\ loaderMap'[from(k)] = loaderMap[k]
        BY <2>3, <2>5
      <4> QED BY <4>1 DEF Tells
    <3> QED BY <1>2, <3>1, <3>2
  <2>10. NoneTwice(loaderMap', 1 .. len)
    BY <1>2, <2>3, <2>5 DEF NoneTwice
  <2>11. ASSUME NEW k \in 1 .. cursor' - 1, NEW n \in k + 1 .. len PROVE loaderMap'[k].base <= loaderMap'[n].base
    <3>1. /\ k \in Nat /\ n \in Nat /\ k >= 1 /\ n >= k + 1 /\ n <= len /\ k <= c /\ k \in 1 .. len /\ n \in 1 .. len
      BY <1>1, <1>4, <2>1, <2>11 DEF c
    <3>2. loaderMap'[k] = loaderMap[from(k)] /\ loaderMap'[n] = loaderMap[from(n)]
      BY <2>5, <3>1
    <3>3. CASE k < c
      <4>1. from(k) = k /\ from(n) \in k + 1 .. len /\ k \in 1 .. c - 1
        BY <1>1, <2>2, <3>1, <3>3 DEF from
      <4> QED BY <1>2, <3>2, <4>1
    <3>4. CASE k = c
      <4>1. from(k) = m /\ from(n) \in c .. len
        BY <1>1, <2>2, <3>1, <3>4 DEF from
      <4> QED BY <2>2, <3>2, <4>1
    <3> QED BY <1>1, <3>1, <3>3, <3>4
  <2>12. MapOrder'
    BY <2>1, <2>6, <2>10, <2>11 DEF MapOrder
  <2> QED BY <1>1, <2>1, <2>8, <2>9, <2>12 DEF MapInv, RegionsKnown, GivenKnown
<1> QED BY <1>1, <1>3, <1>4

-----------------------------------------------------------------------------
(* The compaction.                                                          *)
LEMMA CompactKeeps == ASSUME MapInv, CompactMemoryMap PROVE MapInv'
<1> DEFINE c == cursor
           m == merged
           len == Len(loaderMap)
<1>1. /\ stage = "compact" /\ c \in Nat \ {0} /\ m \in Nat \ {0} /\ m <= c /\ c <= len /\ len \in Nat
      /\ loaderMap \in Seq(MapEntry) /\ firmware' = firmware /\ kernelMap' = kernelMap /\ given' = given
      /\ kernelMap = <<>> /\ given = <<>> /\ firmware \in Maps
  BY DEF CompactMemoryMap, MapInv, MapTypes
<1> DEFINE old == (1 .. m) \cup (c + 1 .. len)
<1>2. /\ InOrder(loaderMap, old)
      /\ \A x \in Nat, t \in STRING : Tells(loaderMap, old, x, t) <=> Tells(firmware, DOMAIN firmware, x, t)
  BY <1>1 DEF MapInv, MapOrder, MapSame, Counts
<1>3. DOMAIN loaderMap = 1 .. len /\ \A k \in 1 .. len : loaderMap[k] \in MapEntry
  BY <1>1
<1>4. CASE c >= len
  <2>1. stage' = "convert" /\ cursor' = 1 /\ merged' = 1 /\ loaderMap' = SubSeq(loaderMap, 1, m)
    BY <1>4 DEF CompactMemoryMap, GoOn
  <2>2. /\ loaderMap' \in Seq(MapEntry) /\ Len(loaderMap') = m /\ \A k \in 1 .. m : loaderMap'[k] = loaderMap[k]
    BY <1>1, <1>3, <2>1
  <2>3. Counts' = 1 .. m /\ old = 1 .. m
    BY <1>1, <1>4, <2>1, <2>2 DEF Counts
  <2>4. loaderMap' # <<>>
    BY <1>1, <2>2
  <2>5. MapTypes'
    BY <1>1, <2>1, <2>2, <2>4 DEF MapTypes
  <2> HIDE DEF old
  <2>6. ASSUME NEW x, NEW t PROVE Tells(loaderMap', 1 .. m, x, t) <=> Tells(loaderMap, 1 .. m, x, t)
    BY <2>2 DEF Tells
  <2>7. MapSame'
    BY <1>1, <1>2, <2>3, <2>6 DEF MapSame
  <2>8. MapOrder'
    BY <1>2, <2>1, <2>2, <2>3 DEF MapOrder, InOrder
  <2>9. RegionsKnown'
    BY <1>1, <2>1 DEF RegionsKnown, EntriesRead
  <2> QED BY <2>1, <2>5, <2>7, <2>8, <2>9 DEF MapInv, GivenKnown
<1>5. CASE c < len
  <2> DEFINE e == loaderMap[c + 1]
             at == loaderMap[m]
             new == Counts'
  <2>1. /\ cursor' = c + 1 /\ stage' = "compact"
        /\ \/ /\ e.type = at.type /\ End(at) = e.base
              /\ loaderMap' = [loaderMap EXCEPT ![m].size = @ + e.size] /\ merged' = m
           \/ loaderMap' = [loaderMap EXCEPT ![m + 1] = e] /\ merged' = m + 1
    BY <1>1, <1>5 DEF CompactMemoryMap
  <2>2. /\ e \in MapEntry /\ at \in MapEntry /\ c + 1 \in 1 .. len /\ m \in 1 .. len /\ m + 1 \in 1 .. len
        /\ c + 1 \in old /\ m \in old /\ m < c + 1
    BY <1>1, <1>3, <1>5
  <2>3. CASE /\ e.type = at.type /\ End(at) = e.base
             /\ loaderMap' = [loaderMap EXCEPT ![m].size = @ + e.size] /\ merged' = m
    <3> DEFINE both == [base |-> at.base, size |-> at.size + e.size, type |-> at.type]
    <3>1. at = [base |-> at.base, size |-> at.size, type |-> at.type]
      BY <2>2 DEF MapEntry
    <3>2. loaderMap' = [loaderMap EXCEPT ![m] = both]
      <4>1. loaderMap' = [loaderMap EXCEPT ![m] = [at EXCEPT !.size = at.size + e.size]]
        BY <2>3
      <4> HIDE DEF at, e
      <4>2. [at EXCEPT !.size = at.size + e.size] = both
        BY ONLY <3>1
      <4> QED BY <4>1, <4>2
    <3>3. both \in MapEntry /\ End(both) = End(e) /\ PagesOf(both) = PagesOf(at) \cup PagesOf(e)
          /\ both.base = at.base /\ both.type = at.type
      <4>1. /\ at.base \in Nat /\ at.size \in Nat \ {0} /\ e.base \in Nat /\ e.size \in Nat \ {0}
            /\ at.type \in STRING /\ at.base + at.size = e.base
        BY <2>2, <2>3 DEF MapEntry, End
      <4> HIDE DEF at, e
      <4>2. both \in MapEntry /\ both.base = at.base /\ both.size = at.size + e.size /\ both.type = at.type
        BY <4>1 DEF MapEntry
      <4> HIDE DEF both
      <4> DEFINE last == e.base + e.size - 1
      <4>3. End(both) = End(e)
        BY <4>1, <4>2 DEF End
      <4>4. /\ End(both) - 1 = last /\ End(at) - 1 = e.base - 1 /\ End(e) - 1 = last
            /\ last \in Int /\ e.base <= last + 1
        BY <4>1, <4>2 DEF End
      <4>5. PagesOf(both) = at.base .. last /\ PagesOf(at) = at.base .. e.base - 1 /\ PagesOf(e) = e.base .. last
        <5> HIDE DEF last
        <5> QED BY <4>2, <4>4 DEF PagesOf
      <4> HIDE DEF last
      <4>6. at.base .. last = (at.base .. e.base - 1) \cup (e.base .. last)
        BY <4>1, <4>4
      <4> QED BY <4>2, <4>3, <4>5, <4>6
    <3> HIDE DEF both
    <3>4. /\ loaderMap' \in Seq(MapEntry) /\ Len(loaderMap') = len /\ loaderMap'[m] = both
          /\ \A k \in (1 .. len) \ {m} : loaderMap'[k] = loaderMap[k]
      BY <1>1, <1>3, <2>2, <3>2, <3>3
    <3>5. new = old \ {c + 1} /\ new \subseteq 1 .. len /\ m \in new
      BY <1>1, <1>5, <2>1, <2>3, <3>4 DEF Counts
    <3>6. InOrder(loaderMap', new)
      <4> SUFFICES ASSUME NEW k \in new, NEW n \in new, k < n PROVE End(loaderMap'[k]) <= loaderMap'[n].base
        BY DEF InOrder
      <4>1. loaderMap'[n].base = loaderMap[n].base
        BY <3>3, <3>4, <3>5
      <4>2. CASE k = m
        <5>1. n \in old /\ c + 1 < n
          BY <1>1, <1>5, <3>5, <4>2
        <5>2. End(e) <= loaderMap[n].base
          BY <1>2, <2>2, <5>1 DEF InOrder
        <5> QED BY <3>3, <3>4, <4>1, <4>2, <5>2
      <4>3. CASE k # m
        BY <1>2, <3>4, <3>5, <4>1, <4>3 DEF InOrder
      <4> QED BY <4>2, <4>3
    <3>7. ASSUME NEW x, NEW t PROVE Tells(loaderMap', new, x, t) <=> Tells(loaderMap, old, x, t)
      <4>1. ASSUME NEW k \in new, x \in PagesOf(loaderMap'[k]), loaderMap'[k].type = t
            PROVE  Tells(loaderMap, old, x, t)
        <5>1. CASE k = m
          <6>1. x \in PagesOf(at) \/ x \in PagesOf(e)
            BY <3>3, <3>4, <4>1, <5>1
          <6>2. at.type = t /\ e.type = t
            BY <2>3, <3>3, <3>4, <4>1, <5>1
          <6> HIDE DEF old
          <6> QED BY <2>2, <6>1, <6>2 DEF Tells
        <5>2. CASE k # m
          BY <3>4, <3>5, <4>1, <5>2 DEF Tells
        <5> QED BY <5>1, <5>2
      <4>2. ASSUME NEW k \in old, x \in PagesOf(loaderMap[k]), loaderMap[k].type = t
            PROVE  Tells(loaderMap', new, x, t)
        <5>1. CASE k \in {m, c + 1}
          <6>1. x \in PagesOf(both) /\ both.type = t
            BY <2>3, <3>3, <4>2, <5>1
          <6> QED BY <3>4, <3>5, <6>1 DEF Tells
        <5>2. CASE k \notin {m, c + 1}
          <6>1. k \in new /\ k \in (1 .. len) \ {m}
            BY <3>5, <5>2
          <6> QED BY <3>4, <4>2, <6>1 DEF Tells
        <5> QED BY <5>1, <5>2
      <4> QED BY <4>1, <4>2 DEF Tells
    <3>8. MapTypes'
      <4>1. /\ loaderMap' # <<>> /\ cursor' \in Nat \ {0} /\ merged' \in Nat \ {0} /\ merged' <= cursor' /\ cursor' <= len
        BY <1>1, <1>5, <2>1, <2>3, <3>4
      <4> QED BY <1>1, <2>1, <3>4, <4>1 DEF MapTypes
    <3> HIDE DEF new, old
    <3>9. MapSame'
      BY <1>1, <1>2, <3>7 DEF MapSame, new
    <3>10. MapOrder'
      BY <2>1, <3>6 DEF MapOrder, new
    <3> QED BY <2>1, <3>8, <3>9, <3>10 DEF MapInv, RegionsKnown, GivenKnown
  <2>4. CASE loaderMap' = [loaderMap EXCEPT ![m + 1] = e] /\ merged' = m + 1
    <3>1. /\ loaderMap' \in Seq(MapEntry) /\ Len(loaderMap') = len /\ loaderMap'[m + 1] = e
          /\ \A k \in (1 .. len) \ {m + 1} : loaderMap'[k] = loaderMap[k]
      BY <1>1, <1>3, <2>2, <2>4
    <3> DEFINE from(k) == IF k = m + 1 THEN c + 1 ELSE k
    <3>2. new = (1 .. m + 1) \cup (c + 2 .. len)
      BY <1>1, <1>5, <2>1, <2>4, <3>1 DEF Counts
    <3>3. /\ \A k \in new : from(k) \in old /\ loaderMap'[k] = loaderMap[from(k)]
          /\ \A k, n \in new : k < n => from(k) < from(n)
          /\ \A k \in old : \E n \in new : from(n) = k
      <4>1. ASSUME NEW k \in new PROVE from(k) \in old /\ loaderMap'[k] = loaderMap[from(k)]
        BY <1>1, <1>5, <2>2, <3>1, <3>2
      <4>2. ASSUME NEW k \in new, NEW n \in new, k < n PROVE from(k) < from(n)
        BY <1>1, <1>5, <3>2, <4>2
      <4>3. ASSUME NEW k \in old PROVE \E n \in new : from(n) = k
        <5>1. CASE k = c + 1
          BY <1>1, <3>2, <5>1
        <5>2. CASE k # c + 1
          <6>1. k \in new /\ k # m + 1
            BY <1>1, <3>2, <5>2
          <6> QED BY <6>1
        <5> QED BY <5>1, <5>2
      <4> QED BY <4>1, <4>2, <4>3
    <3> HIDE DEF new, old, from
    <3>4. InOrder(loaderMap', new)
      BY <1>2, <3>3 DEF InOrder
    <3>5. ASSUME NEW x, NEW t PROVE Tells(loaderMap', new, x, t) <=> Tells(loaderMap, old, x, t)
      <4>1. ASSUME NEW k \in old, x \in PagesOf(loaderMap[k]), loaderMap[k].type = t
            PROVE  Tells(loaderMap', new, x, t)
        <5>1. PICK n \in new : from(n) = k
          BY <3>3
        <5> QED BY <3>3, <4>1, <5>1 DEF Tells
      <4> QED BY <3>3, <4>1 DEF Tells
    <3>6. MapTypes'
      <4>1. /\ loaderMap' # <<>> /\ cursor' \in Nat \ {0} /\ merged' \in Nat \ {0} /\ merged' <= cursor' /\ cursor' <= len
        BY <1>1, <1>5, <2>1, <2>4, <3>1
      <4> QED BY <1>1, <2>1, <3>1, <4>1 DEF MapTypes
    <3>7. MapSame'
      BY <1>1, <1>2, <3>5 DEF MapSame, new
    <3>8. MapOrder'
      BY <2>1, <3>4 DEF MapOrder, new
    <3> QED BY <2>1, <3>6, <3>7, <3>8 DEF MapInv, RegionsKnown, GivenKnown
  <2> QED BY <2>1, <2>3, <2>4
<1> QED BY <1>1, <1>4, <1>5

-----------------------------------------------------------------------------
(* The conversion.                                                          *)
LEMMA RegionOf ==
  ASSUME NEW e \in MapEntry
  PROVE  /\ Region(e) \in MapRegion /\ Region(e).base = e.base /\ Region(e).size = e.size
         /\ PagesOf(Region(e)) = PagesOf(e) /\ End(Region(e)) = End(e)
<1>1. e.base \in Nat /\ e.size \in Nat \ {0} /\ (IF e.base < Low THEN Free ELSE TypeOf(e.type)) \in 1 .. 3
  BY DEF MapEntry, Free, TypeOf
<1> DEFINE r == Region(e)
<1>2. r \in MapRegion /\ r.base = e.base /\ r.size = e.size
  BY <1>1 DEF MapRegion, Region
<1> HIDE DEF r
<1>3. PagesOf(r) = PagesOf(e) /\ End(r) = End(e)
  BY <1>2 DEF PagesOf, End
<1> QED BY <1>2, <1>3 DEF r

(* Pages of regions one of which is made longer.                            *)
LEMMA LongerRange ==
  ASSUME NEW b \in Nat, NEW n \in Nat, NEW m \in Nat
  PROVE  b .. (b + (n + m)) - 1 = (b .. b + n - 1) \cup (b + n .. b + n + m - 1)
OBVIOUS

(* The regions with one more entry, e, which is the region r.               *)
LEMMA ConvertStep == ASSUME MapInv, Convert, NEW n, n = Len(kernelMap) PROVE MapInv'
<1> DEFINE c == cursor
           len == Len(loaderMap)
           e == loaderMap[c]
           r == Region(e)
<1>1. /\ stage = "convert" /\ c \in Nat \ {0} /\ c <= len /\ len \in Nat /\ cursor' = c + 1 /\ merged \in Nat \ {0}
      /\ loaderMap \in Seq(MapEntry) /\ firmware \in Maps /\ given = <<>> /\ kernelMap \in Seq(MapRegion)
      /\ UNCHANGED <<firmware, loaderMap, stage, merged, given>> /\ (kernelMap = <<>> <=> c = 1) /\ loaderMap # <<>>
  BY DEF Convert, MapInv, MapTypes
<1>2. /\ DOMAIN loaderMap = 1 .. len /\ \A k \in 1 .. len : loaderMap[k] \in MapEntry
      /\ DOMAIN kernelMap = 1 .. n /\ n \in Nat /\ \A j \in 1 .. n : kernelMap[j] \in MapRegion
  BY <1>1
<1>3. /\ InOrder(loaderMap, 1 .. len) /\ EntriesRead = c - 1 /\ EntriesRead' = c /\ Counts = 1 .. len /\ Counts' = Counts
  BY <1>1 DEF MapInv, MapOrder, Counts, EntriesRead
<1>4. /\ kernelMap # <<>> => kernelMap[1].base = 0
      /\ \A j, l \in 1 .. n : j < l => RealEnd(j) <= kernelMap[l].base
      /\ \A j \in 1 .. n : \A k \in c .. len : RealEnd(j) <= loaderMap[k].base
      /\ \A j \in 1 .. n : \A x \in RealPages(j) : MadeOf(j, x)
      /\ \A k \in 1 .. c - 1 : \E j \in 1 .. n :
           PagesOf(loaderMap[k]) \subseteq RealPages(j) /\ kernelMap[j].type = Region(loaderMap[k]).type
  <2>1. c - 1 + 1 = c
    BY <1>1
  <2> QED BY <1>1, <1>2, <1>3, <2>1 DEF MapInv, RegionsKnown
<1>5. /\ e \in MapEntry /\ r \in MapRegion /\ r.base = e.base /\ r.size = e.size /\ PagesOf(r) = PagesOf(e) /\ End(r) = End(e)
      /\ e.base \in Nat /\ e.size \in Nat \ {0}
  BY <1>1, <1>2, RegionOf DEF MapEntry
<1>6. \A k \in c + 1 .. len : End(e) <= loaderMap[k].base
  BY <1>1, <1>3 DEF InOrder
(* What is left to show of the new regions: the last one, at l, now ends    *)
(* with the entry.                                                          *)
<1> DEFINE Goal ==
      /\ kernelMap' \in Seq(MapRegion) /\ kernelMap' # <<>> /\ kernelMap'[1].base = 0
      /\ \A j, l \in DOMAIN kernelMap' : j < l => RealEnd(j)' <= kernelMap'[l].base
      /\ \A j \in DOMAIN kernelMap' : RealEnd(j)' <= End(e)
      /\ \A j \in DOMAIN kernelMap' : \A x \in RealPages(j)' :
           \/ x \in PagesOf(e) /\ r.type = kernelMap'[j].type /\ (j > 1 => kernelMap'[j].base <= e.base)
           \/ /\ j \in 1 .. n /\ x \in RealPages(j)
              /\ kernelMap'[j].base = kernelMap[j].base /\ kernelMap'[j].type = kernelMap[j].type
      /\ \A j \in 1 .. n : j \in DOMAIN kernelMap' /\ RealPages(j) \subseteq RealPages(j)' /\ kernelMap'[j].type = kernelMap[j].type
      /\ \E j \in DOMAIN kernelMap' : PagesOf(e) \subseteq RealPages(j)' /\ kernelMap'[j].type = r.type
<1>7. ASSUME Goal PROVE MapInv'
  <2> HIDE DEF e, r
  <2>1. MapTypes'
    <3>1. cursor' \in Nat \ {0} /\ cursor' <= len + 1 /\ cursor' # 1
      BY <1>1
    <3> QED BY <1>1, <1>7, <3>1 DEF MapTypes
  <2>2. MapSame' /\ MapOrder'
    BY <1>1, <1>3 DEF MapInv, MapSame, MapOrder
  <2>3. RegionsKnown'
    <3> DEFINE map == kernelMap'
    <3>1. ASSUME NEW j \in DOMAIN map, NEW k \in c + 1 .. len PROVE RealEnd(j)' <= loaderMap[k].base
      <4>1. /\ map[j] \in MapRegion /\ loaderMap[1] \in MapEntry /\ loaderMap[k] \in MapEntry /\ End(e) <= loaderMap[k].base
            /\ RealEnd(j)' <= End(e)
        BY <1>1, <1>2, <1>6, <1>7
      <4>2. RealEnd(j)' = (IF j = 1 THEN loaderMap[1].base ELSE map[j].base) + map[j].size
        BY <1>1 DEF RealEnd, RealBase
      <4> QED BY <1>5, <4>1, <4>2 DEF End, MapRegion, MapEntry
    <3>2. ASSUME NEW j \in DOMAIN map, NEW x \in RealPages(j)' PROVE MadeOf(j, x)'
      <4>1. CASE x \in PagesOf(e) /\ r.type = map[j].type /\ (j > 1 => map[j].base <= e.base)
        <5>1. c \in 1 .. c
          BY <1>1
        <5> QED BY <1>1, <1>3, <4>1, <5>1 DEF MadeOf, e, r
      <4>2. CASE /\ j \in 1 .. n /\ x \in RealPages(j)
                 /\ map[j].base = kernelMap[j].base /\ map[j].type = kernelMap[j].type
        <5>1. PICK k \in 1 .. c - 1 : /\ x \in PagesOf(loaderMap[k]) /\ Region(loaderMap[k]).type = kernelMap[j].type
                                      /\ j > 1 => kernelMap[j].base <= loaderMap[k].base
          BY <1>3, <1>4, <4>2 DEF MadeOf
        <5>2. k \in 1 .. c
          BY <1>1
        <5> QED BY <1>1, <1>3, <4>2, <5>1, <5>2 DEF MadeOf
      <4> QED BY <1>7, <4>1, <4>2
    <3>3. ASSUME NEW k \in 1 .. c
          PROVE  \E j \in DOMAIN map : PagesOf(loaderMap[k]) \subseteq RealPages(j)' /\ map[j].type = Region(loaderMap[k]).type
      <4>1. CASE k = c
        BY <1>7, <4>1 DEF e, r
      <4>2. CASE k # c
        <5>1. k \in 1 .. c - 1
          BY <1>1, <4>2
        <5>2. PICK j \in 1 .. n : PagesOf(loaderMap[k]) \subseteq RealPages(j) /\ kernelMap[j].type = Region(loaderMap[k]).type
          BY <1>4, <5>1
        <5> QED BY <1>7, <5>2
      <4> QED BY <4>1, <4>2
    <3> HIDE DEF map
    <3> QED BY <1>1, <1>3, <1>7, <3>1, <3>2, <3>3 DEF RegionsKnown, map
  <2> QED BY <1>1, <2>1, <2>2, <2>3 DEF MapInv, GivenKnown
<1> HIDE DEF e, r
(* The first entry.                                                         *)
<1>8. CASE kernelMap = <<>>
  <2> DEFINE first == [base |-> 0, size |-> e.size, type |-> r.type]
  <2>1. kernelMap' = <<first>> /\ n = 0 /\ c = 1
    <3>1. kernelMap' = <<[Region(loaderMap[1]) EXCEPT !.base = 0]>> /\ c = 1
      BY <1>1, <1>8 DEF Convert
    <3>2. Region(loaderMap[1]) = [base |-> r.base, size |-> r.size, type |-> r.type]
      BY <1>1, <3>1 DEF Region, r, e
    <3> QED BY <1>5, <1>8, <3>1, <3>2
  <2>2. first \in MapRegion /\ first.base = 0 /\ first.size = e.size /\ first.type = r.type
    BY <1>5 DEF MapRegion
  <2> HIDE DEF first
  <2>3. kernelMap' \in Seq(MapRegion) /\ kernelMap' # <<>> /\ DOMAIN kernelMap' = {1} /\ kernelMap'[1] = first
    BY <2>1, <2>2
  <2>4. ASSUME NEW j \in {1} PROVE RealEnd(j)' = End(e) /\ RealPages(j)' = PagesOf(e)
    BY <1>1, <2>1, <2>2, <2>3 DEF RealEnd, RealPages, RealBase, PagesOf, End, e
  <2>5. End(e) <= End(e)
    BY <1>5 DEF End
  <2>6. \A j \in {1} : ~(j > 1) /\ kernelMap'[j].type = r.type /\ ~(\E l \in {1} : j < l)
    BY <2>2, <2>3
  <2>7. 1 .. n = {}
    BY <2>1
  <2> QED BY <1>7, <2>2, <2>3, <2>4, <2>5, <2>6, <2>7
(* The entry makes the last region longer.                                  *)
<1>9. CASE kernelMap # <<>> /\ kernelMap[n].type = r.type /\ End(kernelMap[n]) = r.base
  <2> DEFINE last == kernelMap[n]
             more == [base |-> last.base, size |-> last.size + e.size, type |-> last.type]
  <2>1. n \in 1 .. n /\ last \in MapRegion /\ 1 \in 1 .. n /\ loaderMap[1] \in MapEntry /\ 1 \in 1 .. len
    <3>1. n >= 1
      BY <1>1, <1>2, <1>9
    <3> QED BY <1>1, <1>2, <3>1
  <2>2. kernelMap' = [kernelMap EXCEPT ![n] = more]
    <3>1. kernelMap' = [kernelMap EXCEPT ![n].size = @ + r.size]
      BY <1>9 DEF Convert, r, e
    <3>2. kernelMap' = [kernelMap EXCEPT ![n] = [last EXCEPT !.size = last.size + e.size]]
      BY <1>5, <3>1
    <3>3. last = [base |-> last.base, size |-> last.size, type |-> last.type]
      BY <2>1 DEF MapRegion
    <3> HIDE DEF last
    <3>4. [last EXCEPT !.size = last.size + e.size] = more
      BY ONLY <3>3
    <3> QED BY <3>2, <3>4
  <2>3. /\ last.base \in Nat /\ last.size \in Nat \ {0} /\ loaderMap[1].base \in Nat /\ last.base + last.size = e.base
        /\ last.type = r.type
    BY <1>5, <1>9, <2>1 DEF MapRegion, MapEntry, End
  <2>4. more \in MapRegion /\ more.base = last.base /\ more.size = last.size + e.size /\ more.type = last.type
    <3> HIDE DEF last
    <3> QED BY <1>5, <2>1, <2>3 DEF MapRegion
  <2>5. /\ kernelMap' \in Seq(MapRegion) /\ kernelMap' # <<>> /\ DOMAIN kernelMap' = 1 .. n /\ kernelMap'[n] = more
        /\ \A j \in 1 .. n : j # n => kernelMap'[j] = kernelMap[j]
    <3> HIDE DEF more
    <3> QED BY <1>1, <1>2, <2>1, <2>2, <2>4
  <2>6. RealBase(n) = last.base /\ RealEnd(n) = e.base
    <3>1. RealEnd(n) = RealBase(n) + last.size /\ RealBase(n) = IF n = 1 THEN loaderMap[1].base ELSE last.base
      BY DEF RealEnd, RealBase
    <3>2. RealEnd(n) <= e.base
      BY <1>1, <1>4, <2>1 DEF e
    <3>3. n = 1 => last.base = 0
      BY <1>4, <1>9
    <3> DEFINE b == last.base
               size == last.size
               first == loaderMap[1].base
    <3>4. /\ RealEnd(n) = RealBase(n) + size /\ RealBase(n) = IF n = 1 THEN first ELSE b
          /\ RealEnd(n) <= e.base /\ (n = 1 => b = 0) /\ b \in Nat /\ size \in Nat /\ first \in Nat /\ b + size = e.base
      BY <2>3, <3>1, <3>2, <3>3
    <3> HIDE DEF b, size, first
    <3>5. CASE n = 1
      <4>1. first = 0
        BY <3>4, <3>5
      <4> QED BY <3>4, <3>5, <4>1 DEF b
    <3>6. CASE n # 1
      BY <3>4, <3>6 DEF b
    <3> QED BY <3>5, <3>6
  <2> HIDE DEF more
  <2>7. /\ \A j \in 1 .. n : j # n => RealEnd(j)' = RealEnd(j) /\ RealPages(j)' = RealPages(j) /\ kernelMap'[j] = kernelMap[j]
        /\ RealEnd(n)' = End(e) /\ RealPages(n)' = RealPages(n) \cup PagesOf(e)
    <3>1. ASSUME NEW j \in 1 .. n, j # n PROVE RealEnd(j)' = RealEnd(j) /\ RealPages(j)' = RealPages(j)
      BY <1>1, <2>5, <3>1 DEF RealEnd, RealPages, RealBase
    <3>2. RealBase(n)' = last.base /\ RealEnd(n)' = last.base + (last.size + e.size)
      <4>1. RealBase(n)' = IF n = 1 THEN loaderMap[1].base ELSE more.base
        BY <1>1, <2>5 DEF RealBase
      <4>2. RealBase(n) = IF n = 1 THEN loaderMap[1].base ELSE last.base
        BY DEF RealBase
      <4> HIDE DEF last
      <4>3. RealBase(n)' = last.base
        BY <2>4, <2>6, <4>1, <4>2
      <4> QED BY <2>4, <2>5, <4>3 DEF RealEnd
    <3> HIDE DEF last
    <3>3. RealEnd(n)' = End(e)
      BY <1>5, <2>3, <3>2 DEF End
    <3>4. RealPages(n) = last.base .. last.base + last.size - 1
      BY <2>3, <2>6 DEF RealPages
    <3>5. PagesOf(e) = last.base + last.size .. last.base + last.size + e.size - 1
      BY <1>5, <2>3 DEF PagesOf, End
    <3>6. RealPages(n)' = last.base .. (last.base + (last.size + e.size)) - 1
      <4> DEFINE z == last.base + (last.size + e.size)
      <4>1. RealBase(n)' = last.base /\ RealEnd(n)' = z
        BY <3>2
      <4> HIDE DEF z
      <4>2. RealPages(n)' = last.base .. z - 1
        BY <4>1 DEF RealPages
      <4> QED BY <4>2, Zenon DEF z
    <3>7. RealPages(n)' = RealPages(n) \cup PagesOf(e)
      <4> DEFINE b == last.base
                 was == last.size
                 plus == e.size
      <4>1. b \in Nat /\ was \in Nat /\ plus \in Nat
        BY <1>5, <2>3
      <4>2. /\ RealPages(n) = b .. b + was - 1 /\ PagesOf(e) = b + was .. b + was + plus - 1
            /\ RealPages(n)' = b .. (b + (was + plus)) - 1
        BY <3>4, <3>5, <3>6
      <4> HIDE DEF b, was, plus
      <4> QED BY <4>1, <4>2, LongerRange
    <3> QED BY <2>5, <3>1, <3>3, <3>7
  <2>8. ASSUME NEW j \in 1 .. n, NEW l \in 1 .. n, j < l PROVE RealEnd(j)' <= kernelMap'[l].base
    <3>1. j # n /\ kernelMap'[l].base = kernelMap[l].base
      BY <1>2, <2>4, <2>5, <2>8
    <3> QED BY <1>4, <2>7, <2>8, <3>1
  <2>9. ASSUME NEW j \in 1 .. n PROVE RealEnd(j)' <= End(e)
    <3>1. CASE j = n
      BY <1>5, <2>7, <3>1 DEF End
    <3>2. CASE j # n
      <4>1. RealEnd(j) <= e.base
        BY <1>1, <1>4 DEF e
      <4>2. RealEnd(j) \in Nat
        BY <1>2, <2>3 DEF RealEnd, RealBase, MapRegion
      <4> QED BY <1>5, <2>7, <3>2, <4>1, <4>2 DEF End
    <3> QED BY <3>1, <3>2
  <2>10. kernelMap'[1].base = 0
    BY <1>4, <1>9, <2>1, <2>4, <2>5
  <2>11. ASSUME NEW j \in 1 .. n, NEW x \in RealPages(j)'
         PROVE  \/ x \in PagesOf(e) /\ r.type = kernelMap'[j].type /\ (j > 1 => kernelMap'[j].base <= e.base)
                \/ /\ x \in RealPages(j)
                   /\ kernelMap'[j].base = kernelMap[j].base /\ kernelMap'[j].type = kernelMap[j].type
    <3>1. CASE j = n
      <4>1. last.base <= e.base
        BY <2>3
      <4> QED BY <2>3, <2>4, <2>5, <2>7, <3>1, <4>1
    <3>2. CASE j # n
      BY <2>7, <3>2
    <3> QED BY <3>1, <3>2
  <2>12. \A j \in 1 .. n : RealPages(j) \subseteq RealPages(j)' /\ kernelMap'[j].type = kernelMap[j].type
    BY <2>4, <2>5, <2>7
  <2>13. PagesOf(e) \subseteq RealPages(n)' /\ kernelMap'[n].type = r.type
    BY <2>3, <2>4, <2>5, <2>7
  <2> HIDE DEF last
  <2> QED BY <1>7, <2>1, <2>5, <2>8, <2>9, <2>10, <2>11, <2>12, <2>13
(* The entry becomes a region.                                              *)
<1>10. CASE kernelMap # <<>> /\ ~(kernelMap[n].type = r.type /\ End(kernelMap[n]) = r.base)
  <2>1. kernelMap' = Append(kernelMap, r)
    BY <1>10 DEF Convert, r, e
  <2>2. n >= 1 /\ 1 \in 1 .. n /\ loaderMap[1] \in MapEntry
    BY <1>1, <1>2, <1>10
  <2> DEFINE l == n + 1
  <2>3. /\ kernelMap' \in Seq(MapRegion) /\ kernelMap' # <<>> /\ DOMAIN kernelMap' = 1 .. l /\ kernelMap'[l] = r
        /\ \A j \in 1 .. n : kernelMap'[j] = kernelMap[j]
    BY <1>1, <1>2, <1>5, <2>1
  <2>4. l \in 1 .. l /\ l > 1 /\ l \in Nat /\ \A j \in 1 .. l : j = l \/ (j \in 1 .. n /\ j < l)
    BY <1>2, <2>2
  <2> HIDE DEF l
  <2>5. \A j \in 1 .. n : RealEnd(j)' = RealEnd(j) /\ RealPages(j)' = RealPages(j)
    BY <1>1, <2>3 DEF RealEnd, RealPages, RealBase
  <2>6. RealEnd(l)' = End(e) /\ RealPages(l)' = PagesOf(e)
    BY <1>5, <2>3, <2>4 DEF RealEnd, RealPages, RealBase, End, PagesOf
  <2>7. \A j \in 1 .. n : RealEnd(j) <= e.base /\ RealEnd(j) \in Nat
    <3>1. \A j \in 1 .. n : RealEnd(j) <= e.base
      BY <1>1, <1>4 DEF e
    <3> QED BY <1>2, <2>2, <3>1 DEF RealEnd, RealBase, MapRegion, MapEntry
  <2>8. \A j, k \in 1 .. l : j < k => RealEnd(j)' <= kernelMap'[k].base
    <3> SUFFICES ASSUME NEW j \in 1 .. l, NEW k \in 1 .. l, j < k PROVE RealEnd(j)' <= kernelMap'[k].base
      OBVIOUS
    <3>1. j \in 1 .. n
      BY <1>2, <2>4
    <3>2. CASE k = l
      BY <1>5, <2>3, <2>5, <2>7, <3>1, <3>2
    <3>3. CASE k \in 1 .. n
      BY <1>4, <2>3, <2>5, <3>1, <3>3
    <3> QED BY <2>4, <3>2, <3>3
  <2>9. \A j \in 1 .. l : RealEnd(j)' <= End(e)
    <3> SUFFICES ASSUME NEW j \in 1 .. l PROVE RealEnd(j)' <= End(e)
      OBVIOUS
    <3>1. CASE j = l
      BY <1>5, <2>6, <3>1 DEF End
    <3>2. CASE j \in 1 .. n
      BY <1>5, <2>5, <2>7, <3>2 DEF End
    <3> QED BY <2>4, <3>1, <3>2
  <2>10. kernelMap'[1].base = 0
    BY <1>4, <1>10, <2>2, <2>3
  <2>11. ASSUME NEW j \in 1 .. l, NEW x \in RealPages(j)'
         PROVE  \/ x \in PagesOf(e) /\ r.type = kernelMap'[j].type /\ (j > 1 => kernelMap'[j].base <= e.base)
                \/ /\ j \in 1 .. n /\ x \in RealPages(j)
                   /\ kernelMap'[j].base = kernelMap[j].base /\ kernelMap'[j].type = kernelMap[j].type
    <3>1. CASE j = l
      BY <1>5, <2>3, <2>6, <3>1
    <3>2. CASE j \in 1 .. n
      BY <2>3, <2>5, <3>2
    <3> QED BY <2>4, <3>1, <3>2
  <2>12. \A j \in 1 .. n : j \in 1 .. l /\ RealPages(j) \subseteq RealPages(j)' /\ kernelMap'[j].type = kernelMap[j].type
    <3>1. \A j \in 1 .. n : j \in 1 .. l
      BY <1>2 DEF l
    <3> QED BY <2>3, <2>5, <3>1
  <2> QED BY <1>7, <2>3, <2>4, <2>6, <2>8, <2>9, <2>10, <2>11, <2>12
<1> QED BY <1>8, <1>9, <1>10

LEMMA ConvertKeeps == ASSUME MapInv, Convert PROVE MapInv'
BY ConvertStep

-----------------------------------------------------------------------------
(* The kernel.                                                              *)
LEMMA StartKernelKeeps == ASSUME MapInv, StartKernel PROVE MapInv'
<1>1. /\ stage = "convert" /\ cursor > Len(loaderMap) /\ cursor <= Len(loaderMap) + 1 /\ stage' = "kernel" /\ cursor' = 1
      /\ merged' = 1 /\ UNCHANGED <<firmware, loaderMap, kernelMap, given>> /\ loaderMap \in Seq(MapEntry)
      /\ loaderMap # <<>> /\ given = <<>> /\ (kernelMap = <<>> <=> cursor = 1) /\ kernelMap \in Seq(MapRegion)
      /\ firmware \in Maps /\ cursor \in Nat
  BY DEF StartKernel, GoOn, MapInv, MapTypes
<1>2. EntriesRead' = EntriesRead /\ Counts' = Counts
  BY <1>1 DEF EntriesRead, Counts
<1>3. kernelMap # <<>>
  BY <1>1
<1>4. MapTypes'
  BY <1>1, <1>3 DEF MapTypes
<1>5. MapSame' /\ MapOrder'
  BY <1>1, <1>2 DEF MapInv, MapSame, MapOrder
<1>6. RegionsKnown'
  BY <1>1, <1>2 DEF MapInv, RegionsKnown, RealEnd, RealPages, RealBase, MadeOf
<1>7. GivenKnown'
  BY <1>1 DEF GivenKnown
<1> QED BY <1>4, <1>5, <1>6, <1>7 DEF MapInv

(* The regions do not overlap, and end where the pages they stand for do.   *)
LEMMA RegionsApart ==
  ASSUME MapInv, stage = "kernel"
  PROVE  /\ \A j \in DOMAIN kernelMap : kernelMap[j] \in MapRegion /\ End(kernelMap[j]) <= RealEnd(j) /\ RealEnd(j) \in Nat
         /\ \A j, l \in DOMAIN kernelMap : j < l => End(kernelMap[j]) <= kernelMap[l].base
<1>1. /\ loaderMap \in Seq(MapEntry) /\ loaderMap # <<>> /\ kernelMap \in Seq(MapRegion)
      /\ (kernelMap # <<>> => kernelMap[1].base = 0)
      /\ \A j, l \in DOMAIN kernelMap : j < l => RealEnd(j) <= kernelMap[l].base
  BY DEF MapInv, MapTypes, RegionsKnown
<1>2. loaderMap[1] \in MapEntry
  BY <1>1
<1>3. ASSUME NEW j \in DOMAIN kernelMap
      PROVE  kernelMap[j] \in MapRegion /\ End(kernelMap[j]) <= RealEnd(j) /\ RealEnd(j) \in Nat
  <2>1. kernelMap[j] \in MapRegion /\ kernelMap # <<>>
    BY <1>1
  <2>2. kernelMap[j].base \in Nat /\ kernelMap[j].size \in Nat /\ loaderMap[1].base \in Nat
    BY <1>2, <2>1 DEF MapRegion, MapEntry
  <2>3. CASE j = 1
    <3> DEFINE size == kernelMap[j].size
               first == loaderMap[1].base
    <3>1. kernelMap[j].base = 0 /\ size \in Nat /\ first \in Nat
      BY <1>1, <2>1, <2>2, <2>3
    <3>2. End(kernelMap[j]) = 0 + size /\ RealEnd(j) = first + size
      BY <2>3, <3>1 DEF End, RealEnd, RealBase
    <3> HIDE DEF size, first
    <3> QED BY <2>1, <3>1, <3>2
  <2>4. CASE j # 1
    BY <2>1, <2>2, <2>4 DEF End, RealEnd, RealBase
  <2> QED BY <2>1, <2>3, <2>4
<1>4. ASSUME NEW j \in DOMAIN kernelMap, NEW l \in DOMAIN kernelMap, j < l PROVE End(kernelMap[j]) <= kernelMap[l].base
  <2>1. End(kernelMap[j]) <= RealEnd(j) /\ RealEnd(j) <= kernelMap[l].base
    BY <1>1, <1>3, <1>4
  <2>2. End(kernelMap[j]) \in Nat /\ RealEnd(j) \in Nat /\ kernelMap[l].base \in Nat
    BY <1>3 DEF MapRegion, End
  <2> QED BY <2>1, <2>2
<1> QED BY <1>3, <1>4

(* What is known of the regions stays with the maps and the entries read.   *)
LEMMA SameRegions ==
  ASSUME UNCHANGED <<loaderMap, stage, kernelMap>>, EntriesRead' = EntriesRead, RegionsKnown
  PROVE  RegionsKnown'
<1>1. \A j : RealBase(j)' = RealBase(j)
  BY DEF RealBase
<1>2. \A j : RealEnd(j)' = RealEnd(j)
  BY <1>1 DEF RealEnd
<1>3. \A j : RealPages(j)' = RealPages(j)
  BY <1>1, <1>2 DEF RealPages
<1>4. \A j, x : MadeOf(j, x)' <=> MadeOf(j, x)
  <2> SUFFICES ASSUME NEW j, NEW x PROVE MadeOf(j, x)' <=> MadeOf(j, x)
    OBVIOUS
  <2> QED BY Zenon DEF MadeOf, Region
<1> HIDE DEF RealBase, RealEnd, RealPages, MadeOf, EntriesRead
<1> QED BY <1>1, <1>2, <1>3, <1>4 DEF RegionsKnown

LEMMA SetupMemoryKeeps == ASSUME MapInv, SetupMemory PROVE MapInv'
<1> DEFINE c == cursor
           r == kernelMap[c]
           n == Len(given)
<1>1. /\ stage = "kernel" /\ c \in Nat \ {0} /\ c <= Len(kernelMap) /\ cursor' = c + 1 /\ firmware \in Maps
      /\ UNCHANGED <<firmware, loaderMap, stage, merged, kernelMap>> /\ kernelMap \in Seq(MapRegion)
      /\ loaderMap \in Seq(MapEntry) /\ loaderMap # <<>> /\ merged \in Nat \ {0} /\ given \in Seq(MapRegion)
      /\ given' = IF ToGive(c) THEN Append(given, r) ELSE given
  BY DEF SetupMemory, MapInv, MapTypes, ToGive
<1>2. /\ \A g \in DOMAIN given : \E j \in 1 .. c - 1 : given[g] = kernelMap[j] /\ ToGive(j)
      /\ \A j \in 1 .. c - 1 : ToGive(j) => \E g \in DOMAIN given : given[g] = kernelMap[j]
      /\ \A g, h \in DOMAIN given : g < h => End(given[g]) <= given[h].base
  BY <1>1 DEF MapInv, GivenKnown
<1>3. c \in DOMAIN kernelMap /\ r \in MapRegion /\ 1 .. c - 1 \subseteq DOMAIN kernelMap /\ 1 .. cursor' - 1 = 1 .. c
      /\ c \in 1 .. c /\ 1 .. c - 1 \subseteq 1 .. c /\ \A j \in 1 .. c : j = c \/ (j \in 1 .. c - 1 /\ j < c)
  BY <1>1
<1>4. given' \in Seq(MapRegion)
  BY <1>1, <1>3
<1>5. MapTypes'
  BY <1>1, <1>4 DEF MapTypes
<1>6. MapSame' /\ MapOrder' /\ RegionsKnown'
  <2>1. UNCHANGED <<loaderMap, stage, kernelMap>> /\ stage = "kernel" /\ RegionsKnown
    BY <1>1 DEF MapInv
  <2>2. MapSame' /\ MapOrder'
    BY <1>1 DEF MapInv, MapSame, MapOrder, Counts
  <2>3. EntriesRead' = EntriesRead
    BY <2>1 DEF EntriesRead
  <2>4. RegionsKnown'
    BY <2>1, <2>3, SameRegions
  <2> QED BY <2>2, <2>4
<1>7. \A j \in 1 .. c : ToGive(j)' <=> ToGive(j)
  BY <1>1 DEF ToGive
<1>8. CASE ~ToGive(c)
  <2>1. given' = given
    BY <1>1, <1>8
  <2> HIDE DEF c, r, n
  <2>2. \A g \in DOMAIN given' : \E j \in 1 .. c : given'[g] = kernelMap'[j] /\ ToGive(j)'
    BY <1>1, <1>2, <1>3, <1>7, <2>1
  <2>3. \A j \in 1 .. c : ToGive(j)' => \E g \in DOMAIN given' : given'[g] = kernelMap'[j]
    BY <1>1, <1>2, <1>3, <1>7, <1>8, <2>1
  <2>4. GivenKnown'
    BY <1>2, <1>3, <2>1, <2>2, <2>3 DEF GivenKnown
  <2> QED BY <1>5, <1>6, <2>4 DEF MapInv
<1>9. CASE ToGive(c)
  <2>1. given' = Append(given, r) /\ n \in Nat
    BY <1>1, <1>9
  <2>2. DOMAIN given = 1 .. n /\ DOMAIN given' = 1 .. n + 1 /\ given'[n + 1] = r /\ \A g \in 1 .. n : given'[g] = given[g]
    BY <1>1, <2>1
  <2>3. n + 1 \in 1 .. n + 1 /\ 1 .. n \subseteq 1 .. n + 1 /\ \A g \in 1 .. n + 1 : g = n + 1 \/ (g \in 1 .. n /\ g < n + 1)
    BY <2>1
  <2>4. \A g \in 1 .. n : End(given[g]) <= r.base
    <3> SUFFICES ASSUME NEW g \in 1 .. n PROVE End(given[g]) <= r.base
      OBVIOUS
    <3>1. PICK j \in 1 .. c - 1 : given[g] = kernelMap[j]
      BY <1>2, <2>2
    <3>2. j \in DOMAIN kernelMap /\ c \in DOMAIN kernelMap /\ j < c
      BY <1>1, <1>3
    <3> QED BY <1>1, <3>1, <3>2, RegionsApart
  <2> DEFINE l == n + 1
  <2>5. \A g, h \in 1 .. l : g < h => g \in 1 .. n
    BY <2>1
  <2> HIDE DEF c, r, n, l
  <2>6. ASSUME NEW g \in 1 .. l PROVE \E j \in 1 .. c : given'[g] = kernelMap'[j] /\ ToGive(j)'
    <3>1. CASE g = l
      BY <1>1, <1>3, <1>7, <1>9, <2>2, <3>1 DEF r, l
    <3>2. CASE g \in 1 .. n
      BY <1>1, <1>2, <1>3, <1>7, <2>2, <3>2
    <3> QED BY <2>3, <3>1, <3>2 DEF l
  <2>7. ASSUME NEW j \in 1 .. c, ToGive(j) PROVE \E g \in 1 .. l : given'[g] = kernelMap'[j]
    <3>1. CASE j = c
      BY <1>1, <2>2, <2>3, <3>1 DEF r, l
    <3>2. CASE j \in 1 .. c - 1
      <4>1. PICK g \in 1 .. n : given[g] = kernelMap[j]
        BY <1>2, <2>2, <2>7, <3>2
      <4>2. g \in 1 .. l
        BY <2>3 DEF l
      <4> QED BY <1>1, <2>2, <4>1, <4>2
    <3> QED BY <1>3, <3>1, <3>2
  <2>8. ASSUME NEW g \in 1 .. l, NEW h \in 1 .. l, g < h PROVE End(given'[g]) <= given'[h].base
    <3>1. g \in 1 .. n
      BY <2>5, <2>8
    <3>2. CASE h = l
      BY <2>2, <2>4, <3>1, <3>2 DEF l
    <3>3. CASE h \in 1 .. n
      BY <1>2, <2>2, <2>8, <3>1, <3>3
    <3> QED BY <2>3, <3>2, <3>3 DEF l
  <2>9. DOMAIN given' = 1 .. l
    BY <2>2 DEF l
  <2>10. GivenKnown'
    BY <1>3, <1>7, <2>6, <2>7, <2>8, <2>9 DEF GivenKnown
  <2> QED BY <1>5, <1>6, <2>10 DEF MapInv
<1> QED BY <1>8, <1>9

LEMMA MapAlways == MapSpec => []MapInv
<1>1. MapInit => MapInv
  BY MapBegins
<1>2. MapInv /\ [MapNext]_mapVars => MapInv'
  <2> SUFFICES ASSUME MapInv, [MapNext]_mapVars PROVE MapInv'
    OBVIOUS
  <2>1. CASE SortMemoryMap
    BY <2>1, SortKeeps
  <2>2. CASE CompactMemoryMap
    BY <2>2, CompactKeeps
  <2>3. CASE Convert
    BY <2>3, ConvertKeeps
  <2>4. CASE StartKernel
    BY <2>4, StartKernelKeeps
  <2>5. CASE SetupMemory
    BY <2>5, SetupMemoryKeeps
  <2>6. CASE UNCHANGED mapVars
    <3>1. UNCHANGED <<firmware, loaderMap, stage, cursor, merged, kernelMap, given>>
      BY <2>6 DEF mapVars
    <3>2. MapTypes'
      BY <3>1 DEF MapInv, MapTypes
    <3>3. MapSame' /\ MapOrder'
      BY <3>1 DEF MapInv, MapSame, MapOrder, Counts
    <3>4. RegionsKnown'
      <4>1. RegionsKnown /\ EntriesRead' = EntriesRead
        BY <3>1 DEF MapInv, EntriesRead
      <4> QED BY <3>1, <4>1, SameRegions
    <3>5. GivenKnown'
      BY <3>1 DEF MapInv, GivenKnown, ToGive
    <3> QED BY <3>2, <3>3, <3>4, <3>5 DEF MapInv
  <2> QED BY <2>1, <2>2, <2>3, <2>4, <2>5, <2>6 DEF MapNext
<1> QED BY <1>1, <1>2, PTL DEF MapSpec

-----------------------------------------------------------------------------
(* What the firmware's map tells of a page.                                 *)
LEMMA ToldOnce ==
  ASSUME MapInv, NEW x, NEW t, NEW s, Tells(firmware, DOMAIN firmware, x, t), Tells(firmware, DOMAIN firmware, x, s)
  PROVE  x \in Nat /\ t \in STRING /\ x \in Reported /\ ReportedAs(x) = t /\ s = t
<1>1. /\ firmware \in Seq(MapEntry)
      /\ \A k, n \in DOMAIN firmware :
           k # n => firmware[k].base + firmware[k].size <= firmware[n].base \/ firmware[n].base + firmware[n].size <= firmware[k].base
  BY MapsAssumption DEF MapInv, MapTypes, MapEntry
<1>2. ASSUME NEW k \in DOMAIN firmware, NEW n \in DOMAIN firmware, x \in PagesOf(firmware[k]), x \in PagesOf(firmware[n])
      PROVE  k = n
  <2>1. firmware[k] \in MapEntry /\ firmware[n] \in MapEntry
    BY <1>1
  <2>2. /\ firmware[k].base \in Nat /\ firmware[k].size \in Nat /\ firmware[n].base \in Nat /\ firmware[n].size \in Nat
        /\ x \in Int /\ firmware[k].base <= x /\ x < firmware[k].base + firmware[k].size
        /\ firmware[n].base <= x /\ x < firmware[n].base + firmware[n].size
    BY <1>2, <2>1 DEF MapEntry, PagesOf, End
  <2> DEFINE b1 == firmware[k].base
             l1 == firmware[k].size
             b2 == firmware[n].base
             l2 == firmware[n].size
  <2>3. k # n => b1 + l1 <= b2 \/ b2 + l2 <= b1
    BY <1>1
  <2>4. b1 \in Nat /\ l1 \in Nat /\ b2 \in Nat /\ l2 \in Nat /\ x \in Int /\ b1 <= x /\ x < b1 + l1 /\ b2 <= x /\ x < b2 + l2
    BY <2>2
  <2> HIDE DEF b1, l1, b2, l2
  <2> QED BY <2>3, <2>4
<1>3. PICK k \in DOMAIN firmware : x \in PagesOf(firmware[k]) /\ firmware[k].type = t
  BY DEF Tells
<1>4. PICK n \in DOMAIN firmware : x \in PagesOf(firmware[n]) /\ firmware[n].type = s
  BY DEF Tells
<1>5. k = n
  BY <1>2, <1>3, <1>4
<1>6. firmware[k] \in MapEntry
  BY <1>1
<1>7. x \in Nat /\ t \in STRING
  BY <1>3, <1>6 DEF MapEntry, PagesOf, End
<1>8. x \in Reported
  BY <1>3 DEF Reported
<1> DEFINE its == CHOOSE i \in DOMAIN firmware : x \in PagesOf(firmware[i])
<1>9. its \in DOMAIN firmware /\ x \in PagesOf(firmware[its])
  BY <1>3
<1>10. its = k
  <2> HIDE DEF its
  <2> QED BY <1>2, <1>3, <1>9
<1> QED BY <1>3, <1>4, <1>5, <1>7, <1>8, <1>10 DEF ReportedAs

(* An entry of the sorted map tells what the firmware told.                 *)
LEMMA EntryTells ==
  ASSUME MapInv, stage = "kernel", NEW k \in 1 .. Len(loaderMap), NEW x \in PagesOf(loaderMap[k])
  PROVE  /\ loaderMap[k] \in MapEntry /\ x \in Nat /\ x \in Reported /\ ReportedAs(x) = loaderMap[k].type
         /\ TypeOf(loaderMap[k].type) = Free => x \in Usable
<1>1. loaderMap[k] \in MapEntry
  BY DEF MapInv, MapTypes
<1>2. x \in Nat /\ loaderMap[k].type \in STRING
  BY <1>1 DEF MapEntry, PagesOf, End
<1>3. Counts = 1 .. Len(loaderMap)
  BY DEF Counts
<1>4. Tells(loaderMap, Counts, x, loaderMap[k].type)
  BY <1>3 DEF Tells
<1>5. Tells(firmware, DOMAIN firmware, x, loaderMap[k].type)
  BY <1>2, <1>4 DEF MapInv, MapSame
<1>6. x \in Reported /\ ReportedAs(x) = loaderMap[k].type
  BY <1>5, ToldOnce
<1>7. TypeOf(loaderMap[k].type) = Free => x \in Usable
  BY <1>5 DEF Tells, Usable
<1> QED BY <1>1, <1>2, <1>6, <1>7

(* A page the firmware told of is in an entry of the sorted map.            *)
LEMMA EntryOf ==
  ASSUME MapInv, stage = "kernel", NEW x, NEW k \in DOMAIN firmware, x \in PagesOf(firmware[k])
  PROVE  \E n \in 1 .. Len(loaderMap) : x \in PagesOf(loaderMap[n]) /\ loaderMap[n].type = firmware[k].type
<1>1. Tells(firmware, DOMAIN firmware, x, firmware[k].type)
  BY DEF Tells
<1>2. x \in Nat /\ firmware[k].type \in STRING
  BY <1>1, ToldOnce
<1>3. Tells(loaderMap, Counts, x, firmware[k].type) /\ Counts = 1 .. Len(loaderMap)
  BY <1>1, <1>2 DEF MapInv, MapSame, Counts
<1> QED BY <1>3 DEF Tells

(* What goes into a free region was free, or starts below 64 KB.            *)
LEMMA FreeEntry ==
  ASSUME MapInv, stage = "kernel", NEW k \in 1 .. Len(loaderMap), NEW x \in PagesOf(loaderMap[k]),
         Region(loaderMap[k]).type = Free
  PROVE  /\ x \in Usable \/ TakenForFree(x)
         /\ loaderMap[k].base >= Low => x \in Usable
<1> DEFINE e == loaderMap[k]
           b == e.base
<1>1. e \in MapEntry /\ x \in Nat /\ b \in Nat /\ e.size \in Nat \ {0} /\ b <= x /\ x < b + e.size /\ Low \in Nat
  BY EntryTells, MapsAssumption DEF MapEntry, PagesOf, End
<1>2. b < Low \/ TypeOf(e.type) = Free
  BY DEF Region, Free
<1>3. TypeOf(e.type) = Free => x \in Usable
  BY EntryTells
<1>4. b < Low => TakenForFree(x)
  <2> SUFFICES ASSUME b < Low PROVE TakenForFree(x)
    OBVIOUS
  <2>1. ASSUME NEW y \in b .. x PROVE y \in Reported /\ ReportedAs(y) = e.type
    <3>1. y \in PagesOf(e)
      <4> DEFINE upto == End(e) - 1
      <4>1. upto = (b + e.size) - 1
        BY DEF End
      <4> DEFINE size == e.size
      <4>2. size \in Nat /\ b \in Nat /\ x \in Nat /\ x < b + size /\ upto = (b + size) - 1
        BY <1>1, <4>1
      <4>3. upto \in Int /\ y \in Int /\ b <= y /\ y <= upto
        <5> HIDE DEF b, upto, size
        <5> QED BY <4>2
      <4>4. y \in b .. upto
        <5> HIDE DEF b, e, upto
        <5> QED BY <1>1, <4>3
      <4> QED BY <4>4 DEF PagesOf
    <3> QED BY <3>1, EntryTells
  <2>2. b \in b .. x
    BY <1>1
  <2> HIDE DEF b, e
  <2> QED BY <2>1, <2>2 DEF TakenForFree
<1>5. b >= Low => TypeOf(e.type) = Free
  <2> HIDE DEF b, e
  <2> QED BY <1>1, <1>2
<1> QED BY <1>2, <1>3, <1>4, <1>5

LEMMA FirstReported ==
  ASSUME MapInv, stage = "kernel"
  PROVE  FirstPage = loaderMap[1].base
<1> DEFINE p == loaderMap[1].base
           len == Len(loaderMap)
<1>1. loaderMap \in Seq(MapEntry) /\ len \in Nat /\ 1 \in 1 .. len /\ InOrder(loaderMap, 1 .. len)
  BY DEF MapInv, MapTypes, MapOrder, Counts
<1>2. \A k \in 1 .. len : loaderMap[k].base \in Nat /\ loaderMap[k].size \in Nat \ {0}
  <2>1. \A k \in 1 .. len : loaderMap[k] \in MapEntry
    BY <1>1
  <2> QED BY <2>1 DEF MapEntry
<1>3. p \in Reported
  <2>1. p \in PagesOf(loaderMap[1])
    BY <1>1, <1>2 DEF PagesOf, End
  <2> QED BY <1>1, <2>1, EntryTells
<1>4. ASSUME NEW q \in Reported PROVE p <= q /\ q \in Nat
  <2>1. PICK k \in DOMAIN firmware : q \in PagesOf(firmware[k])
    BY DEF Reported
  <2>2. PICK n \in 1 .. len : q \in PagesOf(loaderMap[n])
    BY <2>1, EntryOf
  <2>3. q \in Int /\ loaderMap[n].base <= q
    BY <1>2, <2>2 DEF PagesOf, End
  <2>4. p <= loaderMap[n].base
    <3>1. n = 1 \/ End(loaderMap[1]) <= loaderMap[n].base
      BY <1>1 DEF InOrder
    <3> QED BY <1>1, <1>2, <3>1 DEF End
  <2>5. loaderMap[n].base \in Nat /\ p \in Nat
    BY <1>1, <1>2
  <2> QED BY <2>3, <2>4, <2>5
<1>5. FirstPage \in Reported /\ \A q \in Reported : FirstPage <= q
  <2>1. \E x \in Reported : \A q \in Reported : x <= q
    BY <1>3, <1>4
  <2> QED BY <2>1 DEF FirstPage
<1>6. p <= FirstPage /\ FirstPage <= p /\ p \in Nat /\ FirstPage \in Nat
  BY <1>3, <1>4, <1>5
<1> HIDE DEF p
<1>7. FirstPage = p
  BY <1>6
<1> QED BY <1>7 DEF p

(* The last stop.                                                           *)
LEMMA HonestThen == ASSUME MapInv PROVE MemoryMapHonest
<1> SUFFICES ASSUME Done
             PROVE  /\ Allocated \subseteq {p \in Usable : p >= Meg}
                    /\ \A k, n \in DOMAIN given : PagesOf(given[k]) \cap PagesOf(given[n]) # {} => k = n
                    /\ \A p \in Usable \ Allocated : p >= Meg => Joined(p)
                    /\ kernelMap[1].size - 1 \notin Allocated
  BY DEF MemoryMapHonest
<1> DEFINE n == Len(kernelMap)
           len == Len(loaderMap)
<1>1. /\ stage = "kernel" /\ 1 .. cursor - 1 = 1 .. n /\ DOMAIN kernelMap = 1 .. n /\ n \in Nat /\ EntriesRead = len
      /\ kernelMap \in Seq(MapRegion) /\ given \in Seq(MapRegion) /\ loaderMap \in Seq(MapEntry) /\ loaderMap # <<>>
  BY DEF Done, MapInv, MapTypes, EntriesRead
<1>2. /\ kernelMap # <<>> => kernelMap[1].base = 0
      /\ \A j, l \in 1 .. n : j < l => RealEnd(j) <= kernelMap[l].base
      /\ \A j \in 1 .. n : \A x \in RealPages(j) : MadeOf(j, x)
      /\ \A k \in 1 .. len : \E j \in 1 .. n :
           PagesOf(loaderMap[k]) \subseteq RealPages(j) /\ kernelMap[j].type = Region(loaderMap[k]).type
  BY <1>1 DEF MapInv, RegionsKnown
<1>3. /\ \A g \in DOMAIN given : \E j \in 1 .. n : given[g] = kernelMap[j] /\ ToGive(j)
      /\ \A j \in 1 .. n : ToGive(j) => \E g \in DOMAIN given : given[g] = kernelMap[j]
      /\ \A g, h \in DOMAIN given : g < h => End(given[g]) <= given[h].base
  BY <1>1 DEF MapInv, GivenKnown
<1>4. Low \in Nat \ {0} /\ Meg \in Nat /\ Low <= Meg
  BY MapsAssumption
<1> HIDE DEF n, len
<1>5. ASSUME NEW j \in 1 .. n
      PROVE  /\ kernelMap[j] \in MapRegion /\ kernelMap[j].base \in Nat /\ kernelMap[j].size \in Nat \ {0}
             /\ j \in Nat /\ j >= 1 /\ 1 \in 1 .. n
             /\ ToGive(j) => j > 1
  <2>1. kernelMap[j] \in MapRegion
    BY <1>1, RegionsApart
  <2>2. kernelMap[j].base \in Nat /\ kernelMap[j].size \in Nat \ {0}
    BY <2>1 DEF MapRegion
  <2>3. j \in Nat /\ j >= 1 /\ 1 \in 1 .. n /\ kernelMap # <<>>
    BY <1>1
  <2>4. j = 1 => ~ToGive(j)
    BY <1>2, <1>4, <2>3 DEF ToGive
  <2> QED BY <2>1, <2>2, <2>3, <2>4
<1>6. ASSUME NEW x \in Allocated
      PROVE  \E j \in 1 .. n : ToGive(j) /\ j > 1 /\ x \in PagesOf(kernelMap[j]) /\ x \in RealPages(j) /\ x \in Nat /\ kernelMap[j].base <= x
  <2>1. PICK g \in DOMAIN given : x \in PagesOf(given[g])
    BY DEF Allocated
  <2>2. PICK j \in 1 .. n : given[g] = kernelMap[j] /\ ToGive(j)
    BY <1>3
  <2>3. j > 1 /\ kernelMap[j].base \in Nat /\ kernelMap[j].size \in Nat /\ j # 1
    BY <1>5, <2>2
  <2>4. x \in PagesOf(kernelMap[j])
    BY <2>1, <2>2
  <2>5. RealPages(j) = PagesOf(kernelMap[j])
    BY <2>3 DEF RealPages, RealEnd, RealBase, PagesOf, End
  <2>6. x \in Nat /\ kernelMap[j].base <= x
    BY <2>3, <2>4 DEF PagesOf, End
  <2> QED BY <2>2, <2>3, <2>4, <2>5, <2>6
<1>7. Allocated \subseteq {p \in Usable : p >= Meg}
  <2> SUFFICES ASSUME NEW x \in Allocated PROVE x \in Usable /\ x >= Meg
    OBVIOUS
  <2>1. PICK j \in 1 .. n : ToGive(j) /\ j > 1 /\ x \in RealPages(j) /\ x \in Nat /\ kernelMap[j].base <= x
    BY <1>6
  <2>2. PICK k \in 1 .. len : /\ x \in PagesOf(loaderMap[k]) /\ Region(loaderMap[k]).type = kernelMap[j].type
                              /\ kernelMap[j].base <= loaderMap[k].base
    BY <1>1, <1>2, <2>1 DEF MadeOf, len
  <2>3. kernelMap[j].base \in Nat /\ kernelMap[j].base >= Meg /\ kernelMap[j].type = Free
    BY <1>5, <2>1 DEF ToGive
  <2>4. loaderMap[k].base \in Nat
    <3>1. loaderMap[k] \in MapEntry
      BY <1>1, <2>2, EntryTells DEF len
    <3> QED BY <3>1 DEF MapEntry
  <2>5. loaderMap[k].base >= Low
    BY <1>4, <2>2, <2>3, <2>4
  <2>6. x \in Usable
    BY <1>1, <2>2, <2>3, <2>5, FreeEntry DEF len
  <2> QED BY <1>4, <2>1, <2>3, <2>6
<1>8. ASSUME NEW g \in DOMAIN given, NEW h \in DOMAIN given, PagesOf(given[g]) \cap PagesOf(given[h]) # {} PROVE g = h
  <2>1. PICK x : x \in PagesOf(given[g]) /\ x \in PagesOf(given[h])
    BY <1>8
  <2>2. given[g] \in MapRegion /\ given[h] \in MapRegion /\ g \in Nat /\ h \in Nat
    BY <1>1
  <2>3. given[g].base <= x /\ x < End(given[g]) /\ given[h].base <= x /\ x < End(given[h]) /\ x \in Int
        /\ given[g].base \in Nat /\ given[h].base \in Nat /\ End(given[g]) \in Nat /\ End(given[h]) \in Nat
    BY <2>1, <2>2 DEF PagesOf, End, MapRegion
  <2>4. ~(g < h)
    BY <1>3, <2>3
  <2>5. ~(h < g)
    BY <1>3, <2>3
  <2> QED BY <2>2, <2>4, <2>5
<1>9. ASSUME NEW p \in Usable \ Allocated, p >= Meg PROVE Joined(p)
  <2>1. PICK i \in DOMAIN firmware : TypeOf(firmware[i].type) = Free /\ p \in PagesOf(firmware[i])
    BY DEF Usable
  <2>2. PICK k \in 1 .. len : p \in PagesOf(loaderMap[k]) /\ loaderMap[k].type = firmware[i].type
    BY <1>1, <2>1, EntryOf DEF len
  <2>3. Region(loaderMap[k]).type = Free
    BY <2>1, <2>2 DEF Region
  <2>4. PICK j \in 1 .. n : p \in RealPages(j) /\ kernelMap[j].type = Free
    BY <1>2, <2>2, <2>3
  <2>5. ASSUME NEW x \in RealPages(j) PROVE x \in Usable \/ TakenForFree(x)
    <3>1. PICK m \in 1 .. len : x \in PagesOf(loaderMap[m]) /\ Region(loaderMap[m]).type = Free
      BY <1>1, <1>2, <2>4 DEF MadeOf, len
    <3> QED BY <1>1, <3>1, FreeEntry DEF len
  <2>6. p \in Nat
    BY <1>1, <2>2, EntryTells DEF len
  <2>7. /\ RealBase(j) \in Nat /\ RealEnd(j) \in Nat /\ RealBase(j) <= p /\ p <= RealEnd(j) - 1
        /\ \A x \in RealBase(j) .. p - 1 : x \in RealPages(j)
    <3>1. loaderMap[1] \in MapEntry
      BY <1>1
    <3>2. RealBase(j) \in Nat /\ kernelMap[j].size \in Nat
      BY <1>5, <3>1 DEF RealBase, MapEntry
    <3>3. RealEnd(j) \in Nat
      BY <3>2 DEF RealEnd
    <3> HIDE DEF RealBase, RealEnd
    <3> QED BY <2>4, <2>6, <3>2, <3>3 DEF RealPages
  <2>8. CASE j = 1
    <3>1. RealBase(j) = FirstPage
      BY <1>1, <2>8, FirstReported DEF RealBase
    <3>2. \A x \in FirstPage .. p - 1 : x \in Usable \/ TakenForFree(x)
      BY <2>5, <2>7, <3>1
    <3> QED BY <3>2 DEF Joined
  <2>9. CASE j # 1
    <3>1. RealBase(j) = kernelMap[j].base /\ RealPages(j) = PagesOf(kernelMap[j])
      BY <2>9 DEF RealBase, RealPages, RealEnd, PagesOf, End
    <3>2. ~ToGive(j)
      <4> SUFFICES ASSUME ToGive(j) PROVE FALSE
        OBVIOUS
      <4>1. PICK g \in DOMAIN given : given[g] = kernelMap[j]
        BY <1>3
      <4>2. p \in Allocated
        BY <2>4, <3>1, <4>1 DEF Allocated
      <4> QED BY <4>2
    <3>3. kernelMap[j].base \in Nat /\ kernelMap[j].base < Meg
      BY <1>4, <1>5, <2>4, <3>2 DEF ToGive
    <3>4. \A x \in Meg - 1 .. p - 1 : x \in RealBase(j) .. p - 1
      BY <1>4, <2>6, <3>1, <3>3
    <3>5. \A x \in Meg - 1 .. p - 1 : x \in Usable \/ TakenForFree(x)
      BY <2>5, <2>7, <3>4
    <3> QED BY <3>5 DEF Joined
  <2> QED BY <2>8, <2>9
<1>10. kernelMap[1].size - 1 \notin Allocated
  <2> SUFFICES ASSUME kernelMap[1].size - 1 \in Allocated PROVE FALSE
    OBVIOUS
  <2> DEFINE x == kernelMap[1].size - 1
  <2>1. PICK j \in 1 .. n : j > 1 /\ x \in Nat /\ kernelMap[j].base <= x
    BY <1>6
  <2>2. 1 \in 1 .. n /\ kernelMap[j].base \in Nat /\ kernelMap[1].size \in Nat
    BY <1>5
  <2>3. End(kernelMap[1]) <= kernelMap[j].base
    BY <1>1, <2>1, <2>2, RegionsApart
  <2>4. End(kernelMap[1]) = kernelMap[1].size
    <3>1. kernelMap[1].base = 0
      BY <1>1, <1>2, <2>2
    <3> QED BY <2>2, <3>1 DEF End
  <2> QED BY <2>1, <2>2, <2>3, <2>4
<1> QED BY <1>7, <1>8, <1>9, <1>10

(* The kernel's allocator is given free memory only, each page once, never  *)
(* that of the kernel's first stack, and misses only pages that go on from  *)
(* below 1 MB or from the start of the map.                                 *)
THEOREM HonestMemoryMap == MapSpec => []MemoryMapHonest
<1>1. MapInv => MemoryMapHonest
  BY HonestThen
<1> QED BY <1>1, MapAlways, PTL
=============================================================================
