---------------------------- MODULE XhciEnumeration ----------------------------
(***************************************************************************)
(* The enumeration of the devices at the root ports of an xHCI controller: *)
(* the kernel's thread goes from port to port (setup_usb_xhci_pcie), and   *)
(* brings each device from its reset to a slot, an address, a              *)
(* configuration and the rings of its class (xhci_setup_device and what it *)
(* calls), over a controller that keeps its own state of every slot, and   *)
(* devices of which any may fail at any request.  Module XhciPort has the  *)
(* reset of a port, module XhciDriver how a command or a transfer gets its *)
(* answer, module UsbBulkRead what a command to a disk is made of, and     *)
(* module UsbDevice what a device tells of itself, and what the driver and *)
(* the controller tell each other of it.                                   *)
(***************************************************************************)
EXTENDS UsbDevice

CONSTANTS
  Ports,        \* the root ports, 1 .. n
  Slots,        \* device slots of the controller, 1 .. n
  Pages,        \* the physical pages that may be free, 1 .. n
  Devices       \* what may be plugged into a port, also nothing

NoPort == 0

Speeds == {"none", "low", "full", "high", "super"}

(* The numbers of a device's endpoints are 1 to 15: 0 is the control        *)
(* endpoint's.  One that is polled says how often: in milliseconds, or as   *)
(* an exponent from 1 to 16.                                                *)
ASSUME EnumerationAssumption ==
  /\ IsFiniteSet(Ports) /\ Ports \subseteq Nat \ {NoPort}
  /\ Slots \subseteq Nat \ {0}
  /\ IsFiniteSet(Pages)
  /\ \A d \in Devices :
       /\ d.speed \in Speeds /\ DOMAIN d.conf.DATA \subseteq Nat
       /\ \A i \in DOMAIN d.conf.DATA : d.conf.DATA[i].TYPE = "endpoint" =>
            /\ d.conf.DATA[i].ADDR \in (Out + 1 .. Out + 15) \cup (In + 1 .. In + 15)
            /\ XferType(d.conf.DATA[i]) = InterruptType =>
                 d.conf.DATA[i].ITVL \in 1 .. IF Slow(d.speed) THEN 255 ELSE 16

VARIABLES
  usb,          \* the device at each port: its speed and its descriptors
  unit,         \* the state each device is in
  free,         \* free physical pages
  owned,        \* the pages that were free in the beginning
  lost,         \* pages that nobody holds any longer
  dcbaa,        \* the output context of each slot: a page, or 0
  device,       \* the driver's record of each slot
  slot,         \* the controller's state of each slot
  thread,       \* where the thread is: port, slot, position
  todo,         \* endpoints still to configure, with the answer if one fails
  page,         \* the page of the inquiry
  answer,       \* the answer for each port
  input         \* what was set up for input, and the disks inserted

tables == <<dcbaa, device>>
world == <<usb, owned>>
memory == <<free, lost>>
vars == <<world, unit, memory, tables, slot, thread, todo, page, answer, input>>

-----------------------------------------------------------------------------
NotAsked == -1

(* What is set for a slot by nobody.                                        *)
NoDevice == [context |-> 0, persistent |-> 0, transfer |-> [e \in {} |-> 0],
             port |-> NoPort, speed |-> "none"]

(* alloc_physical_memory(1, 0): the lowest free page, or 0.                 *)
Lowest(set) == IF set = {} THEN 0 ELSE CHOOSE p \in set : \A q \in set : p <= q

InitialMps(speed) == CASE speed = "high" -> 64
                       [] speed = "super" -> 512
                       [] OTHER -> 8

(* The packet size a device reports for its control endpoint: 9 is the      *)
(* exponent of 512.                                                         *)
Reported(d) == IF d.device.MPS0 = 9 THEN 512 ELSE d.device.MPS0

(* The interface a device is used by: its first one, if it has one.         *)
Interface(d) == FirstOf(d.conf.DATA, {i \in DOMAIN d.conf.DATA : IsInterface(d.conf.DATA[i])})

Present == {p \in Ports : usb[p].speed # "none"}
Here == usb[thread.port]
Face == Interface(Here)[1]
Record == device[thread.slot]

Init ==
  /\ usb \in [Ports -> Devices]
  /\ unit = [p \in Ports |-> AfterReset]
  /\ \E n \in 0 .. Cardinality(Pages) : free = 1 .. n
  /\ owned = free
  /\ lost = {}
  /\ dcbaa = [s \in Slots |-> 0]
  /\ device = [s \in Slots |-> NoDevice]
  /\ slot = [s \in Slots |-> SlotOff]
  /\ thread = [at |-> "port", port |-> NoPort, slot |-> 0, pos |-> 1]
  /\ todo = <<>>
  /\ page = 0
  /\ answer = [p \in Ports |-> NotAsked]
  /\ input = [keyboard |-> 0, disks |-> {}]

-----------------------------------------------------------------------------
Go(at) == thread' = [thread EXCEPT !.at = at]

Answer(code) ==
  /\ answer' = [answer EXCEPT ![thread.port] = code]
  /\ Go("port")

(* A command or a transfer that changes nothing the model keeps: it         *)
(* succeeds, or the enumeration of the port ends with a code.               *)
Request(at, next, code) ==
  /\ thread.at = at
  /\ \/ Go(next) /\ UNCHANGED answer
     \/ Answer(code)
  /\ UNCHANGED <<world, unit, memory, tables, slot, todo, page, input>>

(* A request on the control endpoint: the controller sends it to the port   *)
(* it knows for the slot.  One that fails may have been served all the same.*)
Serve(setup) == unit' = [unit EXCEPT ![slot[thread.slot].root] = Served(@, setup)]

ControlTransfer(at, setup, next, code) ==
  /\ thread.at = at
  /\ \/ Go(next) /\ Serve(setup) /\ UNCHANGED answer
     \/ Answer(code) /\ (Serve(setup) \/ UNCHANGED unit)
  /\ UNCHANGED <<world, memory, tables, slot, todo, page, input>>

(* xhci_send_command: it fails, and the port has its answer, or the         *)
(* controller has done it.                                                  *)
Command(trb, next, code) ==
  \/ slot' = [slot EXCEPT ![thread.slot] = Obeyed(@, trb)] /\ Go(next) /\ UNCHANGED answer
  \/ Answer(code) /\ UNCHANGED slot

(* The loop over the ports skips those without a device.                    *)
NextPort ==
  /\ thread.at = "port"
  /\ thread.port + 1 \in Ports
  /\ thread' = [at |-> IF thread.port + 1 \in Present THEN "reset" ELSE "port",
                port |-> thread.port + 1, slot |-> 0, pos |-> 1]
  /\ UNCHANGED <<world, unit, memory, tables, slot, todo, page, answer, input>>

EnableSlot ==
  /\ thread.at = "enable"
  /\ \/ \E s \in Slots :
          /\ slot[s].state = "off"
          /\ slot' = [slot EXCEPT ![s] = Obeyed(@, EnableSlotTrb)]
          /\ device' = [device EXCEPT ![s] = NoDevice]
          /\ thread' = [thread EXCEPT !.at = "setup", !.slot = s]
          /\ UNCHANGED answer
     \/ Answer(2) /\ UNCHANGED <<slot, device>>
  /\ UNCHANGED <<world, unit, memory, dcbaa, todo, page, input>>

-----------------------------------------------------------------------------
(* The driver clears every page it gets.  Without one the answer is 0, and  *)
(* clearing what is at address 0 is a page fault that the handler does not  *)
(* repair: the kernel stops (vmm.c:30 to 61).                               *)
Panic ==
  /\ Go("panic")
  /\ UNCHANGED <<world, unit, memory, tables, slot, todo, page, answer, input>>

(* xhci_setup_usb_device: three pages, given back when one is missing, and  *)
(* the control endpoint's ring, for whose page nobody asks whether it is    *)
(* there.                                                                   *)
WithRing(rings, epid, pg) == [e \in DOMAIN rings \cup {epid} |-> IF e = epid THEN pg ELSE rings[e]]

Output == Lowest(free)
Input == Lowest(free \ {Output})
Persistent == Lowest(free \ {Output, Input})
Control == Lowest(free \ {Output, Input, Persistent})

SetUp ==
  /\ thread.at = "setup"
  /\ 0 \notin {Output, Input, Persistent, Control}
  /\ dcbaa' = [dcbaa EXCEPT ![thread.slot] = Output]
  /\ device' = [device EXCEPT ![thread.slot] =
                  [context |-> Input, persistent |-> Persistent,
                   transfer |-> WithRing(@.transfer, 1, Control),
                   port |-> thread.port - 1, speed |-> Here.speed]]
  /\ free' = free \ {Output, Input, Persistent, Control}
  /\ Go("address")
  /\ UNCHANGED <<world, unit, lost, slot, todo, page, answer, input>>

NoControlRing ==
  /\ thread.at = "setup"
  /\ 0 \notin {Output, Input, Persistent}
  /\ Control = 0
  /\ Panic

(* A driver that keeps the pages it has when the third is missing ...       *)
KeepsInput ==
  /\ thread.at = "setup"
  /\ 0 \in {Output, Input, Persistent}
  /\ free' = free \ {Input}
  /\ device' = [device EXCEPT ![thread.slot].context = Input]
  /\ Go("disable")
  /\ UNCHANGED <<world, unit, lost, dcbaa, slot, todo, page, answer, input>>

(* ... and the code's, which gives all of them back, but leaves the address *)
(* of the input context in its record.                                      *)
TooFewPages ==
  /\ thread.at = "setup"
  /\ 0 \in {Output, Input, Persistent}
  /\ device' = [device EXCEPT ![thread.slot].context = Input]
  /\ Go("disable")
  /\ UNCHANGED <<world, unit, memory, dcbaa, slot, todo, page, answer, input>>

(* xhci_disable_slot: an output context would be freed before the command;  *)
(* here it never has one.                                                   *)
DisableSlot ==
  /\ thread.at = "disable"
  /\ free' = free \cup ({dcbaa[thread.slot]} \ {0})
  /\ dcbaa' = [dcbaa EXCEPT ![thread.slot] = 0]
  /\ \/ slot' = [slot EXCEPT ![thread.slot] = Obeyed(@, DisableSlotTrb(thread.slot))]
     \/ UNCHANGED slot
  /\ Answer(3)
  /\ UNCHANGED <<world, unit, lost, device, todo, page, input>>

-----------------------------------------------------------------------------
(* The control endpoint's context, with the ring and the packet size        *)
(* assumed, is put in the input context and taken from there.               *)
AddressDevice ==
  /\ thread.at = "address"
  /\ Command(AddressDeviceTrb(thread.slot, InputContext(Record, ControlEndpoint(InitialMps(Record.speed)))),
             "desc8", 4)
  /\ UNCHANGED <<world, unit, memory, tables, todo, page, input>>

(* The first eight bytes of the descriptor have the packet size, which is   *)
(* set when it is another than the assumed one.                             *)
FirstDescriptor ==
  ControlTransfer("desc8", GetDeviceDescriptor,
                  IF Reported(Here) = InitialMps(Record.speed) THEN "desc18" ELSE "evaluate", 5)

EvaluateContext ==
  /\ thread.at = "evaluate"
  /\ Command(EvaluateContextTrb(thread.slot, InputContext(Record, ControlEndpoint(Reported(Here)))),
             "desc18", 6)
  /\ UNCHANGED <<world, unit, memory, tables, todo, page, input>>

Descriptors ==
  \/ ControlTransfer("desc18", GetDeviceDescriptor, "configuration9", 7)
  \/ ControlTransfer("configuration9", GetConfigDescriptor, "configuration", 8)
  \/ ControlTransfer("configuration", GetConfigDescriptor, "walk", 9)

(* The walk over the descriptors of the configuration, for its first        *)
(* interface.  Each descriptor has its length; one of length zero leads the *)
(* walk nowhere.  A walk that does not step over one of another kind ...    *)
StepsOverWhole(d) == IF d.LENG < 2 THEN 0 ELSE 1

(* ... and the code's.                                                      *)
Step(d) == IF d.LENG = 0 THEN 0 ELSE 1

WalkDescriptors ==
  /\ thread.at = "walk"
  /\ IF thread.pos \in DOMAIN Here.conf.DATA
     THEN thread' = [thread EXCEPT !.pos = @ + Step(Here.conf.DATA[thread.pos])] /\ UNCHANGED answer
     ELSE IF Interface(Here) # <<>> THEN Go("setconf") /\ UNCHANGED answer
                                    ELSE Answer(10)
  /\ UNCHANGED <<world, unit, memory, tables, slot, todo, page, input>>

SetConfiguration ==
  ControlTransfer("setconf", SetConfigurationRequest(Here.conf.CNFV), "class", 11)

(* By the class of the interface, and its endpoints.                        *)
Keyboard == Face.CCOD = Hid /\ Face.SCOD = 1 /\ Face.POTO = 1
Disk == Face.CCOD = MassStorage /\ Face.SCOD = 6 /\ Face.POTO = 80

KeyEndpoint == UsbSearchEndpoint(Here.conf, InterruptType, In)
DiskIn == UsbSearchEndpoint(Here.conf, BulkType, In)
DiskOut == UsbSearchEndpoint(Here.conf, BulkType, Out)

ChooseClass ==
  /\ thread.at = "class"
  /\ \/ /\ Keyboard /\ KeyEndpoint # <<>>
        /\ todo' = <<[endpoint |-> KeyEndpoint[1], fails |-> 1]>>
        /\ Go("protocol")
        /\ UNCHANGED answer
     \/ /\ Disk /\ DiskIn # <<>> /\ DiskOut # <<>>
        /\ todo' = <<[endpoint |-> DiskIn[1], fails |-> 3], [endpoint |-> DiskOut[1], fails |-> 4]>>
        /\ Go("configure")
        /\ UNCHANGED answer
     \/ /\ \/ Keyboard /\ KeyEndpoint = <<>> /\ Answer(1)
           \/ Disk /\ <<>> \in {DiskIn, DiskOut} /\ Answer(2)
           \/ Face.CCOD \in {Hid, MassStorage} /\ ~Keyboard /\ ~Disk /\ Answer(1)
           \/ Face.CCOD \notin {Hid, MassStorage} /\ Answer(12)
        /\ UNCHANGED todo
  /\ UNCHANGED <<world, unit, memory, tables, slot, page, input>>

(* The answer is the completion code, above 0x80.                           *)
BootProtocol == \/ ControlTransfer("protocol", SetProtocolRequest(Face.IFCN), "idle", 128)
                \/ ControlTransfer("idle", SetIdleRequest, "configure", 128)

-----------------------------------------------------------------------------
(* xhci_usb_configure_xfer_endpoint: a ring, the input context with this    *)
(* endpoint and no other, and the command.                                  *)
Endpoint == Head(todo).endpoint

AfterConfigured == IF Len(todo) > 1 THEN "configure" ELSE IF Keyboard THEN "listen" ELSE "lun"

Configure(rec) ==
  /\ Command(ConfigureEndpointTrb(thread.slot, InputContext(rec, Endpoint)),
             AfterConfigured, Head(todo).fails)
  /\ todo' = IF thread'.at = "port" THEN todo ELSE Tail(todo)

(* A driver that fills the context before it has the ring ...               *)
ConfiguresFirst ==
  /\ thread.at = "configure"
  /\ free # {}
  /\ LET epid == EndpointId(Endpoint)
     IN  /\ device' = [device EXCEPT ![thread.slot].transfer = WithRing(@, epid, Lowest(free))]
         /\ Configure([Record EXCEPT !.transfer = WithRing(@, epid, 0)])
  /\ free' = free \ {Lowest(free)}
  /\ UNCHANGED <<world, unit, lost, dcbaa, page, input>>

(* ... and the code's.                                                      *)
ConfigureEndpoint ==
  /\ thread.at = "configure"
  /\ free # {}
  /\ device' = [device EXCEPT ![thread.slot].transfer = WithRing(@, EndpointId(Endpoint), Lowest(free))]
  /\ Configure(device'[thread.slot])
  /\ free' = free \ {Lowest(free)}
  /\ UNCHANGED <<world, unit, lost, dcbaa, page, input>>

NoEndpointRing == thread.at = "configure" /\ free = {} /\ Panic

ListenForKeys ==
  /\ thread.at = "listen"
  /\ input' = [input EXCEPT !.keyboard = thread.slot]
  /\ Answer(0)
  /\ UNCHANGED <<world, unit, memory, tables, slot, todo, page>>

AskDisk == \/ ControlTransfer("lun", GetMaxLunRequest(Face.IFCN), "ready", 5)
           \/ Request("ready", "buffer", 6)

(* The page for the data of the inquiry, which nobody looks at either.      *)
GetBuffer ==
  /\ thread.at = "buffer"
  /\ free # {}
  /\ page' = Lowest(free)
  /\ free' = free \ {page'}
  /\ Go("inquiry")
  /\ UNCHANGED <<world, unit, lost, tables, slot, todo, answer, input>>

NoBuffer == thread.at = "buffer" /\ free = {} /\ Panic

(* It is lost when the inquiry or the read of the capacity fails.           *)
Inquire(at, next, code) ==
  /\ thread.at = at
  /\ \/ Go(next) /\ UNCHANGED <<answer, page, lost>>
     \/ Answer(code) /\ lost' = lost \cup {page} /\ page' = 0
  /\ UNCHANGED <<world, unit, free, tables, slot, todo, input>>

InsertDisk ==
  /\ thread.at = "insert"
  /\ input' = [input EXCEPT !.disks = @ \cup {thread.slot}]
  /\ free' = free \cup {page}
  /\ page' = 0
  /\ Answer(0)
  /\ UNCHANGED <<world, unit, lost, tables, slot, todo>>

-----------------------------------------------------------------------------
Next ==
  \/ NextPort
  \/ Request("reset", "enable", 1)
  \/ EnableSlot
  \/ SetUp \/ NoControlRing \/ TooFewPages \/ DisableSlot
  \/ AddressDevice \/ FirstDescriptor \/ EvaluateContext
  \/ Descriptors \/ WalkDescriptors \/ SetConfiguration \/ ChooseClass
  \/ BootProtocol \/ ConfigureEndpoint \/ NoEndpointRing \/ ListenForKeys
  \/ AskDisk \/ GetBuffer \/ NoBuffer
  \/ Inquire("inquiry", "capacity", 7) \/ Inquire("capacity", "insert", 8)
  \/ InsertDisk

Spec == Init /\ [][Next]_vars

(* The thread goes on: every command and transfer is answered.              *)
FairSpec == Spec /\ WF_vars(Next)

-----------------------------------------------------------------------------
HoldsPages == {s \in Slots : dcbaa[s] # 0}

(* The pages of a slot, each with what it is for: the number of the         *)
(* endpoint of a ring, or -1 for the output context, -2 for the input       *)
(* context, -3 for the data of control transfers, and -4 for the inquiry.   *)
Uses == (UNION {{<<s, -1, dcbaa[s]>>, <<s, -2, device[s].context>>,
                 <<s, -3, device[s].persistent>>}
                \cup {<<s, e, device[s].transfer[e]>> : e \in DOMAIN device[s].transfer}
                : s \in HoldsPages})
        \cup {<<0, -4, page>>}
RealUses == {u \in Uses : u[3] # 0}

(* No page has two uses, or one while it is free, whichever allocation or   *)
(* request of the enumeration fails; and none gets lost but the one for the *)
(* inquiry of a disk that answered 7 or 8 (usb_bulk.c:153, 171).            *)
PagesOwned ==
  /\ \A u, v \in RealUses : u[3] = v[3] => u = v
  /\ \A u \in RealUses : u[3] \notin free \cup lost
  /\ free \cup lost \cup {u[3] : u \in RealUses} = owned
  /\ Cardinality(lost) <= Cardinality({p \in Ports : answer[p] \in {7, 8}})

Known == {s \in Slots : slot[s].state \in {"addressed", "configured"}}
Behind(s) == usb[slot[s].root]
Given(s) == slot[s].endpoint

(* The controller works on the ring the driver queues on: for every         *)
(* endpoint of every slot it knows, and the keyboard and each disk that is  *)
(* in use have all endpoints they are used with.                            *)
RingsAgree ==
  /\ \A s \in Slots : \A e \in DOMAIN Given(s) :
       e \in DOMAIN device[s].transfer /\ Given(s)[e].ring = device[s].transfer[e]
  /\ \A s \in input.disks :
       \A dir \in {In, Out} : \E e \in DOMAIN Given(s) :
         \E d \in {UsbSearchEndpoint(Behind(s).conf, BulkType, dir)[1]} : e = EndpointId(d)
  /\ input.keyboard # 0 => \E e \in DOMAIN Given(input.keyboard) : Given(input.keyboard)[e].type = 7

(* A slot leads to the port its device is at, with the speed the port has,  *)
(* and no two lead to one.                                                  *)
RootsAgree ==
  /\ \A s \in Known : slot[s].root \in Present /\ slot[s].speed = Behind(s).speed
  /\ \A s, r \in Known : slot[s].root = slot[r].root => s = r

(* A slot that got past the first descriptor has the packet size its device *)
(* reported, whatever was assumed from its speed.                           *)
MpsAgreed ==
  \A s \in Slots :
    (slot[s].state = "configured" \/ (thread.slot = s /\ thread.at \in {"desc18", "walk", "class"}))
    => Given(s)[1].mps = Reported(Behind(s))

(* The period in units of 125 us that an interrupt endpoint asks for.       *)
Period(speed, d) == IF Slow(speed) THEN 8 * d.ITVL ELSE 2 ^ (d.ITVL - 1)

(* Every other endpoint has the packets its descriptor tells of, and is     *)
(* polled as often as it asks for, but not twice as often.                  *)
EndpointsAsDescribed ==
  \A s \in Known : \A e \in DOMAIN Given(s) \ {1} :
    LET c == Given(s)[e]
    IN  \E i \in DOMAIN Behind(s).conf.DATA :
          LET d == Behind(s).conf.DATA[i]
          IN  /\ d.TYPE = "endpoint" /\ EndpointId(d) = e /\ c.mps = d.MPSZ
              /\ XferType(d) = InterruptType =>
                   /\ 2 ^ c.interval <= Period(Behind(s).speed, d)
                   /\ Period(Behind(s).speed, d) < 2 * 2 ^ c.interval

(* A device in use has taken its configuration, and a keyboard sends the    *)
(* reports of the boot protocol, which its requests are made for.           *)
DevicesConfigured ==
  \A s \in input.disks \cup ({input.keyboard} \ {0}) :
    /\ unit[slot[s].root].configuration = Behind(s).conf.CNFV
    /\ s = input.keyboard => Interface(Behind(s))[1].IFCN \in unit[slot[s].root].booting

(* Driver, controller and device agree on each slot in use: at which port   *)
(* it is, where its rings are, how long its packets are, how often it is    *)
(* polled, and which configuration and protocol it has (xhci_device.c:14 to *)
(* 165, 308 to 430, usb_keyboard.c:34 to 74).                               *)
SlotAgrees ==
  RingsAgree /\ RootsAgree /\ MpsAgreed /\ EndpointsAsDescribed /\ DevicesConfigured

(* Every port with a device gets its answer, and the enumeration ends,      *)
(* whatever fails, unless a descriptor of length zero holds up the walk     *)
(* (xhci_device.c:388) or the kernel panics for want of a page.             *)
EnumerationEnds ==
  (\A p \in Present : \A i \in DOMAIN usb[p].conf.DATA : usb[p].conf.DATA[i].LENG # 0)
  ~> (thread.at = "panic" \/ \A p \in Present : answer[p] # NotAsked)

(* "Context Entries. This field identifies the index of the last valid      *)
(* Endpoint Context within this Device Context structure"                   *)
(* (xhci_context.h:130): what the driver writes covers every endpoint that  *)
(* is configured (xhci_usb_configure_endpoint, xhci_device.c:108).          *)
EntriesCoverEndpoints ==
  \A s \in Slots : \A e \in DOMAIN Given(s) : e <= slot[s].entries
=============================================================================
