------------------------------- MODULE UsbDevice -------------------------------
(***************************************************************************)
(* What a USB device tells of itself, what the driver asks of it, and what *)
(* it makes of that: the standard descriptors, as sequences of records     *)
(* instead of bytes, the requests on the control endpoint, and the state   *)
(* of a device, which the driver only knows from the requests it made.     *)
(*                                                                         *)
(* Then the contexts by which the driver and an xHCI controller tell each  *)
(* other of a device: the input context, that the driver fills for a       *)
(* command, the commands that hand it over, and what the controller then   *)
(* knows of the slot.                                                      *)
(***************************************************************************)
EXTENDS Integers, Sequences, FiniteSets

(* Transfer types of an endpoint, and the direction bit of its address.     *)
ControlType == 0
BulkType == 2
InterruptType == 3
In == 128
Out == 0

(* The classes the driver knows: human interface, mass storage.             *)
Hid == 3
MassStorage == 8

-----------------------------------------------------------------------------
DeviceDescriptor(mps) == [LENG |-> 18, TYPE |-> "device", MPS0 |-> mps]

ConfigurationDescriptor(value, body) ==
  [LENG |-> 9, TYPE |-> "configuration", CNFV |-> value, DATA |-> body]

InterfaceDescriptor(number, class, subclass, protocol) ==
  [LENG |-> 9, TYPE |-> "interface", IFCN |-> number,
   CCOD |-> class, SCOD |-> subclass, POTO |-> protocol]

EndpointDescriptor(address, type, mps, interval) ==
  [LENG |-> 7, TYPE |-> "endpoint", ADDR |-> address, ATTR |-> type,
   MPSZ |-> mps, ITVL |-> interval]

(* One the driver does not know.                                            *)
OtherDescriptor(length) == [LENG |-> length, TYPE |-> "other"]

XferType(d) == d.ATTR % 4

IsInterface(d) == d.TYPE = "interface" /\ d.LENG >= 9

IsEndpoint(d, type, dir) ==
  d.TYPE = "endpoint" /\ d.LENG >= 7 /\ (d.ADDR \div 128) * 128 = dir /\ XferType(d) = type

(* The first of the places found in a configuration, if there is one.       *)
FirstOf(body, found) ==
  IF found = {} THEN <<>> ELSE <<body[CHOOSE i \in found : \A j \in found : i <= j]>>

UsbSearchEndpoint(conf, type, dir) ==
  FirstOf(conf.DATA, {i \in DOMAIN conf.DATA : IsEndpoint(conf.DATA[i], type, dir)})

-----------------------------------------------------------------------------
(* The requests of the driver, and what it asks them for.                   *)
Setup(recipient, type, request, value, index) ==
  [RECP |-> recipient, RTYP |-> type, REQU |-> request, VALU |-> value, INDX |-> index]

GetDeviceDescriptor == Setup("device", "standard", "get_descriptor", "device", 0)
GetConfigDescriptor == Setup("device", "standard", "get_descriptor", "configuration", 0)
SetConfigurationRequest(value) == Setup("device", "standard", "set_configuration", value, 0)
SetProtocolRequest(number) == Setup("interface", "class", "set_protocol", 0, number)
SetIdleRequest == Setup("interface", "class", "set_idle", 125, 0)
GetMaxLunRequest(number) == Setup("interface", "class", "get_max_lun", 0, number)

(* A device after its reset, and after a request it has taken.              *)
AfterReset == [addressed |-> FALSE, configuration |-> 0, booting |-> {}]

Served(state, setup) ==
  CASE setup.REQU = "set_configuration" -> [state EXCEPT !.configuration = setup.VALU]
    [] setup.REQU = "set_protocol" ->
         [state EXCEPT !.booting = IF setup.VALU = 0 THEN @ \cup {setup.INDX} ELSE @ \ {setup.INDX}]
    [] OTHER -> state

-----------------------------------------------------------------------------

(* xhci_endpoint_id: two indices for each endpoint number, the higher for   *)
(* IN; 1 is the control endpoint.                                           *)
EndpointId(ep) == (2 * ep.ADDR + ep.ADDR \div 128) % 32

(* The index of the highest bit.                                            *)
Exponent(v) == CHOOSE n \in 0 .. 11 : 2 ^ n <= v /\ v < 2 ^ (n + 1)

(* How often an interrupt endpoint is polled, as an exponent of units of    *)
(* 125 us: a slow device asks in milliseconds, another one in exponents     *)
(* from 1.                                                                  *)
Slow(speed) == speed \in {"low", "full"}

Interval(speed, ep) ==
  IF Slow(speed)
  THEN LET e == Exponent(8 * (IF ep.ITVL = 0 THEN 1 ELSE ep.ITVL))
       IN  IF e < 3 THEN 3 ELSE IF e > 10 THEN 10 ELSE e
  ELSE IF ep.ITVL = 0 THEN 0 ELSE ep.ITVL - 1

(* Types 1 to 3 are those of the descriptor for OUT, 4 is control, and 5 to *)
(* 7 those of the descriptor for IN.                                        *)
ContextType(ep) ==
  IF ep.ADDR >= 128 \/ XferType(ep) = ControlType THEN XferType(ep) + 4 ELSE XferType(ep)

-----------------------------------------------------------------------------
InputControl(epid) == [drop |-> {}, add |-> {0, epid}]

(* The driver counts root ports from 0, the controller from 1.              *)
SlotContext(speed, entries, port) == [speed |-> speed, entries |-> entries, root |-> port + 1]

(* The cycle bit of a new ring is set.                                      *)
EndpointContext(speed, ep, ring) ==
  [type |-> ContextType(ep),
   interval |-> IF XferType(ep) = InterruptType THEN Interval(speed, ep) ELSE 0,
   mps |-> ep.MPSZ, average |-> ep.MPSZ, ring |-> ring]

(* xhci_usb_configure_endpoint clears the whole of the input context, with  *)
(* what was taken over from the output context before the walk, and sets    *)
(* one endpoint.                                                            *)
InputContext(device, ep) ==
  LET epid == EndpointId(ep)
  IN  [control |-> InputControl(epid),
       slot |-> SlotContext(device.speed, epid, device.port),
       endpoint |-> [e \in {epid} |-> EndpointContext(device.speed, ep, device.transfer[epid])]]

(* xhci_usb_configure_control_endpoint makes up a descriptor.               *)
ControlEndpoint(mps) == EndpointDescriptor(In, ControlType, mps, 0)

-----------------------------------------------------------------------------
EnableSlotTrb == [type |-> "enable_slot"]
DisableSlotTrb(s) == [type |-> "disable_slot", slot |-> s]
AddressDeviceTrb(s, context) ==
  [type |-> "address_device", slot |-> s, context |-> context, block |-> FALSE]
EvaluateContextTrb(s, context) == [type |-> "evaluate_context", slot |-> s, context |-> context]
ConfigureEndpointTrb(s, context) == [type |-> "configure_endpoint", slot |-> s, context |-> context]

(* A slot as the controller knows it, and what a command that succeeds      *)
(* makes of it: it takes from the input context what the flags and the kind *)
(* of the command call for.                                                 *)
SlotOff == [state |-> "off", speed |-> "none", entries |-> 0, root |-> 0, endpoint |-> [e \in {} |-> 0]]

WithEndpoints(slot, context) ==
  [e \in DOMAIN slot.endpoint \cup (context.control.add \ {0}) |->
     IF e \in context.control.add THEN context.endpoint[e] ELSE slot.endpoint[e]]

Obeyed(slot, trb) ==
  CASE trb.type = "enable_slot" -> [SlotOff EXCEPT !.state = "enabled"]
    [] trb.type = "disable_slot" -> SlotOff
    [] trb.type = "address_device" ->
         [state |-> "addressed", speed |-> trb.context.slot.speed, root |-> trb.context.slot.root,
          entries |-> trb.context.slot.entries, endpoint |-> WithEndpoints(slot, trb.context)]
    [] trb.type = "evaluate_context" ->
         [slot EXCEPT !.endpoint[1].mps = trb.context.endpoint[1].mps]
    [] trb.type = "configure_endpoint" ->
         [slot EXCEPT !.state = "configured", !.entries = trb.context.slot.entries,
                      !.endpoint = WithEndpoints(slot, trb.context)]
=============================================================================
