--------------------------------- MODULE MCXhci --------------------------------
(***************************************************************************)
(* What the xHCI driver shares with its controller.  A behaviour is one of *)
(* XhciEnumeration, XhciPort, or a ring of XhcRing, as kind says; the      *)
(* variables of the others stay as they began.                             *)
(*                                                                         *)
(* Rings have three TRBs and a link, or four, and three TRBs under way.    *)
(* Two ports, two slots, and at most ten pages, less than two disks need.  *)
(* The devices: keyboards, slow and fast, one with a second interface and  *)
(* one without its endpoint; disks with the packet size assumed (as an     *)
(* exponent), with another one, and without an endpoint; a mouse; and      *)
(* hubs, one with a descriptor of length zero; and one without interface.  *)
(***************************************************************************)
EXTENDS XhciEnumeration, XhciPort, XhcRing

VARIABLE kind

Plugged(speed, mps, body) ==
  [speed |-> speed, device |-> DeviceDescriptor(mps), conf |-> ConfigurationDescriptor(1, body)]

BootKeyboard(number) == InterfaceDescriptor(number, Hid, 1, 1)
BootMouse(number) == InterfaceDescriptor(number, Hid, 1, 2)
BulkDisk == InterfaceDescriptor(0, MassStorage, 6, 80)
Hub == InterfaceDescriptor(0, 9, 0, 0)
Short == OtherDescriptor(1)

Keys(interval) == EndpointDescriptor(In + 1, InterruptType, 8, interval)
BulkIn(mps) == EndpointDescriptor(In + 1, BulkType, mps, 0)
BulkOut(number, mps) == EndpointDescriptor(Out + number, BulkType, mps, 0)

MCDevices ==
  { Plugged("none", 8, <<>>),
    Plugged("low", 8, <<BootKeyboard(0), Short, Keys(10)>>),
    Plugged("high", 64, <<BootKeyboard(1), Keys(4), BootMouse(0)>>),
    Plugged("full", 64, <<BootKeyboard(0), Short>>),
    Plugged("super", 9, <<BulkDisk, BulkIn(1024), BulkOut(1, 1024)>>),
    Plugged("high", 8, <<BulkDisk, BulkIn(512), BulkOut(2, 512)>>),
    Plugged("high", 64, <<BulkDisk, BulkOut(1, 512)>>),
    Plugged("full", 8, <<Hub, OtherDescriptor(0)>>),
    Plugged("full", 8, <<BootMouse(0)>>),
    Plugged("full", 8, <<Hub>>),
    Plugged("full", 8, <<BulkIn(64)>>) }

MCInit ==
  /\ kind \in {"enumeration", "port", "ring", "events"}
  /\ Init /\ PortInit /\ RingInit /\ EventInit
  /\ kind # "port" => port.POEN
  /\ kind # "enumeration" => Present = {} /\ free = {}
  /\ kind # "ring" => ring = Created(FALSE)

MCNext ==
  \/ kind = "enumeration" /\ Next /\ UNCHANGED <<kind, portVars, ringVars, eventVars>>
  \/ kind = "port" /\ PortNext /\ UNCHANGED <<kind, vars, ringVars, eventVars>>
  \/ kind = "ring" /\ RingNext /\ UNCHANGED <<kind, vars, portVars, eventVars>>
  \/ kind = "events" /\ EventNext /\ UNCHANGED <<kind, vars, portVars, ringVars>>

(* The thread gets on with the enumeration; it finishes the copy it began,  *)
(* and the controller looks at a ring as long as there is something for it. *)
MCSpec ==
  /\ MCInit /\ [][MCNext]_<<kind, vars, portVars, ringVars, eventVars>>
  /\ WF_vars(kind = "enumeration" /\ Next)
  /\ WF_ringVars(kind = "ring" /\ Copy)
  /\ WF_ringVars(kind = "ring" /\ Fetch)
  /\ WF_ringVars(kind = "ring" /\ FollowLink)

(* The driver gets on: the enumeration of a port ends with an answer, and   *)
(* what xhc_queue_transfer was called with on the way is fetched.           *)
DriverProceeds == EnumerationEnds /\ EveryTrbFetched
=============================================================================
