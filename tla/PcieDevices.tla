------------------------------ MODULE PcieDevices ------------------------------
(***************************************************************************)
(* setup_pcie (driver/pci/pcie.c): the walk over the functions of PCI      *)
(* Express and the set-up of the controllers it finds, composed of         *)
(* NvmeSetup, AhciSetup and XhciStart.  The boot thread goes through one   *)
(* set-up after another; every controller goes on by itself meanwhile, and *)
(* begins as the firmware left it.                                         *)
(***************************************************************************)
EXTENDS NvmeSetup, AhciSetup, XhciStart

Classes == {"nvme", "ahci", "xhci"}

(* Base addresses are memory below 4 GB, memory above in two registers, or  *)
(* ports, which have no type.  The capability registers of a controller are *)
(* of its class: MQES has 16 bits and MPSMIN four, the slots eight and the  *)
(* scratchpads ten; a namespace has the format its index names.             *)
BaseRegister(class) == IF class = "ahci" THEN 5 ELSE 0

AddressAssumption(address, i) ==
  /\ address[i] \in [io : BOOLEAN, type : {0, 1, 2}, base : Nat]
  /\ address[i].io => address[i].type = 0
  /\ address[i].type = 2 => address[i + 1].base \in Nat

Namespaces ==
  {n \in [size : Nat, index : [lower : 0 .. 15, upper : 0 .. 3], formats : Seq(Nat)] :
     n.index.lower + 16 * n.index.upper + 1 \in DOMAIN n.formats}

Ports == [implemented : BOOLEAN, det : Nat, ipm : Nat, sign : STRING, hangs : BOOLEAN]

Field(number, last) == number \in Nat /\ number <= last

FunctionAssumption(f) ==
  /\ f.class \in Classes => AddressAssumption(f.address, BaseRegister(f.class))
  /\ f.class = "nvme" =>
       /\ f.capability = Capability(f.capability.MQES, f.capability.MPSMIN)
       /\ Field(f.capability.MQES, 65535) /\ Field(f.capability.MPSMIN, 15)
       /\ f.namespaces \in Seq(Namespaces) /\ f.breaks \in BOOLEAN
  /\ f.class = "ahci" => f.ports \in Seq(Ports)
  /\ f.class = "xhci" =>
       /\ f.capability = CapabilitySpace(f.capability.slots, f.capability.scratchpads)
       /\ Field(f.capability.slots, 255) /\ Field(f.capability.scratchpads, 1023)
       /\ f.breaks \in BOOLEAN

ASSUME DevicesAssumption == \A m \in Machines : \A p \in Places : FunctionAssumption(m.functions[p])

(* What the firmware left behind in a device.                               *)
LeftBehind(f) ==
  CASE f.class = "nvme" -> {NvmeRegisters(e, r, FALSE, m) : e, r, m \in BOOLEAN}
    [] f.class = "ahci" -> {AhciRegisters(f, s, m) : s, m \in BOOLEAN}
    [] f.class = "xhci" -> {XhciRegisters(u[1], u[2], m) :
                              u \in {<<FALSE, FALSE>>, <<FALSE, TRUE>>, <<TRUE, TRUE>>}, m \in BOOLEAN}
    [] OTHER -> {[nothing |-> TRUE]}

(* Without a table of the configuration spaces there is no walk.            *)
Begins(found) ==
  boot = [place |-> 1, at |-> IF found THEN "function" ELSE "done", unit |-> 1, wait |-> 0]

PcieInitial ==
  /\ driver = [p \in Places |-> NoRecord]
  /\ chain = <<>> /\ registry = <<>>
  /\ free = owned

PcieInit ==
  /\ \E m \in Machines :
       /\ function = m.functions
       /\ owned = 1 .. m.pages
       /\ hw \in [Places -> UNION {LeftBehind(m.functions[p]) : p \in Places}]
       /\ \A p \in Places : hw[p] \in LeftBehind(m.functions[p])
  /\ \E mcfg \in BOOLEAN : Begins(mcfg)
  /\ PcieInitial

-----------------------------------------------------------------------------
(* pcie_setup_devce: a function of a class with a driver is set up.         *)
Dispatch ==
  /\ boot.at = "function" /\ Here \in Places
  /\ IF Function.class \in Classes THEN Go("open")
     ELSE boot' = [boot EXCEPT !.place = @ + 1]
  /\ UNCHANGED <<world, lists, hw, driver, free>>

WalkOver ==
  /\ boot.at = "function" /\ Here \notin Places
  /\ Go("done")
  /\ UNCHANGED <<world, lists, hw, driver, free>>

BootStep == Dispatch \/ WalkOver \/ NvmeSteps \/ AhciSteps \/ XhciSteps

Controller(p) == NvmeController(p) \/ AhciController(p) \/ XhciController(p)

PcieNext == BootStep \/ \E p \in Places : Controller(p) \/ Fatal(p)

PcieSpec == PcieInit /\ [][PcieNext]_setupVars

(* The boot thread runs, and every controller goes on with what it was told *)
(* to do; one that breaks may stop.                                         *)
PcieFairSpec == PcieSpec /\ WF_setupVars(BootStep) /\ \A p \in Places : WF_setupVars(Controller(p))

-----------------------------------------------------------------------------
Passed(p) == boot.place > p

(* A controller is switched only when it has followed the last switch: NVM  *)
(* Express is enabled and disabled when CSTS.RDY says what CC.EN says, and  *)
(* its queues are written while it is off ("only allowed to be modified     *)
(* when this bit is cleared", nvme.h:390); an xHC is reset, started and     *)
(* told of its memory only while it is halted, out of reset and ready       *)
(* (xhc_regs.h:605); a port of AHCI gets its pages and is started only when *)
(* it has stopped, unless its link had to be reset.                         *)
NvmeSwitched(old, new) ==
  /\ new.CC.EN # old.CC.EN => old.CSTS.RDY = old.CC.EN
  /\ new.ASQ # old.ASQ \/ new.ACQ # old.ACQ => ~old.CC.EN /\ ~old.CSTS.RDY

XhciSwitched(old, new) ==
  /\ new.RS /\ ~old.RS => old.HCH /\ ~old.HCRST /\ ~old.CNR
  /\ new.HCRST /\ ~old.HCRST => old.HCH
  /\ new.operational # old.operational =>
       old.HCH /\ (new.operational \notin {Left, Nothing} => ~old.HCRST /\ ~old.CNR)

AhciSwitched(old, new) ==
  \A i \in DOMAIN old.port :
    /\ new.port[i].CLB # old.port[i].CLB => ~old.port[i].CR \/ old.port[i].reset
    /\ new.port[i].ST /\ ~old.port[i].ST => ~old.port[i].CR

SwitchedCleanly ==
  [][\A p \in DOMAIN hw :
       CASE function[p].class = "nvme" -> NvmeSwitched(hw[p], hw'[p])
         [] function[p].class = "xhci" -> XhciSwitched(hw[p], hw'[p])
         [] function[p].class = "ahci" -> AhciSwitched(hw[p], hw'[p])
         [] OTHER -> TRUE]_setupVars

-----------------------------------------------------------------------------
(* The pages of the records that were not given back.  One is: that of the  *)
(* identify commands of an NVM Express controller, at the end of its set-up *)
(* (nvme.c:355), although it is the queue the controller reads commands     *)
(* from, as NvmeWorksWith says.                                             *)
Kept(p) == {name \in DOMAIN driver[p].page : name = The("identify") => ~Passed(p)}

(* A page has one use, but for such a queue, whose page may be free or have *)
(* a use by a controller that is set up later; and no page is lost.         *)
PagesApart ==
  /\ \A p, q \in Places : \A n \in DOMAIN driver[p].page, m \in DOMAIN driver[q].page :
       driver[p].page[n] = driver[q].page[m] =>
         \/ p = q /\ n = m
         \/ p < q /\ n \notin Kept(p)
         \/ q < p /\ m \notin Kept(q)
  /\ free \cup UNION {{driver[p].page[n] : n \in Kept(p)} : p \in Places} = owned
  /\ \A p \in Places : \A n \in Kept(p) : driver[p].page[n] \notin free

(* The address a function decodes: two registers of 32 bits when it says so.*)
Decodes(f, i) == f.address[i].base + IF f.address[i].type = 2 THEN High * f.address[i + 1].base ELSE 0

FoundWhereDecoded ==
  \A k \in DOMAIN chain :
    LET f == function[chain[k]]
    IN f.address[BaseRegister(f.class)].type # 1 =>
         driver[chain[k]].base = Decodes(f, BaseRegister(f.class))

(* A controller that was started works with its driver's pages, which no    *)
(* other has but as PagesApart says, at the address it decodes: the         *)
(* contexts and the two rings of an xHC, with its segment table behind the  *)
(* pointers in the page, and its array of scratchpads in one piece; the     *)
(* page of a port of AHCI that was started; the queues of NVM Express.      *)
XhciWorksWith(p) ==
  The("command") \in DOMAIN driver[p].page =>
    /\ \A i \in 1 .. ArrayPages(function[p]) :
         driver[p].page[<<"array", i>>] = driver[p].page[<<"array", 1>>] + i - 1
    /\ hw[p].operational.DCBAAP = driver[p].page[The("context")]
    /\ hw[p].operational.CRCR = driver[p].page[The("command")]
    /\ hw[p].interrupter.ERSTBA = <<driver[p].page[The("context")], SegmentTable>>
    /\ hw[p].interrupter.ERDP = driver[p].data.RSBA
    /\ driver[p].data = Segment(driver[p].page[The("event")])
    /\ ContextBytes(function[p].capability.slots) <= SegmentTable

AhciWorksWith(p) ==
  \A i \in DOMAIN hw[p].port : <<"port", i>> \in DOMAIN driver[p].page =>
    /\ hw[p].port[i].CLB = driver[p].page[<<"port", i>>]
    /\ hw[p].port[i].FB = <<hw[p].port[i].CLB, FisOffset>>
    /\ hw[p].AE /\ hw[p].master

NvmeWorksWith(p) ==
  /\ hw[p].CC.EN /\ The("asq") \in DOMAIN driver[p].page =>
       hw[p].ASQ = driver[p].page[The("asq")] /\ hw[p].ACQ = driver[p].page[The("acq")]
  /\ hw[p].cq # 0 => hw[p].cq = driver[p].page[The("iocq")]
  /\ hw[p].sq # 0 => hw[p].sq = driver[p].page[The("identify")]

ControllersReady ==
  /\ PagesApart
  /\ FoundWhereDecoded
  /\ \A p \in Places :
       /\ function[p].class = "xhci" => XhciWorksWith(p)
       /\ function[p].class = "ahci" => AhciWorksWith(p)
       /\ function[p].class = "nvme" => NvmeWorksWith(p)

-----------------------------------------------------------------------------
(* Registered is exactly what can be read, once and with its own size: the  *)
(* namespaces the controller told of that have blocks of 512 bytes, and the *)
(* ports with an active ATA device.  Left open are namespaces of more than  *)
(* sixteen formats, whose index the driver puts together wrongly, and ports *)
(* whose link was reset, which may have come back in time or not.           *)
UnitsOf(p) == {k \in DOMAIN registry : registry[k].place = p}

NvmeDisk(f, n) == f.namespaces[n].size # 0 /\ f.namespaces[n].formats[f.namespaces[n].index.lower + 1] = 9

NvmeRegistered(p) ==
  LET f == function[p]
      plain == {n \in DOMAIN f.namespaces : f.namespaces[n].index.upper = 0}
  IN /\ \A k \in UnitsOf(p) :
          /\ registry[k].capacity = f.namespaces[registry[k].unit].size
          /\ registry[k].unit \in plain => registry[k].unit \in hw[p].told /\ NvmeDisk(f, registry[k].unit)
     /\ Passed(p) => \A n \in plain \cap hw[p].told :
          NvmeDisk(f, n) => \E k \in UnitsOf(p) : registry[k].unit = n

AhciDisk(f, i) == f.ports[i].implemented /\ f.ports[i].det = 3 /\ f.ports[i].ipm = 1 /\ f.ports[i].sign = "ata"

AhciRegistered(p) ==
  LET f == function[p]
  IN /\ \A k \in UnitsOf(p) : AhciDisk(f, registry[k].unit)
     /\ Passed(p) => \A i \in DOMAIN f.ports :
          AhciDisk(f, i) /\ ~hw[p].port[i].reset => \E k \in UnitsOf(p) : registry[k].unit = i

DisksRegistered ==
  /\ \A k, l \in DOMAIN registry :
       registry[k].place = registry[l].place /\ registry[k].unit = registry[l].unit => k = l
  /\ \A p \in Places :
       CASE function[p].class = "nvme" -> NvmeRegistered(p)
         [] function[p].class = "ahci" -> AhciRegistered(p)
         [] OTHER -> UnitsOf(p) = {}

-----------------------------------------------------------------------------
(* The walk comes to its end, or to the panic of a machine without memory   *)
(* or a controller without an address, when the controllers are sound: none *)
(* breaks, ports whose link was reset come back, and an NVM Express         *)
(* controller may read memory and has queues as long as the driver's.       *)
Sound(p) ==
  LET f == function[p]
  IN /\ f.class \in {"nvme", "xhci"} => ~f.breaks
     /\ f.class = "ahci" => \A i \in DOMAIN f.ports : ~f.ports[i].hangs
     /\ f.class = "nvme" => hw[p].master /\ Supports(f, CqSize)

SetupsEnd == (\A p \in Places : Sound(p)) ~> boot.at \in {"done", "panic"}
=============================================================================
