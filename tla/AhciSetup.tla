------------------------------- MODULE AhciSetup -------------------------------
(***************************************************************************)
(* setup_ahci_controller (driver/ahci/ahci.c): every port with an active   *)
(* ATA device is stopped, gets a page for its command list and the answers *)
(* of the device, is started and registered as a disk, and only then asked *)
(* for its name.  Module AhciRead has the operations.                      *)
(*                                                                         *)
(* A port stops and starts when it likes after it was told to; one that    *)
(* hangs does so after the reset of its interface, if at all.              *)
(***************************************************************************)
EXTENDS ControllerSetup

-----------------------------------------------------------------------------
(* GHC.AE and a port: PxCMD with what runs of it, PxSIG, the state of the   *)
(* link (PxSSTS.DET is 3), whether that was reset, and the addresses.       *)
AhciPort(starts, said) ==
  [ST |-> starts, CR |-> starts, sign |-> said.sign, link |-> said.det = 3, reset |-> FALSE,
   CLB |-> 0, FB |-> <<0, 0>>]

AhciRegisters(f, starts, master) ==
  [AE |-> FALSE, master |-> master,
   port |-> [i \in DOMAIN f.ports |-> AhciPort(starts /\ f.ports[i].det = 3, f.ports[i])]]

PortNumber == boot.unit
Said == Function.ports[PortNumber]
Port == Device.port[PortNumber]

(* FISA is in the page of CMDA, behind the list of 1024 bytes.              *)
FisOffset == 1024

NextPort == boot' = [boot EXCEPT !.at = "port", !.unit = @ + 1, !.wait = 0]

(* The three tests before the reset.                                        *)
Present == Said.implemented /\ Said.det = 3 /\ Said.ipm = 1

-----------------------------------------------------------------------------
EnableAhci ==
  /\ At("ahci", "general")
  /\ hw' = [hw EXCEPT ![Here] = [@ EXCEPT !.master = TRUE, !.AE = TRUE]]
  /\ Go("port")
  /\ UNCHANGED <<world, lists, driver, free>>

SkipPort ==
  /\ At("ahci", "port")
  /\ PortNumber \in DOMAIN Function.ports /\ ~Present
  /\ NextPort
  /\ UNCHANGED <<world, lists, hw, driver, free>>

(* ahci_port_reset.                                                         *)
StopPort ==
  /\ At("ahci", "port")
  /\ PortNumber \in DOMAIN Function.ports /\ Present
  /\ hw' = [hw EXCEPT ![Here].port[PortNumber].ST = FALSE]
  /\ Go("stop")
  /\ UNCHANGED <<world, lists, driver, free>>

(* The interface is reset only when the port has not stopped in time.       *)
WaitStopped ==
  /\ At("ahci", "stop")
  /\ IF ~Port.CR THEN Go("signature") /\ UNCHANGED hw
     ELSE IF boot.wait < Patience THEN Turn /\ UNCHANGED hw
     ELSE /\ hw' = [hw EXCEPT ![Here].port[PortNumber] =
                              [@ EXCEPT !.link = FALSE, !.sign = "none", !.reset = TRUE]]
          /\ Go("signature")
  /\ UNCHANGED <<world, lists, driver, free>>

(* The signature is looked at at once.                                      *)
CheckSignature ==
  /\ At("ahci", "signature")
  /\ IF Port.sign = "ata" THEN Go("command") ELSE NextPort
  /\ UNCHANGED <<world, lists, hw, driver, free>>

(* A driver that shares one page among the ports ...                        *)
SharedPage(i) == IF <<"port", 1>> \in DOMAIN Record.page THEN Record.page[<<"port", 1>>] ELSE Page(1)

(* ... and the code's, a page for each.                                     *)
CommandPage(i) == Page(1)

GiveCommandPage ==
  /\ At("ahci", "command")
  /\ Enough(1)
  /\ driver' = [driver EXCEPT ![Here].page =
                  [name \in DOMAIN @ \cup {<<"port", PortNumber>>} |->
                     IF name = <<"port", PortNumber>> THEN CommandPage(PortNumber) ELSE @[name]]]
  /\ free' = free \ {CommandPage(PortNumber)}
  /\ hw' = [hw EXCEPT ![Here].port[PortNumber] =
                      [@ EXCEPT !.CLB = CommandPage(PortNumber), !.FB = <<CommandPage(PortNumber), FisOffset>>]]
  /\ Go("restart")
  /\ UNCHANGED <<world, lists>>

(* Two waits without an end: for the port to have stopped, and, when it is  *)
(* started, for the link.                                                   *)
StartPort ==
  /\ At("ahci", "restart")
  /\ ~Port.CR
  /\ hw' = [hw EXCEPT ![Here].port[PortNumber].ST = TRUE]
  /\ Go("link")
  /\ UNCHANGED <<world, lists, driver, free>>

(* The disk is registered before it was asked for its name, and without its *)
(* capacity.                                                                *)
AddDisk ==
  /\ At("ahci", "link")
  /\ Port.link
  /\ StorageInsert(PortNumber, 0)
  /\ Go("name")
  /\ UNCHANGED <<world, chain, hw, driver, free>>

(* The page with the answer stays the driver's, whether the device has      *)
(* answered or not.                                                         *)
AskName ==
  /\ At("ahci", "name")
  /\ Enough(1)
  /\ \E named \in BOOLEAN :
       driver' = [driver EXCEPT ![Here] =
                    [Supplied(<< <<"name", PortNumber>> >>) EXCEPT !.count = IF named THEN @ + 1 ELSE @]]
  /\ Allocate(1)
  /\ NextPort
  /\ UNCHANGED <<world, lists, hw>>

AhciDone ==
  /\ At("ahci", "port")
  /\ PortNumber \notin DOMAIN Function.ports
  /\ Return
  /\ UNCHANGED <<world, lists, hw, driver, free>>

AhciPanics ==
  \/ Panic("open", Function.class = "ahci" /\ BaseAddress(Function, 5) = 0)
  \/ Panic("command", Function.class = "ahci" /\ ~Enough(1))
  \/ Panic("name", Function.class = "ahci" /\ ~Enough(1))

-----------------------------------------------------------------------------
(* The command list of a port stops, when it was told to, and starts; when  *)
(* the interface was reset, the device comes back with its signature, and   *)
(* a port that hung may have stopped.                                       *)
PortStops(p) ==
  /\ function[p].class = "ahci"
  /\ \E i \in DOMAIN hw[p].port :
       /\ hw[p].port[i].CR /\ ~hw[p].port[i].ST /\ ~function[p].ports[i].hangs
       /\ hw' = [hw EXCEPT ![p].port[i].CR = FALSE]
  /\ UNCHANGED <<world, lists, driver, free, boot>>

PortStarts(p) ==
  /\ function[p].class = "ahci"
  /\ \E i \in DOMAIN hw[p].port :
       /\ hw[p].port[i].ST /\ ~hw[p].port[i].CR
       /\ hw' = [hw EXCEPT ![p].port[i].CR = TRUE]
  /\ UNCHANGED <<world, lists, driver, free, boot>>

LinkReturns(p) ==
  /\ function[p].class = "ahci"
  /\ \E i \in DOMAIN hw[p].port, stopped \in BOOLEAN :
       /\ hw[p].port[i].sign = "none"
       /\ hw' = [hw EXCEPT ![p].port[i] = [@ EXCEPT !.link = TRUE, !.sign = function[p].ports[i].sign,
                                                        !.CR = hw[p].port[i].CR /\ ~stopped]]
  /\ UNCHANGED <<world, lists, driver, free, boot>>

AhciController(p) == PortStops(p) \/ PortStarts(p) \/ LinkReturns(p)

AhciSteps ==
  \/ Open("ahci", 5, "general")
  \/ EnableAhci \/ SkipPort \/ StopPort \/ WaitStopped \/ CheckSignature
  \/ GiveCommandPage \/ StartPort \/ AddDisk \/ AskName \/ AhciDone
  \/ AhciPanics
=============================================================================
