------------------------------- MODULE XhciStart -------------------------------
(***************************************************************************)
(* setup_usb_xhci_pcie (driver/xhci/xhci.c) up to the enumeration of the   *)
(* ports: the controller is halted and reset, its registers are given the  *)
(* pages it works with, and it is started.  Modules XhciPort and           *)
(* XhciEnumeration have what follows, module DeviceInterrupts its vector.  *)
(*                                                                         *)
(* The controller halts, starts and ends its reset when it likes; the      *)
(* reset clears the registers that were written before it ended.           *)
(***************************************************************************)
EXTENDS ControllerSetup

CONSTANT Pointers   \* addresses a page holds (512)

ASSUME PointersAssumption == Pointers \in Nat \ {0}

-----------------------------------------------------------------------------
Nothing == [DCBAAP |-> 0, CRCR |-> 0, DNCTRL |-> 0, CONFIG |-> 0]
Left    == [DCBAAP |-> 4096, CRCR |-> 4096, DNCTRL |-> 1, CONFIG |-> 1]
NoInterrupter == [IE |-> FALSE, ERSTSZ |-> 0, ERSTBA |-> <<0, 0>>, ERDP |-> 0]

(* USBCMD and USBSTS, the other operational registers and the interrupter,  *)
(* from a firmware that used the controller or not, and let it run or not.  *)
XhciRegisters(runs, used, master) ==
  [RS |-> runs, INTE |-> FALSE, HCRST |-> FALSE, HCH |-> ~runs, CNR |-> FALSE, master |-> master,
   operational |-> IF used THEN Left ELSE Nothing, interrupter |-> NoInterrupter]

(* HCSPARAMS: how many slots and scratchpads there are.                     *)
CapabilitySpace(slots, scratchpads) == [slots |-> slots, scratchpads |-> scratchpads]

(* The segment table is in the page of the contexts, at 0x800: what is in   *)
(* front of it are a pointer for each slot and one for the scratchpads.     *)
SegmentTable == 2048
ContextBytes(slots) == 8 * (slots + 1)

Segment(ring) == [RSBA |-> ring, RSSZ |-> 256]

(* The scratchpads: as many pages for the array of their addresses as it    *)
(* takes, none when there are no scratchpads, and one for each.             *)
ArrayPages(f) == (f.capability.scratchpads + Pointers - 1) \div Pointers

Scratchpads(f) == [i \in 1 .. ArrayPages(f) |-> <<"array", i>>]
                  \o [i \in 1 .. f.capability.scratchpads |-> <<"scratch", i>>]

XhcPages(f) == <<The("context")>> \o Scratchpads(f) \o <<The("command"), The("event")>>

(* The pages they get: the lowest for the contexts, the lowest run of the   *)
(* rest for the array, which its address alone stands for, and the lowest   *)
(* of what is left one by one.                                              *)
ArrayFirst(k) == NthOf(RunsOf(free \ {Page(1)}, k), 1)
Array(k) == {ArrayFirst(k) + i - 1 : i \in 1 .. k}

Others(k) == free \ ({Page(1)} \cup Array(k))

XhcAddresses(f) ==
  LET k == ArrayPages(f)
  IN [i \in DOMAIN XhcPages(f) |->
        CASE i = 1 -> Page(1)
          [] 1 < i /\ i <= k + 1 -> ArrayFirst(k) + i - 2
          [] i > k + 1 -> NthOf(Others(k), i - k - 1)]

EnoughForXhc(f) ==
  /\ Enough(1)
  /\ RunsOf(free \ {Page(1)}, ArrayPages(f)) # {}
  /\ Cardinality(Others(ArrayPages(f))) >= f.capability.scratchpads + 2

-----------------------------------------------------------------------------
(* xhci_reset_controller.                                                   *)
HaltController ==
  /\ At("xhci", "halt")
  /\ hw' = [hw EXCEPT ![Here].RS = FALSE]
  /\ Go("halting")
  /\ UNCHANGED <<world, lists, driver, free>>

ResetController ==
  /\ At("xhci", "halting")
  /\ Device.HCH
  /\ hw' = [hw EXCEPT ![Here].HCRST = TRUE]
  /\ Go("resetting")
  /\ UNCHANGED <<world, lists, driver, free>>

(* The reset is over when both bits are clear.                              *)
ResetOver == ~Device.HCRST /\ ~Device.CNR

(* The reset failed when a register is not clear.                           *)
CheckReset ==
  /\ At("xhci", "resetting")
  /\ ResetOver
  /\ IF Device.operational = Nothing /\ ~Device.RS /\ ~Device.INTE THEN Go("configure") ELSE Return
  /\ UNCHANGED <<world, lists, hw, driver, free>>

(* xhci_configure_controller: the pages in the order of their allocation.   *)
ConfigureController ==
  /\ At("xhci", "configure")
  /\ EnoughForXhc(Function)
  /\ LET page == XhcAddresses(Function) n == Len(XhcPages(Function))
     IN /\ driver' = [driver EXCEPT ![Here] = [Filled(XhcPages(Function), page) EXCEPT !.data = Segment(page[n])]]
        /\ free' = free \ {page[i] : i \in 1 .. n}
        /\ hw' = [hw EXCEPT ![Here] = [@ EXCEPT
             !.operational = [DCBAAP |-> page[1], CRCR |-> page[n - 1], DNCTRL |-> 65535,
                              CONFIG |-> Function.capability.slots],
             !.interrupter = [IE |-> TRUE, ERSTSZ |-> 1, ERSTBA |-> <<page[1], SegmentTable>>, ERDP |-> page[n]]]]
  /\ Go("start")
  /\ UNCHANGED <<world, lists>>

(* xhci_start_controller.                                                   *)
StartController ==
  /\ At("xhci", "start")
  /\ hw' = [hw EXCEPT ![Here] = [@ EXCEPT !.INTE = TRUE, !.RS = TRUE]]
  /\ Go("starting")
  /\ UNCHANGED <<world, lists, driver, free>>

XhciDone ==
  /\ At("xhci", "starting")
  /\ ~Device.HCH
  /\ Return
  /\ UNCHANGED <<world, lists, hw, driver, free>>

XhciPanics ==
  \/ Panic("open", Function.class = "xhci" /\ BaseAddress(Function, 0) = 0)
  \/ Panic("configure", Function.class = "xhci" /\ ~EnoughForXhc(Function))

-----------------------------------------------------------------------------
HaltsOrRuns(p) ==
  /\ function[p].class = "xhci"
  /\ hw[p].RS = hw[p].HCH /\ ~hw[p].HCRST
  /\ hw' = [hw EXCEPT ![p].HCH = ~hw[p].RS]
  /\ UNCHANGED <<world, lists, driver, free, boot>>

(* A controller that is broken has something left behind its reset.         *)
ResetEnds(p) ==
  /\ function[p].class = "xhci"
  /\ hw[p].HCRST
  /\ \E broken \in {FALSE, function[p].breaks}, ready \in BOOLEAN :
       hw' = [hw EXCEPT ![p] = [@ EXCEPT !.HCRST = FALSE, !.CNR = ~ready, !.HCH = TRUE, !.RS = FALSE,
                                         !.INTE = FALSE,
                                         !.operational = IF broken THEN Left ELSE Nothing,
                                         !.interrupter = NoInterrupter]]
  /\ UNCHANGED <<world, lists, driver, free, boot>>

BecomesReady(p) ==
  /\ function[p].class = "xhci"
  /\ hw[p].CNR
  /\ hw' = [hw EXCEPT ![p].CNR = FALSE]
  /\ UNCHANGED <<world, lists, driver, free, boot>>

XhciController(p) == HaltsOrRuns(p) \/ ResetEnds(p) \/ BecomesReady(p)

XhciSteps ==
  \/ Open("xhci", 0, "halt")
  \/ HaltController \/ ResetController \/ CheckReset \/ ConfigureController \/ StartController \/ XhciDone
  \/ XhciPanics
=============================================================================
