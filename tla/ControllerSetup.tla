---------------------------- MODULE ControllerSetup ----------------------------
(***************************************************************************)
(* What the set-up of every controller on PCI Express has in common: the   *)
(* configuration space it is found by, the registers behind its base       *)
(* address, the driver's record of it with the physical pages it was       *)
(* given, the list of disks, and the boot thread, which sets up one        *)
(* controller after another.  Modules NvmeSetup, AhciSetup and XhciStart   *)
(* have the three set-ups, module PcieDevices the walk that calls them.    *)
(***************************************************************************)
EXTENDS Integers, Sequences, FiniteSets

CONSTANTS
  Places,       \* the functions of the walk, 1 .. n, in its order
  Machines,     \* what may be at the places, and how many pages are free
  Patience,     \* turns of a loop that counts them (5000 and 500)
  High          \* what the upper half of a base address counts (2^32)

ASSUME SetupAssumption ==
  /\ IsFiniteSet(Places) /\ Places = 1 .. Cardinality(Places)
  /\ \A m \in Machines : m.pages \in Nat /\ DOMAIN m.functions = Places
  /\ Patience \in Nat /\ High \in Nat \ {0}

VARIABLES
  function,     \* at each place: configuration space, and what the device is
  hw,           \* the registers and the state of the device at each place
  driver,       \* the driver's record of it
  chain,        \* the places of the controllers in the drivers' lists, newest first
  registry,     \* STORAGE_DEVICE, the newest disk first
  free, owned,  \* physical pages: free now, free in the beginning
  boot          \* where the boot thread is

world == <<function, owned>>
lists == <<chain, registry>>
setupVars == <<function, hw, driver, chain, registry, free, owned, boot>>

-----------------------------------------------------------------------------
(* The place the thread works on, and what is there.                        *)
Here == boot.place
Function == function[Here]
Device == hw[Here]
Record == driver[Here]

At(class, position) ==
  /\ boot.at = position
  /\ Function.class = class

Go(at) == boot' = [boot EXCEPT !.at = at]

(* A loop that counts its turns.                                            *)
Turn == boot' = [boot EXCEPT !.wait = @ + 1]

(* A set-up returns to the walk, which goes on.                             *)
Return == boot' = [place |-> Here + 1, at |-> "function", unit |-> 1, wait |-> 0]

NoRecord == [base |-> 0, page |-> [name \in {} |-> 0], data |-> <<>>, count |-> 0]

(* pcie_cfg_get_base_address: a register for memory below 4 GB, the first   *)
(* of two for memory above, or one for ports; type 1 has no address.  A     *)
(* driver that forgets the second register of two ...                       *)
LowerHalf(f, i) == IF f.address[i].type = 1 THEN 0 ELSE f.address[i].base

(* ... and the code's.                                                      *)
BaseAddress(f, i) ==
  LET register == f.address[i]
  IN CASE register.io \/ register.type = 0 -> register.base
       [] register.type = 2 -> register.base + High * f.address[i + 1].base
       [] OTHER -> 0

(* alloc_physical_memory(1, 0), called n times: the lowest free pages.      *)
NthOf(set, n) == CHOOSE p \in set : Cardinality({q \in set : q <= p}) = n

Page(n) == NthOf(free, n)

Enough(n) == Cardinality(free) >= n

(* alloc_physical_memory(k, 0): k pages in a row, the lowest there are.     *)
RunsOf(set, k) == {p \in set : p .. (p + k - 1) \subseteq set}

(* The pages of a record go by the name of what they are for and a number;  *)
(* what there is one of has the number 0.                                   *)
The(name) == <<name, 0>>

(* The driver's record with pages for the names of a sequence, cleared: the *)
(* pages of another, or the lowest.                                         *)
Filled(names, pages) ==
  [Record EXCEPT !.page = [name \in DOMAIN @ \cup {names[i] : i \in DOMAIN names} |->
     IF \E i \in DOMAIN names : names[i] = name
     THEN pages[CHOOSE i \in DOMAIN names : names[i] = name] ELSE @[name]]]

Supplied(names) == Filled(names, [i \in DOMAIN names |-> Page(i)])

Allocate(n) == free' = free \ {Page(i) : i \in 1 .. n}

(* What is at address 0 is not there, neither the registers of a controller *)
(* without an address nor the page an allocator without pages answers with: *)
(* the first access ends in the panic of the page fault handler.            *)
Panic(at, when) ==
  /\ boot.at = at
  /\ when
  /\ Go("panic")
  /\ UNCHANGED <<world, lists, hw, driver, free>>

(* The new controller in its driver's list.                                 *)
Open(class, i, next) ==
  /\ At(class, "open")
  /\ BaseAddress(Function, i) # 0
  /\ chain' = <<Here>> \o chain
  /\ driver' = [driver EXCEPT ![Here] = [NoRecord EXCEPT !.base = BaseAddress(Function, i)]]
  /\ Go(next)
  /\ UNCHANGED <<world, registry, hw, free>>

(* storage_insert: at the head of the list, and the partition table is read *)
(* next (module Partitions has the walk through it).                        *)
StorageInsert(unit, capacity) ==
  registry' = <<[place |-> Here, unit |-> unit, capacity |-> capacity]>> \o registry
=============================================================================
