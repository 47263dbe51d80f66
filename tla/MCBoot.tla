--------------------------------- MODULE MCBoot ---------------------------------
(***************************************************************************)
(* Four parts of the way up that share no state: a behaviour is one of     *)
(* MemoryMap, of DeviceInterrupts, of PcieDevices or of Sprintf, as "part" *)
(* says, and the variables of the others stay as they began.               *)
(*                                                                         *)
(* Maps of three entries on eight pages, in two orders, with gaps and      *)
(* without; 64 KB are one page, 1 MB three.  Three controllers for the     *)
(* three vectors 6, 8 and, when those are taken, 0; 7 stands for 0x80.     *)
(* Every number format with every set of flags.                            *)
(* Two places for controllers of PCI Express, ten pairs of them with       *)
(* enough pages and with too few, every register as a firmware leaves it.  *)
(* A page holds two addresses, so the array of three scratchpads is two    *)
(* pages.                                                                  *)
(***************************************************************************)
EXTENDS DeviceInterrupts, PcieDevices, MemoryMap

CONSTANTS Formats, Capacities

VARIABLES part, format, next, ctx, result

textVars == <<format, next, ctx, result>>

S == INSTANCE Sprintf

-----------------------------------------------------------------------------
Entry(b, n, t) == [base |-> b, size |-> n, type |-> t]

Extents ==
  {c \in (0 .. 2) \X (1 .. 3) \X (1 .. 5) \X (1 .. 3) \X (2 .. 6) \X (1 .. 2) :
     c[1] + c[2] <= c[3] /\ c[3] + c[4] <= c[5]}

Types == {"free", "loader", "reserved"}

MCMaps ==
  UNION {{<<Entry(c[5], c[6], t[1]), Entry(c[1], c[2], t[2]), Entry(c[3], c[4], t[3])>>,
          <<Entry(c[1], c[2], t[2]), Entry(c[5], c[6], t[1]), Entry(c[3], c[4], t[3])>>}
         : c \in Extents, t \in Types \X Types \X Types}

MCFirst == <<Entry(2, 2, "free"), Entry(0, 1, "free"), Entry(1, 1, "free")>>

Chip(gsi, pins) == [is |-> "ioapic", gsi |-> gsi, last |-> pins]
Apic(bsp, up) == [boot |-> bsp, up |-> up]

MCApics == {Apic(0, {0}), Apic(1, {1}), Apic(1, {0, 1})}

Override(irq, gsi) == [is |-> "override", irq |-> irq, gsi |-> gsi]

MCMadts == {<<Chip(0, 3)>>,
            <<Chip(0, 1), Override(1, 3), Chip(2, 3)>>,
            <<Override(0, 2), Chip(0, 2)>>}

Conversion(conv, len, arg, flags, width, prec) ==
  [conv |-> conv, len |-> len, arg |-> arg, flags |-> flags, width |-> width, prec |-> prec]

Literal == Conversion("literal", "", <<"=">>, {}, 0, -1)

AllFlags == {"-", "+", " ", "0", "#"}

Eighths(n, short) == [eighths |-> n, short |-> short]

MCFormats ==
  {<<Literal, Conversion(n[1], n[2], n[3], f, w, p)>> :
     n \in {<<"d", "", 0>>, <<"d", "", -7>>, <<"d", "hh", 200>>, <<"u", "hh", 300>>,
            <<"o", "", 8>>, <<"x", "", 0>>, <<"X", "", 26>>},
     f \in SUBSET AllFlags, w \in {0, 4, -5}, p \in {-1, 0, 3}}
  \cup {<<Conversion(n[1], "", n[2], f, w, p)>> :
     n \in {<<"p", 26>>} \cup {<<"f", Eighths(k, short)>> : k \in {-11, 7, 18, 20}, short \in BOOLEAN},
     f \in SUBSET AllFlags, w \in {0, 6, 12}, p \in {-1, 0, 1, 2}}
  \cup {<<Conversion(n[1], "", n[2], f, w, p), Literal>> :
     n \in {<<"s", <<>>>>, <<"s", <<"a", "b", "c", "d">>>>, <<"c", <<"a">>>>, <<"%", <<>>>>, <<"?", <<>>>>},
     f \in SUBSET {"-", "0"}, w \in {0, 3, -6}, p \in {-1, 0, 3}}

Memory(low, high) ==
  [a \in 0 .. 5 |-> IF a \in {0, 5} THEN [io |-> FALSE, type |-> IF high > 0 /\ a = 0 THEN 2 ELSE 0, base |-> low]
                    ELSE [io |-> FALSE, type |-> 0, base |-> IF a = 1 THEN high ELSE 0]]

Nvme(address, mqes, breaks, namespaces) ==
  [class |-> "nvme", address |-> address, capability |-> [MQES |-> mqes, MPSMIN |-> 0], breaks |-> breaks, namespaces |-> namespaces]
Space(size, lower, upper, formats) == [size |-> size, index |-> [lower |-> lower, upper |-> upper], formats |-> formats]
Ahci(ports) == [class |-> "ahci", address |-> Memory(3, 0), ports |-> ports]
Sata(implemented, det, ipm, sign, hangs) ==
  [implemented |-> implemented, det |-> det, ipm |-> ipm, sign |-> sign, hangs |-> hangs]
Xhci(address, slots, scratch, breaks) ==
  [class |-> "xhci", address |-> address, capability |-> [slots |-> slots, scratchpads |-> scratch], breaks |-> breaks]

Many == [n \in 1 .. 17 |-> IF n = 17 THEN 9 ELSE 12]

Good == Nvme(Memory(2, 1), 255, FALSE, <<Space(5, 1, 0, <<12, 9>>), Space(7, 0, 0, <<9, 12>>)>>)
Short == Nvme(Memory(2, 0), 127, FALSE, <<Space(0, 0, 0, <<9>>), Space(4, 0, 0, <<9>>)>>)
Breaks == Nvme(Memory(6, 0), 255, TRUE, <<Space(3, 0, 0, <<9>>), Space(8, 0, 1, Many)>>)
Lost == Nvme(Memory(0, 0), 1023, FALSE, <<>>)
Slow == Ahci(<<Sata(TRUE, 3, 1, "ata", FALSE), Sata(FALSE, 3, 1, "ata", FALSE), Sata(TRUE, 3, 1, "ata", TRUE)>>)
Mixed == Ahci(<<Sata(TRUE, 1, 0, "none", FALSE), Sata(TRUE, 3, 2, "ata", FALSE), Sata(TRUE, 3, 1, "atapi", FALSE),
                Sata(TRUE, 3, 1, "ata", FALSE)>>)
Usb == Xhci(Memory(1, 2), 255, 0, FALSE)
Scratch == Xhci(Memory(5, 0), 32, 3, TRUE)
Anything == [class |-> "other"]

Machine(first, second, pages) == [functions |-> <<first, second>>, pages |-> pages]

MCMachines ==
  { Machine(Good, Mixed, 8), Machine(Short, Usb, 7), Machine(Anything, Breaks, 5), Machine(Slow, Slow, 5),
    Machine(Scratch, Good, 12), Machine(Usb, Slow, 7), Machine(Good, Lost, 9), Machine(Mixed, Scratch, 10),
    Machine(Scratch, Usb, 7), Machine(Good, Usb, 3), Machine(Anything, Anything, 0) }

-----------------------------------------------------------------------------
MCInit ==
  /\ part \in {"map", "interrupts", "text", "devices"}
  /\ MapInit /\ (part = "map" \/ firmware = MCFirst)
  /\ IF part = "devices" THEN TRUE ELSE function = <<Anything, Anything>> /\ Begins(FALSE)
  /\ PcieInit
  /\ IF part = "interrupts" THEN Init
     ELSE madt = <<>> /\ line = 1 /\ apic = [boot |-> 0, up |-> {0}] /\ kind = [d \in Devices |-> "none"] /\ early = {} /\ Initial
  /\ IF part = "text" THEN S!Init ELSE format = <<>> /\ S!Initial /\ ctx.sink = S!Unlimited

MCNext ==
  \/ part = "map" /\ MapNext /\ UNCHANGED <<part, vars, textVars, setupVars>>
  \/ part = "interrupts" /\ Next /\ UNCHANGED <<part, mapVars, textVars, setupVars>>
  \/ part = "text" /\ S!Next /\ UNCHANGED <<part, vars, mapVars, setupVars>>
  \/ part = "devices" /\ PcieNext /\ UNCHANGED <<part, vars, mapVars, textVars>>

MCSpec ==
  /\ MCInit /\ [][MCNext]_<<part, vars, mapVars, textVars, setupVars>>
  /\ Fairness
  /\ WF_setupVars(part = "devices" /\ BootStep)
  /\ \A p \in Places : WF_setupVars(part = "devices" /\ Controller(p))

(* What a buffer gets of a text, and what the text is (sprintf.c).          *)
FormatSound == S!FormatSound

(* "NUL-terminate (does NOT count towards return value)" (sprintf.c:598)    *)
ResultIsLength == S!ResultIsLength
=============================================================================
