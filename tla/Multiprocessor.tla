----------------------------- MODULE Multiprocessor -----------------------------
(***************************************************************************)
(* The start of the other processors and what they share with the boot     *)
(* processor: apic_setup_multiprocessor and apic_startup_ap on the one     *)
(* side, the start-up code at 0x9000 and aproc_startup on the other, and   *)
(* the console, which every one of them prints to with outchar, character  *)
(* by character under its lock (module ReentrantLock).                     *)
(*                                                                         *)
(* The boot processor starts one processor at a time, because all of them  *)
(* begin on the one stack below 0xA000: it sets APIC_BSP_LOCK, and goes on *)
(* when the started one has cleared it, or after 1000 waits.  When all is  *)
(* done it takes the mapping of low memory away and goes on.  From then on *)
(* the handlers of its interrupts print too; those of the others never do. *)
(***************************************************************************)
EXTENDS ReentrantLock, Console

CONSTANTS
  Boot,         \* the boot processor
  Listed,       \* APIC ids of the enabled processors in the ACPI table
  Slow,         \* processors that may take longer than the 1000 waits
  MaskBits,     \* bits of CPU_MASK: 64
  Text          \* characters the boot processor and its handlers print

ASSUME MachineAssumption ==
  /\ Boot \in Cpus /\ Slow \subseteq Cpus \ {Boot}
  /\ Listed \subseteq 0 .. 254
  /\ MaskBits \in Nat \ {0} /\ Text \in Nat

VARIABLES
  boot,         \* where the boot processor is, and the id it has come to
  mask,         \* CPU_MASK, the set of its bits
  bspLock,      \* APIC_BSP_LOCK
  identity,     \* low memory is mapped: PAGING[0][0] is there
  ap,           \* how far each of the other processors has come
  late,         \* processors given up that are there nevertheless
  jobs,         \* the character and the place in outchar of each call
  left,         \* characters each processor still has to print
  screen, poss, \* the screen, and POSS
  text,         \* every character that was printed, in order
  struck        \* a handler printed while its processor was in outchar

start   == <<boot, mask, bspLock, identity, ap, late>>
output  == <<screen, poss, text>>
console == <<jobs, left, output, struck>>
mvars   == <<vars, start, console>>

-----------------------------------------------------------------------------
Others == Cpus \ {Boot}
Bits   == 0 .. MaskBits - 1

(* The set-up of the table shifts 1 by the APIC id, which counts modulo the *)
(* width of the word.                                                       *)
SetupMadt == {id % MaskBits : id \in Listed \ {Boot}}

MachineInit ==
  /\ Init
  /\ boot = [at |-> "next", id |-> 0]
  /\ mask = SetupMadt
  /\ bspLock = 0 /\ identity = TRUE
  /\ ap = [c \in Others |-> "off"]
  /\ late = {}
  /\ jobs = [c \in Cpus |-> <<>>]
  /\ left = [c \in Cpus |-> IF c = Boot THEN Text ELSE 1]
  /\ screen = Cleared /\ poss = 0 /\ text = <<>> /\ struck = FALSE

Job(c) == jobs[c][Len(jobs[c])]

JobAt(c, place) == Running(c, "inside") /\ Job(c).at = place

OnStack == {c \in Others : ap[c] \in {"trampoline", "kernel", "print"}}

(* Nothing can be said any more: two processors on one stack, one in low    *)
(* memory that is not mapped, or a character below the frame buffer.        *)
Wild ==
  \/ \E c, d \in OnStack : c # d
  \/ ~identity /\ \E c \in Others : ap[c] = "trampoline"
  \/ \E c \in Cpus : JobAt(c, "draw") /\ poss \notin Cells

-----------------------------------------------------------------------------
(* The boot processor. *)
SkipProcessor ==
  /\ boot.at = "next" /\ boot.id \in Bits
  /\ boot.id \notin mask \/ boot.id = Boot
  /\ boot' = [boot EXCEPT !.id = @ + 1]
  /\ UNCHANGED <<vars, mask, bspLock, identity, ap, late, console>>

(* A start that leaves APIC_BSP_LOCK as it was ... *)
StartUnlocked ==
  /\ boot.at = "next" /\ boot.id \in Bits
  /\ boot.id \in mask /\ boot.id # Boot
  /\ boot' = [boot EXCEPT !.at = "startup"]
  /\ UNCHANGED <<vars, mask, bspLock, identity, ap, late, console>>

(* ... and the one of apic_startup_ap: APIC_BSP_LOCK, then INIT.            *)
StartProcessor ==
  /\ boot.at = "next" /\ boot.id \in Bits
  /\ boot.id \in mask /\ boot.id # Boot
  /\ bspLock' = 1
  /\ boot' = [boot EXCEPT !.at = "startup"]
  /\ UNCHANGED <<vars, mask, identity, ap, late, console>>

(* The start-up message; nobody answers for an id that is not there.        *)
SendStartup ==
  /\ boot.at = "startup"
  /\ ap' = [c \in Others |-> IF c = boot.id THEN "trampoline" ELSE ap[c]]
  /\ boot' = [boot EXCEPT !.at = "wait"]
  /\ UNCHANGED <<vars, mask, bspLock, identity, late, console>>

Started ==
  /\ boot.at = "wait" /\ bspLock = 0
  /\ boot' = [at |-> "next", id |-> boot.id + 1]
  /\ UNCHANGED <<vars, mask, bspLock, identity, ap, late, console>>

TimesOut ==
  /\ boot.at = "wait" /\ bspLock = 1
  /\ boot.id \in Others => boot.id \in Slow
  /\ boot' = [at |-> "next", id |-> boot.id + 1]
  /\ late' = late \cup ({boot.id} \cap Others)

(* After a time-out every other bit is set: all ids that are left follow.   *)
GiveUp ==
  /\ TimesOut
  /\ mask' = mask \cup (Bits \ {boot.id})
  /\ UNCHANGED <<vars, bspLock, identity, ap, console>>

UnmapLowMemory ==
  /\ boot.at = "next" /\ boot.id = MaskBits
  /\ identity' = FALSE
  /\ boot' = [boot EXCEPT !.at = "on"]
  /\ UNCHANGED <<vars, mask, bspLock, ap, late, console>>

-----------------------------------------------------------------------------
(* The other processors. *)

(* From real mode at 0x9000 to the kernel, through memory mapped low.       *)
Trampoline(c) ==
  /\ ap[c] = "trampoline"
  /\ ap' = [ap EXCEPT ![c] = "kernel"]
  /\ UNCHANGED <<vars, boot, mask, bspLock, identity, late, console>>

(* Descriptor tables, the processor's features and its local APIC: its own  *)
(* registers and, of what is shared, the same values again.                 *)
SetupProcessor(c) ==
  /\ ap[c] = "kernel"
  /\ ap' = [ap EXCEPT ![c] = "print"]
  /\ UNCHANGED <<vars, boot, mask, bspLock, identity, late, console>>

(* A processor that does not tell that it is done ... *)
HaltSilently(c) ==
  /\ ap[c] = "print" /\ left[c] = 0 /\ calls[c] = <<>>
  /\ ap' = [ap EXCEPT ![c] = "halted"]
  /\ UNCHANGED <<vars, boot, mask, bspLock, identity, late, console>>

(* ... and the code's, which clears APIC_BSP_LOCK and halts.                *)
Release(c) ==
  /\ ap[c] = "print" /\ left[c] = 0 /\ calls[c] = <<>>
  /\ bspLock' = 0
  /\ ap' = [ap EXCEPT ![c] = "halted"]
  /\ UNCHANGED <<vars, boot, mask, identity, late, console>>

-----------------------------------------------------------------------------
(* The console: outchar, called, and between async_lock and async_unlock.   *)
Chars(c) == {c, LF} \cup (IF c = Boot THEN {CR} ELSE {})

Begin(c) ==
  /\ left[c] > 0
  /\ left' = [left EXCEPT ![c] = @ - 1]
  /\ \E char \in Chars(c) :
       jobs' = [jobs EXCEPT ![c] = Append(@, [char |-> char, at |-> "draw"])]
  /\ UNCHANGED <<start, output>>

Prints(c) == IF c = Boot THEN boot.at = "on" ELSE ap[c] = "print"

OutChar(c) ==
  /\ Prints(c) /\ calls[c] = <<>>
  /\ Call(c)
  /\ Begin(c)
  /\ UNCHANGED struck

(* A handler on the boot processor prints while its thread does.            *)
HandlerPrints ==
  /\ ~Wild /\ boot.at = "on" /\ calls[Boot] # <<>>
  /\ Enter(Boot)
  /\ Begin(Boot)
  /\ struck' = TRUE

Goes(c, place) == jobs' = [jobs EXCEPT ![c][Len(jobs[c])].at = place]

Draw(c) ==
  /\ JobAt(c, "draw")
  /\ screen' = DrawChar(screen, poss, Job(c).char)
  /\ text' = Append(text, Job(c).char)
  /\ Goes(c, "move")
  /\ UNCHANGED <<vars, start, left, poss, struck>>

Move(c) ==
  /\ JobAt(c, "move")
  /\ poss' = Moved(poss, Job(c).char)
  /\ Goes(c, "scroll")
  /\ UNCHANGED <<vars, start, left, screen, text, struck>>

Scroll(c) ==
  /\ JobAt(c, "scroll")
  /\ screen' = IF Below(poss) THEN ScrollLine(screen) ELSE screen
  /\ poss' = IF Below(poss) THEN poss - Cols ELSE poss
  /\ Goes(c, "done")
  /\ UNCHANGED <<vars, start, left, text, struck>>

(* The lock's own steps; the call's job ends with the call.                 *)
LockStep(c) ==
  /\ Step(c)
  /\ Running(c, "inside") => Job(c).at = "done"
  /\ jobs' = [jobs EXCEPT ![c] = SubSeq(@, 1, Len(calls'[c]))]
  /\ UNCHANGED <<start, left, output, struck>>

-----------------------------------------------------------------------------
BootStep ==
  /\ ~Wild
  /\ \/ SkipProcessor \/ StartProcessor \/ SendStartup \/ Started \/ GiveUp
     \/ UnmapLowMemory

ApStep(c) == ~Wild /\ (Trampoline(c) \/ SetupProcessor(c) \/ Release(c))

ConsoleStep(c) ==
  ~Wild /\ (OutChar(c) \/ Draw(c) \/ Move(c) \/ Scroll(c) \/ LockStep(c))

MachineNext ==
  \/ BootStep
  \/ \E c \in Others : ApStep(c)
  \/ \E c \in Cpus : ConsoleStep(c)
  \/ HandlerPrints

Machine == MachineInit /\ [][MachineNext]_mvars

(* Processors execute; a wait with nobody to end it times out.              *)
FairMachine ==
  /\ Machine
  /\ WF_mvars(BootStep)
  /\ \A c \in Others : WF_mvars(ApStep(c))
  /\ \A c \in Cpus : WF_mvars(ConsoleStep(c))

-----------------------------------------------------------------------------
(* As long as nobody was given up too early, the others run on the boot     *)
(* stack one at a time, with low memory mapped while they need it, and the  *)
(* boot processor goes on only when the one it waited for is done with it.  *)
(* A time-out of a processor that is late, not absent, ends this.           *)
HandedOver ==
  late = {} =>
    \A c \in OnStack : identity /\ boot.id = c /\ boot.at = "wait" /\ bspLock = 1

(* The lock of the console keeps its callers apart and is left free, also   *)
(* with handlers that print between any two of its steps: a handler takes   *)
(* the lock for its interrupted owner, counts it down to 0 and gives it     *)
(* away, which is harmless only because no other processor is left by then. *)
ConsoleExclusive == late = {} \/ ~struck => MutualExclusion /\ LeftFree

(* What is on the screen is what was printed, with nothing lost, doubled or *)
(* out of place at the end of a line or of the page, whoever printed it, as *)
(* long as no handler printed in the middle of it.                          *)
ScreenShowsText ==
  ~struck /\ (\A c \in Cpus : jobs[c] # <<>> => Job(c).at \in {"draw", "done"})
    => Shows(screen, poss, text)

(* What the kernel or a handler of it has to print gets printed, however    *)
(* deep the handlers nest, when no late processor is about.                 *)
KernelPrints == Running(Boot, "compare") ~> Running(Boot, "inside") \/ Wild \/ late # {}

(* The kernel gets on, whatever processors are listed, absent, or late, and *)
(* every listed processor that is there, and whose id is a bit of the mask, *)
(* gets to its idle loop, also after others were given up.                  *)
ProcessorsStart ==
  /\ <>(boot.at = "on" \/ Wild)
  /\ \A c \in Listed \cap Others \cap Bits : <>(ap[c] = "halted" \/ Wild)
=============================================================================
