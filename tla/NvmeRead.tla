------------------------------- MODULE NvmeRead -------------------------------
(***************************************************************************)
(* Reading an NVM Express disk, in driver/nvme/nvme.c: the loop of         *)
(* nvm_express_read over nvm_express_transfer, which sends one read        *)
(* command and waits for its completion.  A buffer that is not aligned to  *)
(* a page is filled through the bounce page of the device.                 *)
(*                                                                         *)
(* The controller is external; its view of a command is the one that       *)
(* driver/nvme/nvme.h gives.                                               *)
(***************************************************************************)
EXTENDS Integers

CONSTANTS
  PageSectors,  \* sectors in a page, 8
  LastSector,   \* of the disk
  Counts        \* sectors asked for at a time

VARIABLES
  request,      \* the arguments of the last read
  buffer,       \* what is in the caller's memory, from buf on, a page and more
  bounce,       \* what is in the device's bounce page
  answer,       \* of the last read, or "none" while it is under way
  call          \* what is done of it, and whether buf is aligned

vars == <<request, buffer, bounce, answer, call>>

-----------------------------------------------------------------------------
Sector   == 0 .. LastSector
Position == 0 .. PageSectors + 1
Old == -1

Remaining == request.count - call.done

Overwrite(memory, from, data) ==
  [j \in DOMAIN memory |-> IF j - from \in DOMAIN data THEN data[j - from] ELSE memory[j]]

(* page0 # page1: the transfer would end in a later page than it starts in. *)
CrossesPage(count) == count \div PageSectors # 0

(* The sectors a command moves; its field CONT counts from zero. *)
Moved(lba, cont) == [i \in 0 .. cont |-> lba + i]

Fail == answer' = "error" /\ UNCHANGED <<request, buffer, bounce, call>>

-----------------------------------------------------------------------------
Init ==
  /\ request = [lba |-> 0, count |-> 0]
  /\ buffer = [j \in Position |-> Old]
  /\ bounce = [j \in 0 .. PageSectors - 1 |-> Old]
  /\ answer = "ok"
  /\ call = [done |-> 0, aligned |-> TRUE]

Ask(lba, count, aligned) ==
  /\ answer # "none"
  /\ lba + count - 1 \in Sector
  /\ request' = [lba |-> lba, count |-> count]
  /\ buffer' = [j \in Position |-> Old]
  /\ answer' = "none"
  /\ call' = [done |-> 0, aligned |-> aligned]
  /\ UNCHANGED bounce

TransferRefused ==
  /\ answer = "none"
  /\ CrossesPage(Remaining)
  /\ Fail

(* The completion has a status other than 0, as it must have when a sector   *)
(* is not on the disk.                                                       *)
TransferFails ==
  /\ answer = "none"
  /\ ~CrossesPage(Remaining)
  /\ Fail

(* The whole remainder is asked for, whatever the piece is, and what is done *)
(* moves on by the piece.                                                    *)
Transfer ==
  /\ answer = "none"
  /\ ~CrossesPage(Remaining)
  /\ LET lba   == request.lba + call.done
         moved == Moved(lba, Remaining)
         piece == IF Remaining < PageSectors THEN Remaining ELSE PageSectors
     IN  /\ lba + Remaining \in Sector
         /\ IF call.aligned
            THEN buffer' = Overwrite(buffer, call.done, moved) /\ UNCHANGED bounce
            ELSE /\ bounce' = Overwrite(bounce, 0, moved)
                 /\ buffer' = Overwrite(buffer, call.done, [i \in 0 .. piece - 1 |-> bounce'[i]])
         /\ call' = [call EXCEPT !.done = @ + piece]
         /\ answer' = IF Remaining = piece THEN "ok" ELSE "none"
  /\ UNCHANGED request

Next ==
  \/ \E lba \in Sector, count \in Counts, aligned \in BOOLEAN : Ask(lba, count, aligned)
  \/ TransferRefused \/ TransferFails \/ Transfer

Spec == Init /\ [][Next]_vars

-----------------------------------------------------------------------------
(* A read moves as many sectors as it was asked for: nothing behind the      *)
(* buffer changes.                                                           *)
BufferKept ==
  \A j \in Position : j >= request.count => buffer[j] = Old
=============================================================================
