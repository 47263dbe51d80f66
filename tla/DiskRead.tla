------------------------------- MODULE DiskRead -------------------------------
(***************************************************************************)
(* What a reader of a disk may rely on: a request changes the sectors of   *)
(* its own buffer only, and an answer of success means that each of them   *)
(* holds the sector of the disk that was asked for.                        *)
(***************************************************************************)
EXTENDS Integers

CONSTANTS
  Sector,       \* sectors of the disk
  Count,        \* sectors a caller asks for at a time
  Position      \* sectors of memory from the start of the buffer on, 0, 1, ...

VARIABLES
  request,      \* the request under way, or None
  buffer,       \* what is in memory at each position
  answer        \* of the last request

None == [lba |-> 0, count |-> 0]
Old  == -1      \* what was there before the request
Junk == -2      \* something that is no sector of the disk

Init ==
  /\ request = None
  /\ buffer = [j \in Position |-> Old]
  /\ answer = "none"

Ask(lba, count) ==
  /\ request = None
  /\ request' = [lba |-> lba, count |-> count]
  /\ buffer' = [j \in Position |-> Old]
  /\ answer' = "none"

Transfer ==
  /\ request # None
  /\ buffer' \in [Position -> Sector \cup {Old, Junk}]
  /\ \A j \in Position : j >= request.count => buffer'[j] = buffer[j]
  /\ UNCHANGED <<request, answer>>

(* The last transfer and the answer may come at once. *)
Finish(ok) ==
  /\ request # None
  /\ buffer' \in [Position -> Sector \cup {Old, Junk}]
  /\ \A j \in Position : j >= request.count => buffer'[j] = buffer[j]
  /\ ok => \A i \in 0 .. request.count - 1 : buffer'[i] = request.lba + i
  /\ request' = None
  /\ answer' = IF ok THEN "ok" ELSE "error"

Next ==
  \/ \E lba \in Sector, count \in Count : Ask(lba, count)
  \/ Transfer
  \/ \E ok \in BOOLEAN : Finish(ok)

Spec == Init /\ [][Next]_<<request, buffer, answer>>
=============================================================================
