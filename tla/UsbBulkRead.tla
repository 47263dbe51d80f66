----------------------------- MODULE UsbBulkRead -----------------------------
(***************************************************************************)
(* Reading a USB disk, in driver/usb/usb_bulk.c.  usb_bulk_read splits a   *)
(* request in pieces of a page, which go through the device's bounce page  *)
(* when the caller's buffer is not aligned; scsi_command sends a command   *)
(* (CBW), takes the data and takes the status (CSW), each a transfer that  *)
(* may fail.                                                               *)
(*                                                                         *)
(* The disk is external: a bulk-only device, which answers a command with  *)
(* its data and then its status, in this order, and with less data when    *)
(* the command failed.  EarlyCbw says that it takes the next command while *)
(* the status of the last one has not been fetched.                        *)
(***************************************************************************)
EXTENDS Integers, Sequences

CONSTANTS
  PageSectors,  \* sectors in a page, 8
  LastSector,   \* of the disk
  Counts,       \* sectors asked for at a time
  EarlyCbw

ASSUME BulkAssumption ==
  /\ PageSectors \in Nat \ {0} /\ LastSector \in Nat
  /\ Counts \subseteq Nat \ {0}
  /\ EarlyCbw \in BOOLEAN

VARIABLES
  request,      \* the arguments lba and sec of the read under way, or None
  buffer,       \* what is in the caller's memory, from buf on
  bounce,       \* what is in the device's bounce page
  answer,       \* of the last read
  call,         \* where the read is, what is done, and the command's mark
  waiting,      \* the command the disk has and has not begun, or NoCommand
  packets,      \* what the disk has to send
  halted        \* bulk endpoints that stopped at an error

vars == <<request, buffer, bounce, answer, call, waiting, packets, halted>>

-----------------------------------------------------------------------------
Sector   == 0 .. LastSector
Position == UNION {0 .. count : count \in Counts}

None      == [lba |-> 0, count |-> 0]
NoCommand == [lba |-> 0, count |-> 0, mark |-> 0]
Old  == -1
Junk == -2

Calls == [place : {"idle", "cbw", "data", "csw"}, done : Nat, aligned : BOOLEAN, mark : 0 .. 2]

(* rsec, or read: the sectors of the next piece. *)
Piece ==
  IF request.count - call.done > PageSectors THEN PageSectors ELSE request.count - call.done

(* The loop goes on by what was read. *)
Stride == Piece

(* dataLen, in sectors. *)
DataLength == Piece

(* A command of usb_bulk_read that forgets what is done, ... *)
CommandFromStart == [lba |-> request.lba, count |-> Piece, mark |-> call.mark]

(* ... and the code's.  The mark is nothing the code knows of: it tells the  *)
(* command from the ones before, which all carry the tag 1.                  *)
Command == [lba |-> request.lba + call.done, count |-> Piece, mark |-> call.mark]

(* n sectors from lba on. *)
Sectors(lba, n) == [i \in 0 .. n - 1 |-> lba + i]

Overwrite(memory, from, data) ==
  [j \in DOMAIN memory |-> IF j - from \in DOMAIN data THEN data[j - from] ELSE memory[j]]

(* The data of a transfer, in the buffer or in the bounce page. *)
Land(data) ==
  IF call.aligned
  THEN buffer' = Overwrite(buffer, call.done, data) /\ UNCHANGED bounce
  ELSE bounce' = Overwrite(bounce, 0, data) /\ UNCHANGED buffer

(* The read answers, with the code of what failed. *)
Fail ==
  /\ request' = None
  /\ answer' = "error"
  /\ call' = [call EXCEPT !.place = "idle", !.done = 0, !.mark = (@ + 1) % 3]

-----------------------------------------------------------------------------
Init ==
  /\ request = None
  /\ buffer = [j \in Position |-> Old]
  /\ bounce = [j \in 0 .. PageSectors - 1 |-> Old]
  /\ answer = "none"
  /\ call = [place |-> "idle", done |-> 0, aligned |-> TRUE, mark |-> 0]
  /\ waiting = NoCommand
  /\ packets = <<>>
  /\ halted = {}

(* storage_operation calls READ. *)
Ask(lba, count, aligned) ==
  /\ call.place = "idle"
  /\ lba + count - 1 \in Sector
  /\ request' = [lba |-> lba, count |-> count]
  /\ buffer' = [j \in Position |-> Old]
  /\ answer' = "none"
  /\ call' = [call EXCEPT !.place = "cbw", !.aligned = aligned]
  /\ UNCHANGED <<bounce, waiting, packets, halted>>

(* The transfer of the CBW ends when the disk takes it; on an endpoint that  *)
(* has halted no transfer ever ends.                                         *)
SendCbw ==
  /\ call.place = "cbw"
  /\ "out" \notin halted
  /\ waiting = NoCommand
  /\ packets = <<>> \/ EarlyCbw
  /\ waiting' = Command
  /\ call' = [call EXCEPT !.place = "data"]
  /\ UNCHANGED <<request, buffer, bounce, answer, packets, halted>>

(* The data stage: all the sectors, or a short packet, which is a code other *)
(* than success.  A status in place of data is a short packet too; more data *)
(* than asked for is an error.                                               *)
TakeData ==
  /\ call.place = "data"
  /\ "in" \notin halted
  /\ packets # <<>>
  /\ LET packet == Head(packets)
     IN  \/ /\ packet.kind = "data" /\ packet.count = DataLength
            /\ Land(Sectors(packet.of.lba, DataLength))
            /\ call' = [call EXCEPT !.place = "csw"]
            /\ packets' = Tail(packets)
            /\ UNCHANGED <<request, answer, halted>>
         \/ /\ packet.kind = "data" /\ packet.count < DataLength
            /\ Land(Sectors(packet.of.lba, packet.count))
            /\ Fail
            /\ packets' = Tail(packets)
            /\ UNCHANGED halted
         \/ /\ packet.kind = "status"
            /\ Land([i \in {0} |-> Junk])
            /\ Fail
            /\ packets' = Tail(packets)
            /\ UNCHANGED halted
         \/ /\ packet.kind = "data" /\ packet.count > DataLength
            /\ Land(Sectors(packet.of.lba, DataLength))
            /\ Fail
            /\ halted' = halted \cup {"in"}
            /\ UNCHANGED packets
  /\ UNCHANGED waiting

(* scsi_command answers 0: the piece is copied from the bounce page if it    *)
(* went there, and the read goes on with the next or answers 0.              *)
Advance ==
  /\ buffer' = IF call.aligned THEN buffer
               ELSE Overwrite(buffer, call.done, [i \in 0 .. Piece - 1 |-> bounce[i]])
  /\ IF call.done + Stride = request.count
     THEN /\ request' = None
          /\ answer' = "ok"
          /\ call' = [call EXCEPT !.place = "idle", !.done = 0, !.mark = (@ + 1) % 3]
     ELSE /\ call' = [call EXCEPT !.place = "cbw", !.done = @ + Stride, !.mark = (@ + 1) % 3]
          /\ UNCHANGED <<request, answer>>

TakeStatus ==
  /\ call.place = "csw"
  /\ "in" \notin halted
  /\ packets # <<>>
  /\ packets' = Tail(packets)
  /\ IF Head(packets).count = 0 THEN Advance ELSE Fail /\ UNCHANGED buffer
  /\ UNCHANGED <<bounce, waiting, halted>>

(* Any of the three transfers ends with an error, and its endpoint halts. *)
TransferFails ==
  /\ call.place # "idle"
  /\ LET endpoint == IF call.place = "cbw" THEN "out" ELSE "in"
     IN  endpoint \notin halted /\ halted' = halted \cup {endpoint}
  /\ Fail
  /\ UNCHANGED <<buffer, bounce, waiting, packets>>

-----------------------------------------------------------------------------
(* The disk. *)
Data(command, n)        == [kind |-> "data", of |-> command, count |-> n]
Status(command, status) == [kind |-> "status", of |-> command, count |-> status]

Replies(command) ==
  {<<Data(command, command.count), Status(command, 0)>>}
    \cup {<<Data(command, n), Status(command, status)>> :
            n \in 0 .. command.count, status \in {1, 2}}

Execute ==
  /\ waiting # NoCommand
  /\ packets = <<>>
  /\ packets' \in Replies(waiting)
  /\ waiting' = NoCommand
  /\ UNCHANGED <<request, buffer, bounce, answer, call, halted>>

Next ==
  \/ \E lba \in Sector, count \in Counts, aligned \in BOOLEAN : Ask(lba, count, aligned)
  \/ SendCbw \/ TakeData \/ TakeStatus \/ TransferFails
  \/ Execute

Spec == Init /\ [][Next]_vars

-----------------------------------------------------------------------------
(* Every variable has its type.                                             *)
TypeOK ==
  /\ request \in [lba : Sector, count : Counts \cup {0}]
  /\ buffer \in [Position -> Sector \cup {Old, Junk}]
  /\ bounce \in [0 .. PageSectors - 1 -> Sector \cup {Old, Junk}]
  /\ answer \in {"none", "ok", "error"}
  /\ call \in Calls
  /\ waiting \in [lba : Sector, count : Nat, mark : 0 .. 2]
  /\ packets \in Seq([kind : {"data", "status"}, count : Nat,
                      of : [lba : Sector, count : Nat, mark : 0 .. 2]])
  /\ halted \subseteq {"in", "out"}

(* The status that scsi_command takes for the outcome of its command is     *)
(* that command's.                                                          *)
StatusIsOwn ==
  call.place = "csw" /\ packets # <<>> => Head(packets).of = Command

(* Whatever fails on the way, a read changes its buffer only, and one that  *)
(* succeeds has put each sector where it was asked for, piece after piece   *)
(* and through the bounce page that all reads of the disk share.            *)
Abstract == INSTANCE DiskRead WITH Count <- Counts

ImplementsDiskRead == Abstract!Spec
=============================================================================
