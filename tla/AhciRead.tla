------------------------------- MODULE AhciRead -------------------------------
(***************************************************************************)
(* Reading a SATA disk, in driver/ahci/ata.c: the loops of ahci_ata_read    *)
(* over ahci_ata_operation, which puts one command in slot 0 of the port    *)
(* and waits until the port has done with it or reports an error.           *)
(*                                                                          *)
(* The port is external: it moves the sectors of a command to the pages     *)
(* its descriptors name, and after an error it stands until it is started   *)
(* again, which no code does.  Only one thread reads a disk.                *)
(***************************************************************************)
EXTENDS Integers

CONSTANTS
  PrdtSectors,  \* sectors in a page, 8; also of one descriptor (ATA_SECTOR_PRE_PRDT)
  MaxSectors,   \* of one command (ATA_MAX_SECTOR_PRE_OP), whole pages
  AtaLast,      \* of the disk
  AtaCounts     \* sectors asked for at a time

ASSUME AhciAssumption ==
  /\ PrdtSectors \in Nat \ {0} /\ AtaLast \in Nat
  /\ MaxSectors \in Nat \ {0} /\ MaxSectors % PrdtSectors = 0
  /\ AtaCounts \subseteq Nat \ {0}

VARIABLES
  ataRequest,   \* lba, count, and where in its page the buffer starts
  ataResident,  \* pages of the buffer that are in memory
  ataBuffer,    \* what is in the caller's memory, from buf on
  ataBounce,    \* what is in the page allocated for this read
  ataAnswer,    \* of the last read, or -1 while it is under way
  ataCall,      \* where the operation is, and what of the read is done
  port          \* a command is issued, an error is reported, the port stands

ataVars == <<ataRequest, ataResident, ataBuffer, ataBounce, ataAnswer, ataCall, port>>

-----------------------------------------------------------------------------
AtaSector == 0 .. AtaLast
AtaPosition == UNION {0 .. count : count \in AtaCounts}
Untouched == -1
UnderWay == -1

PageOf(j) == (ataRequest.offset + j) \div PrdtSectors

(* The buffer is not aligned, and ends in a later page than it starts in.   *)
Crosses == ataRequest.offset # 0 /\ PageOf(ataRequest.count) # 0

(* cnt: the sectors of the next operation.                                  *)
AtMost == IF Crosses THEN PrdtSectors ELSE MaxSectors
AtaPiece ==
  IF ataRequest.count - ataCall.done > AtMost THEN AtMost ELSE ataRequest.count - ataCall.done

(* lba is the read's in every operation.                                    *)
FirstSector == ataRequest.lba

(* Where the data of a direct operation goes: only the first page of the    *)
(* buffer is sure to be there, and a page that is not has address 0.        *)
Reached(n) == {i \in 0 .. n - 1 : PageOf(ataCall.done + i) \in ataResident}

Landed(n) ==
  IF Crosses
  THEN /\ ataBounce' = [j \in DOMAIN ataBounce |-> IF j < n THEN FirstSector + j ELSE ataBounce[j]]
       /\ UNCHANGED ataBuffer
  ELSE /\ ataBuffer' = [j \in AtaPosition |->
                       IF j - ataCall.done \in Reached(n) THEN FirstSector + j - ataCall.done
                                                       ELSE ataBuffer[j]]
       /\ UNCHANGED ataBounce

Return(code) ==
  /\ ataAnswer' = code
  /\ ataCall' = [ataCall EXCEPT !.at = "idle"]

-----------------------------------------------------------------------------
AtaInit ==
  /\ ataRequest = [lba |-> 0, count |-> 0, offset |-> 0]
  /\ ataResident = {}
  /\ ataBuffer = [j \in AtaPosition |-> Untouched]
  /\ ataBounce = [j \in 0 .. PrdtSectors - 1 |-> Untouched]
  /\ ataAnswer = 0
  /\ ataCall = [at |-> "idle", done |-> 0]
  /\ port = [issued |-> FALSE, error |-> FALSE, stands |-> FALSE]

(* Pages of the buffer may be committed or not; a copy commits them.        *)
AtaAsk(lba, count, offset, pages) ==
  /\ ataCall.at = "idle"
  /\ lba + count - 1 \in AtaSector
  /\ ataRequest' = [lba |-> lba, count |-> count, offset |-> offset]
  /\ ataResident' = pages
  /\ ataBuffer' = [j \in AtaPosition |-> Untouched]
  /\ ataAnswer' = UnderWay
  /\ ataCall' = [at |-> "operation", done |-> 0]
  /\ UNCHANGED <<ataBounce, port>>

(* The device is busy with something else.                                  *)
DeviceBusy ==
  /\ ataCall.at = "operation"
  /\ Return(2)
  /\ UNCHANGED <<ataRequest, ataResident, ataBuffer, ataBounce, port>>

(* INTS is cleared; the first page of a direct operation is touched before. *)
Issue ==
  /\ ataCall.at = "operation"
  /\ port' = [port EXCEPT !.issued = TRUE, !.error = FALSE]
  /\ ataResident' = IF Crosses THEN ataResident ELSE ataResident \cup {PageOf(ataCall.done)}
  /\ ataCall' = [ataCall EXCEPT !.at = "wait"]
  /\ UNCHANGED <<ataRequest, ataBuffer, ataBounce, ataAnswer>>

PortDone ==
  /\ port.issued /\ ~port.stands
  /\ port' = [port EXCEPT !.issued = FALSE]
  /\ Landed(AtaPiece)
  /\ UNCHANGED <<ataRequest, ataResident, ataAnswer, ataCall>>

(* A task file error, with less than all of the data moved.                 *)
PortFails ==
  /\ port.issued /\ ~port.stands
  /\ port' = [port EXCEPT !.error = TRUE, !.stands = TRUE]
  /\ \E n \in 0 .. AtaPiece - 1 : Landed(n)
  /\ UNCHANGED <<ataRequest, ataResident, ataAnswer, ataCall>>

(* The copy out of the bounce page is the caller's.                         *)
Copied ==
  IF Crosses
  THEN [j \in AtaPosition |->
          IF j - ataCall.done \in 0 .. AtaPiece - 1 THEN ataBounce[j - ataCall.done]
                                                     ELSE ataBuffer[j]]
  ELSE ataBuffer

(* A loop that waits for the slot only and looks for no error ...           *)
OperationAlwaysOk ==
  /\ ataCall.at = "wait"
  /\ ~port.issued \/ port.error
  /\ ataBuffer' = Copied
  /\ IF ataCall.done + AtaPiece = ataRequest.count
     THEN Return(0)
     ELSE ataCall' = [at |-> "operation", done |-> ataCall.done + AtaPiece] /\ UNCHANGED ataAnswer
  /\ UNCHANGED <<ataRequest, ataResident, ataBounce, port>>

(* ... and the code's.                                                      *)
OperationEnds ==
  /\ ataCall.at = "wait"
  /\ ~port.issued \/ port.error
  /\ IF port.error
     THEN Return(3) /\ UNCHANGED ataBuffer
     ELSE /\ ataBuffer' = Copied
          /\ IF ataCall.done + AtaPiece = ataRequest.count
             THEN Return(0)
             ELSE ataCall' = [at |-> "operation", done |-> ataCall.done + AtaPiece] /\ UNCHANGED ataAnswer
  /\ UNCHANGED <<ataRequest, ataResident, ataBounce, port>>

-----------------------------------------------------------------------------
BufferPages == 0 .. (MaxSectors \div PrdtSectors)

AtaNext ==
  \/ \E lba \in AtaSector, count \in AtaCounts, offset \in {0, 1}, pages \in SUBSET BufferPages :
       AtaAsk(lba, count, offset, pages)
  \/ DeviceBusy \/ Issue \/ OperationEnds
  \/ PortDone \/ PortFails

AtaSpec == AtaInit /\ [][AtaNext]_ataVars

-----------------------------------------------------------------------------
(* What a read that answers 0 has done: each sector of the buffer holds the *)
(* one asked for, when the read is one operation and its buffer is in       *)
(* memory; behind the first operation the sectors of the first come again   *)
(* (ata.c:110 and 128), and a page that was not there is left alone, for    *)
(* its data went to address 0 (ata.c:48).  Nothing behind the buffer        *)
(* changes, whatever the answer.                                            *)
AhciReads ==
  /\ ataAnswer = 0 =>
       \A i \in 0 .. ataRequest.count - 1 :
         ataBuffer[i] = IF Crosses \/ PageOf(i) \in ataResident
                        THEN ataRequest.lba + (i % AtMost) ELSE Untouched
  /\ \A j \in AtaPosition : j >= ataRequest.count => ataBuffer[j] = Untouched
=============================================================================
