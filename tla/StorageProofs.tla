------------------------------ MODULE StorageProofs ------------------------------
(***************************************************************************)
(* The disks keep what a reader of them relies on, for requests, queues    *)
(* and tables of every size.                                               *)
(*                                                                         *)
(* USB: the disk is one that takes no command before the status of the     *)
(* last one was fetched.  While the endpoint for IN has not halted, what   *)
(* the disk has to send is the data and the status of the command under    *)
(* way, although the tag is always 1 and what a failed read left behind is *)
(* still there; it then keeps the disk from taking the next command.       *)
(*                                                                         *)
(* SATA: what was done of a read is in the buffer piece by piece, and the  *)
(* port, once it stands, never lets a later read answer 0.                 *)
(*                                                                         *)
(* NVM Express: the one command is with nobody, in the ring, with the      *)
(* controller, or answered; the phases before the controller's place are   *)
(* those of its round.                                                     *)
(*                                                                         *)
(* Partitions: the walk has given each entry it passed its partition.      *)
(***************************************************************************)
EXTENDS UsbBulkRead, AhciRead, NvmeQueues, Partitions,
        FiniteSetTheorems, SequenceTheorems, TLAPS

Value == Sector \cup {Old, Junk}

CommandType == [lba : Sector, count : Nat, mark : 0 .. 2]
PacketType == [kind : {"data", "status"}, count : Nat, of : CommandType]

Busy == call.place # "idle"

(* A read under way is one inside the disk, with something left to do.      *)
Within ==
  IF Busy THEN /\ request.count \in Counts
               /\ request.lba + request.count <= LastSector + 1
               /\ call.done < request.count
          ELSE request = None /\ call.done = 0

(* What is done holds the sectors asked for, ...                            *)
DoneHolds == Busy => \A i \in 0 .. call.done - 1 : buffer[i] = request.lba + i

(* ... and so does the piece whose data came, or else the bounce page.      *)
PieceLanded ==
  call.place = "csw" =>
    \A i \in 0 .. Piece - 1 :
      IF call.aligned THEN buffer[call.done + i] = request.lba + call.done + i
                      ELSE bounce[i] = request.lba + call.done + i

(* What the disk has, or will have, to send is of the command under way.    *)
RepliesOwn ==
  /\ call.place = "data" /\ "in" \notin halted =>
       \/ waiting = Command /\ packets = <<>>
       \/ /\ waiting = NoCommand
          /\ \E n \in 0 .. Piece, status \in 0 .. 2 :
               packets = <<Data(Command, n), Status(Command, status)>>
  /\ call.place = "csw" =>
       /\ waiting = NoCommand /\ "in" \notin halted
       /\ \E status \in 0 .. 2 : packets = <<Status(Command, status)>>

ReadInv == TypeOK /\ Within /\ DoneHolds /\ PieceLanded /\ RepliesOwn

-----------------------------------------------------------------------------
LEMMA PositionFacts ==
  /\ Position \subseteq Nat
  /\ \A count \in Counts : \A i \in 0 .. count : i \in Position
BY BulkAssumption DEF Position

LEMMA SectorFacts == Sector \subseteq Nat /\ 0 \in Sector /\ LastSector \in Nat /\ Old = -1 /\ Junk = -2
BY BulkAssumption DEF Sector, Old, Junk

(* The next piece of a read is not empty, fits in a page, and is of it.     *)
LEMMA PieceFacts ==
  ASSUME TypeOK, Within, Busy
  PROVE  /\ Piece \in Nat /\ 1 <= Piece /\ Piece <= PageSectors
         /\ request.lba \in Nat /\ request.count \in Nat /\ call.done \in Nat
         /\ call.done + Piece <= request.count
         /\ \A i \in 0 .. call.done + Piece - 1 :
              request.lba + i \in Sector /\ i \in Position
         /\ Command \in CommandType /\ Command # NoCommand
<1>1. /\ request.lba \in Nat /\ request.count \in Nat \ {0} /\ call.done \in Nat /\ call.mark \in 0 .. 2
      /\ PageSectors \in Nat \ {0} /\ request.count \in Counts /\ call.done < request.count
      /\ request.lba + request.count <= LastSector + 1
  BY BulkAssumption, SectorFacts DEF TypeOK, Within, Calls, Sector
<1>2. Piece \in Nat /\ 1 <= Piece /\ Piece <= PageSectors /\ call.done + Piece <= request.count
  BY <1>1 DEF Piece
<1>3. \A i \in 0 .. call.done + Piece - 1 : request.lba + i \in Sector /\ i \in Position
  BY <1>1, <1>2, PositionFacts, SectorFacts DEF Sector
<1>4. Command \in CommandType /\ Command # NoCommand
  <2>1. request.lba + call.done \in Sector
    BY <1>1, <1>2, <1>3
  <2> QED BY <1>1, <1>2, <2>1 DEF Command, CommandType, NoCommand
<1> QED BY <1>1, <1>2, <1>3, <1>4

(* n sectors of data.                                                       *)
Filled(data, n) == DOMAIN data = 0 .. n - 1 /\ \A i \in 0 .. n - 1 : data[i] \in Value

(* Memory with n sectors of data from a place on, and nothing else changed. *)
Over(memory, from, data, n, S, new) ==
  /\ new \in [S -> Value]
  /\ \A j \in S : from <= j /\ j < from + n => new[j] = data[j - from]
  /\ \A j \in S : j < from \/ from + n <= j => new[j] = memory[j]

LEMMA Overwritten ==
  ASSUME NEW S, S \subseteq Nat, NEW memory \in [S -> Value], NEW from \in Nat,
         NEW n \in Nat, NEW data, Filled(data, n)
  PROVE  Over(memory, from, data, n, S, Overwrite(memory, from, data))
<1>1. DOMAIN data = 0 .. n - 1 /\ \A i \in 0 .. n - 1 : data[i] \in Value
  BY DEF Filled
<1>2. \A j \in S : j \in Nat /\ (j - from \in DOMAIN data <=> from <= j /\ j < from + n)
  BY <1>1
<1>3. DOMAIN memory = S /\ \A j \in S : memory[j] \in Value
  OBVIOUS
<1>4. \A j \in S : Overwrite(memory, from, data)[j] =
                     IF j - from \in DOMAIN data THEN data[j - from] ELSE memory[j]
  BY <1>3 DEF Overwrite
<1>5. Overwrite(memory, from, data) =
        [j \in S |-> IF j - from \in DOMAIN data THEN data[j - from] ELSE memory[j]]
  BY <1>3 DEF Overwrite
<1>6. \A j \in S : (IF j - from \in DOMAIN data THEN data[j - from] ELSE memory[j]) \in Value
  BY <1>1, <1>2, <1>3
<1> QED BY <1>2, <1>4, <1>5, <1>6 DEF Over

LEMMA ReadInvInit == Init => ReadInv
<1> SUFFICES ASSUME Init PROVE ReadInv
  OBVIOUS
<1>1. TypeOK
  BY SectorFacts, BulkAssumption DEF Init, TypeOK, None, NoCommand, Calls
<1> QED BY <1>1 DEF Init, ReadInv, Within, DoneHolds, PieceLanded, RepliesOwn, Busy

-----------------------------------------------------------------------------
(* The abstract step of an action, or a stutter.                            *)
Maps == [Abstract!Next]_<<request, buffer, answer>>

(* A read that answers with an error has touched its own sectors only.      *)
OutsideKept(memory) == /\ memory \in [Position -> Value]
                       /\ \A j \in Position : j >= request.count => memory[j] = buffer[j]

LEMMA AskKeeps ==
  ASSUME ReadInv, NEW lba \in Sector, NEW count \in Counts, NEW aligned \in BOOLEAN,
         Ask(lba, count, aligned)
  PROVE  ReadInv' /\ Maps
<1>1. /\ request' = [lba |-> lba, count |-> count] /\ buffer' = [j \in Position |-> Old]
      /\ answer' = "none" /\ call' = [call EXCEPT !.place = "cbw", !.aligned = aligned]
      /\ UNCHANGED <<bounce, waiting, packets, halted>> /\ ~Busy /\ lba + count - 1 \in Sector
  BY DEF Ask, Busy
<1>2. /\ call'.place = "cbw" /\ call'.done = 0 /\ call'.aligned = aligned /\ call' \in Calls
      /\ lba \in Nat /\ count \in Nat \ {0} /\ request = None
  BY <1>1, SectorFacts, BulkAssumption DEF ReadInv, TypeOK, Calls, Within
<1>3. TypeOK'
  BY <1>1, <1>2 DEF ReadInv, TypeOK
<1>4. Within' /\ DoneHolds' /\ PieceLanded' /\ RepliesOwn'
  BY <1>1, <1>2, SectorFacts DEF Within, DoneHolds, PieceLanded, RepliesOwn, Busy, Sector
<1>5. Abstract!Ask(lba, count)
  BY <1>1, <1>2 DEF Abstract!Ask, Abstract!None, Abstract!Old, None, Old
<1> QED BY <1>3, <1>4, <1>5 DEF ReadInv, Maps, Abstract!Next

LEMMA SendCbwKeeps ==
  ASSUME ~EarlyCbw, ReadInv, SendCbw
  PROVE  ReadInv' /\ Maps
<1>1. /\ call.place = "cbw" /\ waiting = NoCommand /\ packets = <<>> /\ waiting' = Command
      /\ call' = [call EXCEPT !.place = "data"]
      /\ UNCHANGED <<request, buffer, bounce, answer, packets, halted>>
  BY DEF SendCbw
<1>2. /\ call'.place = "data" /\ call'.done = call.done /\ call'.aligned = call.aligned
      /\ call'.mark = call.mark /\ call' \in Calls
  BY <1>1 DEF ReadInv, TypeOK, Calls
<1>3. Command \in CommandType
  BY <1>1, PieceFacts DEF ReadInv, Busy
<1>4. Piece' = Piece /\ Command' = Command
  BY <1>1, <1>2 DEF Piece, Command
<1>5. TypeOK'
  BY <1>1, <1>2, <1>3 DEF ReadInv, TypeOK, CommandType
<1>6. Within' /\ DoneHolds' /\ PieceLanded'
  BY <1>1, <1>2 DEF ReadInv, Within, DoneHolds, PieceLanded, Busy
<1>7. RepliesOwn'
  BY <1>1, <1>2, <1>4 DEF RepliesOwn
<1> QED BY <1>1, <1>5, <1>6, <1>7 DEF ReadInv, Maps

(* The read is over without success; what came after is of no claim.        *)
LEMMA FailKeeps ==
  ASSUME ReadInv, Busy, Fail, OutsideKept(buffer'),
         bounce' \in [0 .. PageSectors - 1 -> Value], waiting' = waiting,
         packets' \in Seq(PacketType), halted' \subseteq {"in", "out"}
  PROVE  ReadInv' /\ Maps
<1>1. /\ request' = None /\ answer' = "error"
      /\ call' = [call EXCEPT !.place = "idle", !.done = 0, !.mark = (@ + 1) % 3]
  BY DEF Fail
<1>2. call'.place = "idle" /\ call'.done = 0 /\ call' \in Calls
  <2>1. call \in Calls /\ call.mark \in 0 .. 2
    BY DEF ReadInv, TypeOK, Calls
  <2>2. (call.mark + 1) % 3 \in 0 .. 2
    BY <2>1
  <2> QED BY <1>1, <2>1, <2>2 DEF Calls
<1>3. None \in [lba : Sector, count : Counts \cup {0}]
  BY SectorFacts DEF None
<1>4. TypeOK'
  BY <1>1, <1>2, <1>3 DEF ReadInv, TypeOK, OutsideKept, Value, PacketType, CommandType
<1>5. Within' /\ DoneHolds' /\ PieceLanded' /\ RepliesOwn'
  BY <1>1, <1>2 DEF Within, DoneHolds, PieceLanded, RepliesOwn, Busy
<1>6. request # None
  BY PieceFacts, BulkAssumption DEF ReadInv, Within, Busy, None
<1>7. Abstract!Finish(FALSE)
  BY <1>1, <1>6
     DEF Abstract!Finish, Abstract!None, Abstract!Old, Abstract!Junk, None, Old, Junk, OutsideKept, Value
<1> QED BY <1>4, <1>5, <1>7 DEF ReadInv, Maps, Abstract!Next

LEMMA TransferFailsKeeps ==
  ASSUME ReadInv, TransferFails
  PROVE  ReadInv' /\ Maps
<1>1. /\ Busy /\ Fail /\ UNCHANGED <<buffer, bounce, waiting, packets>>
      /\ halted' \subseteq {"in", "out"}
  BY DEF TransferFails, Busy, ReadInv, TypeOK
<1>2. OutsideKept(buffer')
  BY <1>1 DEF ReadInv, TypeOK, OutsideKept, Value
<1> QED BY <1>1, <1>2, FailKeeps DEF ReadInv, TypeOK, Value, PacketType, CommandType

LEMMA ExecuteKeeps ==
  ASSUME ReadInv, Execute
  PROVE  ReadInv' /\ Maps
<1>1. /\ waiting # NoCommand /\ packets = <<>> /\ packets' \in Replies(waiting) /\ waiting' = NoCommand
      /\ UNCHANGED <<request, buffer, bounce, answer, call, halted>>
  BY DEF Execute
<1>2. waiting \in CommandType /\ waiting.count \in Nat
  BY DEF ReadInv, TypeOK, CommandType
<1>3. PICK n \in 0 .. waiting.count, status \in 0 .. 2 :
        packets' = <<Data(waiting, n), Status(waiting, status)>>
  BY <1>1, <1>2 DEF Replies
<1>4. packets' \in Seq(PacketType)
  BY <1>2, <1>3 DEF Data, Status, PacketType
<1>5. TypeOK'
  BY <1>1, <1>4, SectorFacts DEF ReadInv, TypeOK, NoCommand, PacketType, CommandType
<1>6. Within' /\ DoneHolds' /\ PieceLanded'
  BY <1>1 DEF ReadInv, Within, DoneHolds, PieceLanded, Busy, Piece
<1>7. Piece' = Piece /\ Command' = Command
  BY <1>1 DEF Piece, Command
<1>8. RepliesOwn'
  <2>1. call.place # "csw"
    BY <1>1 DEF ReadInv, RepliesOwn
  <2>2. "in" \notin halted /\ call.place = "data" => waiting = Command /\ Command.count = Piece
    BY <1>1 DEF ReadInv, RepliesOwn, Command
  <2> QED BY <1>1, <1>3, <1>7, <2>1, <2>2 DEF RepliesOwn
<1> QED BY <1>1, <1>5, <1>6, <1>8 DEF ReadInv, Maps

(* Some of the sectors of the piece land, in the buffer or in the page.     *)
LEMMA LandKeeps ==
  ASSUME TypeOK, Within, Busy, NEW n \in 0 .. Piece, Land(Sectors(request.lba + call.done, n))
  PROVE  /\ OutsideKept(buffer') /\ bounce' \in [0 .. PageSectors - 1 -> Value]
         /\ \A i \in 0 .. call.done - 1 : buffer'[i] = buffer[i]
         /\ \A i \in 0 .. n - 1 :
              IF call.aligned THEN buffer'[call.done + i] = request.lba + call.done + i
                              ELSE bounce'[i] = request.lba + call.done + i
<1> DEFINE data == Sectors(request.lba + call.done, n)
<1>1. /\ Piece \in Nat /\ Piece <= PageSectors /\ PageSectors \in Nat /\ n \in Nat /\ n <= Piece
      /\ request.lba \in Nat /\ request.count \in Nat /\ call.done \in Nat
      /\ call.done + Piece <= request.count /\ Position \subseteq Nat
      /\ \A i \in 0 .. call.done + Piece - 1 : request.lba + i \in Sector /\ i \in Position
  BY PieceFacts, PositionFacts, BulkAssumption
<1>2. /\ buffer \in [Position -> Value] /\ bounce \in [0 .. PageSectors - 1 -> Value]
  BY DEF TypeOK, Value
<1>3. Filled(data, n) /\ \A i \in 0 .. n - 1 : data[i] = request.lba + call.done + i
  <2>1. \A i \in 0 .. n - 1 : /\ call.done + i \in 0 .. call.done + Piece - 1
                              /\ request.lba + (call.done + i) = request.lba + call.done + i
    BY <1>1
  <2>2. \A i \in 0 .. n - 1 : request.lba + call.done + i \in Sector
    BY <1>1, <2>1
  <2> QED BY <2>2 DEF Sectors, Value, Filled
<1>4. Land(data)
  OBVIOUS
<1> HIDE DEF data
<1>5. CASE call.aligned
  <2>1. buffer' = Overwrite(buffer, call.done, data) /\ bounce' = bounce
    BY <1>4, <1>5 DEF Land
  <2>2. /\ buffer' \in [Position -> Value]
        /\ \A j \in Position : call.done <= j /\ j < call.done + n => buffer'[j] = data[j - call.done]
        /\ \A j \in Position : j < call.done \/ call.done + n <= j => buffer'[j] = buffer[j]
    <3>1. Over(buffer, call.done, data, n, Position, Overwrite(buffer, call.done, data))
      BY <1>1, <1>2, <1>3, Overwritten
    <3> QED BY <2>1, <3>1 DEF Over
  <2>3. OutsideKept(buffer')
    BY <1>1, <2>2 DEF OutsideKept
  <2>4. \A i \in 0 .. call.done - 1 : i \in Position
    BY <1>1
  <2>5. \A i \in 0 .. n - 1 : /\ call.done + i \in Position /\ (call.done + i) - call.done = i
                              /\ call.done <= call.done + i /\ call.done + i < call.done + n
    BY <1>1
  <2>6. \A i \in 0 .. n - 1 : buffer'[call.done + i] = request.lba + call.done + i
    BY <1>3, <2>2, <2>5
  <2>7. \A i \in 0 .. call.done - 1 : buffer'[i] = buffer[i]
    BY <1>1, <2>2, <2>4
  <2> QED BY <1>2, <1>5, <2>1, <2>3, <2>6, <2>7
<1>6. CASE ~call.aligned
  <2>1. bounce' = Overwrite(bounce, 0, data) /\ buffer' = buffer
    BY <1>4, <1>6 DEF Land
  <2>2. /\ bounce' \in [0 .. PageSectors - 1 -> Value]
        /\ \A j \in 0 .. PageSectors - 1 : 0 <= j /\ j < 0 + n => bounce'[j] = data[j - 0]
    <3>1. 0 .. PageSectors - 1 \subseteq Nat /\ 0 \in Nat /\ n \in Nat
      BY <1>1
    <3>2. Over(bounce, 0, data, n, 0 .. PageSectors - 1, Overwrite(bounce, 0, data))
      BY <1>2, <1>3, <3>1, Overwritten
    <3> QED BY <2>1, <3>2 DEF Over
  <2>3. \A i \in 0 .. n - 1 : i \in 0 .. PageSectors - 1 /\ i - 0 = i /\ 0 <= i /\ i < 0 + n
    BY <1>1
  <2>4. \A i \in 0 .. n - 1 : bounce'[i] = request.lba + call.done + i
    BY <1>3, <2>2, <2>3
  <2> QED BY <1>2, <1>6, <2>1, <2>2, <2>4 DEF OutsideKept
<1> QED BY <1>5, <1>6

LEMMA TakeDataKeeps ==
  ASSUME ReadInv, TakeData
  PROVE  ReadInv' /\ Maps
<1>1. call.place = "data" /\ "in" \notin halted /\ packets # <<>> /\ waiting' = waiting /\ Busy
  BY DEF TakeData, Busy
<1>2. TypeOK /\ Within /\ Command \in CommandType /\ Piece \in Nat
  BY <1>1, PieceFacts DEF ReadInv
<1>3. PICK n \in 0 .. Piece, status \in 0 .. 2 :
        waiting = NoCommand /\ packets = <<Data(Command, n), Status(Command, status)>>
  BY <1>1 DEF ReadInv, RepliesOwn
<1>4. /\ Head(packets).kind = "data" /\ Head(packets).count = n /\ Tail(packets) = <<Status(Command, status)>>
      /\ Head(packets).of.lba = request.lba + call.done /\ n <= DataLength /\ DataLength = Piece
  BY <1>2, <1>3 DEF Data, Command, DataLength
<1>5. /\ packets' = Tail(packets) /\ halted' = halted /\ Land(Sectors(request.lba + call.done, n))
      /\ \/ n = Piece /\ call' = [call EXCEPT !.place = "csw"] /\ UNCHANGED <<request, answer>>
         \/ Fail
  <2>1. \/ /\ n = DataLength /\ Land(Sectors(request.lba + call.done, DataLength))
           /\ call' = [call EXCEPT !.place = "csw"]
           /\ packets' = Tail(packets) /\ UNCHANGED <<request, answer, halted>>
        \/ /\ n < DataLength /\ Land(Sectors(request.lba + call.done, n)) /\ Fail
           /\ packets' = Tail(packets) /\ UNCHANGED halted
    BY <1>2, <1>4 DEF TakeData
  <2> QED BY <1>4, <2>1
<1>6. /\ OutsideKept(buffer') /\ bounce' \in [0 .. PageSectors - 1 -> Value]
      /\ \A i \in 0 .. call.done - 1 : buffer'[i] = buffer[i]
      /\ \A i \in 0 .. n - 1 :
           IF call.aligned THEN buffer'[call.done + i] = request.lba + call.done + i
                           ELSE bounce'[i] = request.lba + call.done + i
  BY <1>1, <1>2, <1>5, LandKeeps
<1>7. packets' \in Seq(PacketType)
  <2>1. Status(Command, status) \in PacketType
    BY <1>2 DEF Status, PacketType
  <2>2. packets' = <<Status(Command, status)>>
    BY <1>4, <1>5
  <2> HIDE DEF PacketType
  <2>3. <<Status(Command, status)>> \in Seq(PacketType)
    BY <2>1
  <2> QED BY <2>2, <2>3
<1>8. CASE Fail
  <2>1. halted' \subseteq {"in", "out"}
    BY <1>2, <1>5 DEF TypeOK
  <2> QED BY <1>1, <1>6, <1>7, <1>8, <2>1, FailKeeps
<1>9. CASE n = Piece /\ call' = [call EXCEPT !.place = "csw"] /\ UNCHANGED <<request, answer>>
  <2>1. /\ call'.place = "csw" /\ call'.done = call.done /\ call'.aligned = call.aligned
        /\ call'.mark = call.mark /\ call' \in Calls
    BY <1>2, <1>9 DEF TypeOK, Calls
  <2>2. Piece' = Piece /\ Command' = Command
    BY <1>9, <2>1 DEF Piece, Command
  <2>3. TypeOK'
    BY <1>1, <1>2, <1>5, <1>6, <1>7, <1>9, <2>1 DEF TypeOK, OutsideKept, Value, PacketType, CommandType
  <2>4. Within'
    BY <1>1, <1>2, <1>9, <2>1 DEF Within, Busy
  <2>5. DoneHolds'
    BY <1>1, <1>6, <1>9, <2>1 DEF DoneHolds, Busy, ReadInv
  <2>6. PieceLanded'
    BY <1>6, <1>9, <2>1, <2>2 DEF PieceLanded
  <2>7. RepliesOwn'
    BY <1>1, <1>3, <1>4, <1>5, <2>1, <2>2 DEF RepliesOwn
  <2>8. Maps
    <3>1. request # None
      BY <1>1, <1>2, BulkAssumption DEF Within, None
    <3>2. Abstract!Transfer
      BY <1>6, <1>9, <3>1 DEF Abstract!Transfer, Abstract!None, Abstract!Old, Abstract!Junk,
                              None, Old, Junk, OutsideKept, Value
    <3> QED BY <3>2 DEF Maps, Abstract!Next
  <2> QED BY <2>3, <2>4, <2>5, <2>6, <2>7, <2>8 DEF ReadInv
<1> QED BY <1>5, <1>8, <1>9

LEMMA TakeStatusKeeps ==
  ASSUME ReadInv, TakeStatus
  PROVE  ReadInv' /\ Maps
<1>1. /\ call.place = "csw" /\ "in" \notin halted /\ packets # <<>> /\ packets' = Tail(packets)
      /\ UNCHANGED <<bounce, waiting, halted>> /\ Busy
      /\ \/ Advance
         \/ Fail /\ UNCHANGED buffer
  BY DEF TakeStatus, Busy
<1>2. /\ TypeOK /\ Within /\ Piece \in Nat /\ 1 <= Piece /\ Piece <= PageSectors
      /\ request.lba \in Nat /\ request.count \in Nat /\ call.done \in Nat /\ PageSectors \in Nat
      /\ call.done + Piece <= request.count /\ Position \subseteq Nat
      /\ \A i \in 0 .. call.done + Piece - 1 : request.lba + i \in Sector /\ i \in Position
  BY <1>1, PieceFacts, PositionFacts, BulkAssumption DEF ReadInv
<1>3. /\ buffer \in [Position -> Value] /\ bounce \in [0 .. PageSectors - 1 -> Value]
      /\ packets' \in Seq(PacketType)
  BY <1>1, <1>2 DEF TypeOK, Value, PacketType, CommandType
<1>4. CASE Fail /\ UNCHANGED buffer
  BY <1>1, <1>2, <1>3, <1>4, FailKeeps DEF OutsideKept, TypeOK
<1>5. CASE Advance
  <2> DEFINE piece == [i \in 0 .. Piece - 1 |-> bounce[i]]
  <2>1. /\ OutsideKept(buffer')
        /\ \A i \in 0 .. call.done + Piece - 1 : buffer'[i] = request.lba + i
    <3>1. \A i \in 0 .. call.done - 1 : buffer[i] = request.lba + i
      BY <1>1 DEF ReadInv, DoneHolds
    <3>2. \A i \in 0 .. Piece - 1 :
            IF call.aligned THEN buffer[call.done + i] = request.lba + call.done + i
                            ELSE bounce[i] = request.lba + call.done + i
      BY <1>1 DEF ReadInv, PieceLanded
    <3>3. \A i \in 0 .. call.done + Piece - 1 :
            i \in 0 .. call.done - 1 \/ (i - call.done \in 0 .. Piece - 1 /\ call.done + (i - call.done) = i)
      BY <1>2
    <3>4. CASE call.aligned
      <4>1. buffer' = buffer
        BY <1>5, <3>4 DEF Advance
      <4>2. \A k \in 0 .. Piece - 1 : buffer'[call.done + k] = request.lba + call.done + k
        BY <3>2, <3>4, <4>1
      <4>3. \A i \in 0 .. call.done + Piece - 1 : buffer'[i] = request.lba + i
        BY <1>2, <3>1, <3>3, <4>1, <4>2
      <4> QED BY <1>3, <4>1, <4>3 DEF OutsideKept
    <3>5. CASE ~call.aligned
      <4>1. buffer' = Overwrite(buffer, call.done, piece)
        BY <1>5, <3>5 DEF Advance
      <4>2. Filled(piece, Piece) /\ \A i \in 0 .. Piece - 1 : piece[i] = bounce[i]
        BY <1>2, <1>3 DEF Filled
      <4> HIDE DEF piece
      <4>3. /\ buffer' \in [Position -> Value]
            /\ \A j \in Position : call.done <= j /\ j < call.done + Piece => buffer'[j] = piece[j - call.done]
            /\ \A j \in Position : j < call.done \/ call.done + Piece <= j => buffer'[j] = buffer[j]
        <5>2. Position \subseteq Nat /\ call.done \in Nat /\ Piece \in Nat
          BY <1>2
        <5>3. Over(buffer, call.done, piece, Piece, Position, Overwrite(buffer, call.done, piece))
          BY <1>3, <4>2, <5>2, Overwritten
        <5> QED BY <4>1, <5>3 DEF Over
      <4>4. \A k \in 0 .. Piece - 1 : buffer'[call.done + k] = request.lba + call.done + k
        <5>1. \A k \in 0 .. Piece - 1 : /\ call.done + k \in Position /\ (call.done + k) - call.done = k
                                        /\ call.done <= call.done + k /\ call.done + k < call.done + Piece
          BY <1>2
        <5> QED BY <3>2, <3>5, <4>2, <4>3, <5>1
      <4>5. \A i \in 0 .. call.done - 1 : i \in Position /\ buffer'[i] = request.lba + i
        BY <1>2, <3>1, <4>3
      <4>6. \A i \in 0 .. call.done + Piece - 1 : buffer'[i] = request.lba + i
        BY <1>2, <3>3, <4>4, <4>5
      <4> QED BY <1>2, <4>3, <4>6 DEF OutsideKept
    <3> QED BY <3>4, <3>5
  <2>2. TypeOK' /\ Within' /\ DoneHolds' /\ call'.place \in {"idle", "cbw"}
    <3>1. (call.mark + 1) % 3 \in 0 .. 2
      BY <1>2 DEF TypeOK, Calls
    <3>2. CASE call.done + Stride = request.count
      <4>1. /\ request' = None /\ answer' = "ok"
            /\ call' = [call EXCEPT !.place = "idle", !.done = 0, !.mark = (@ + 1) % 3]
        BY <1>5, <3>2 DEF Advance
      <4>2. call'.place = "idle" /\ call'.done = 0 /\ call' \in Calls
        BY <1>2, <3>1, <4>1 DEF TypeOK, Calls
      <4>3. None \in [lba : Sector, count : Counts \cup {0}]
        BY SectorFacts DEF None
      <4> QED BY <1>1, <1>2, <1>3, <2>1, <4>1, <4>2, <4>3
              DEF TypeOK, Within, DoneHolds, Busy, OutsideKept, Value, PacketType, CommandType
    <3>3. CASE call.done + Stride # request.count
      <4>1. /\ call' = [call EXCEPT !.place = "cbw", !.done = @ + Stride, !.mark = (@ + 1) % 3]
            /\ UNCHANGED <<request, answer>>
        BY <1>5, <3>3 DEF Advance
      <4>2. call'.place = "cbw" /\ call'.done = call.done + Piece /\ call' \in Calls
        <5>1. call \in Calls /\ call.done + Stride \in Nat
          BY <1>2 DEF TypeOK, Stride
        <5>2. Stride = Piece
          BY DEF Stride
        <5> QED BY <3>1, <4>1, <5>1, <5>2 DEF Calls
      <4>3. call.done + Piece < request.count
        BY <1>2, <3>3 DEF Stride
      <4>4. TypeOK'
        BY <1>1, <1>2, <1>3, <2>1, <4>1, <4>2 DEF TypeOK, OutsideKept, Value, PacketType, CommandType
      <4> QED BY <1>1, <1>2, <2>1, <4>1, <4>2, <4>3, <4>4 DEF Within, DoneHolds, Busy
    <3> QED BY <3>2, <3>3
  <2>3. PieceLanded' /\ RepliesOwn'
    BY <2>2 DEF PieceLanded, RepliesOwn
  <2>4. Maps
    <3>1. request # None
      BY <1>1, <1>2, BulkAssumption DEF Within, None
    <3>2. CASE call.done + Stride = request.count
      <4>1. request' = None /\ answer' = "ok"
        BY <1>5, <3>2 DEF Advance
      <4>2. \A i \in 0 .. request.count - 1 : buffer'[i] = request.lba + i
        <5>1. call.done + Piece = request.count
          BY <3>2 DEF Stride
        <5> QED BY <1>2, <2>1, <5>1
      <4>3. Abstract!Finish(TRUE)
        BY <2>1, <3>1, <4>1, <4>2 DEF Abstract!Finish, Abstract!None, Abstract!Old, Abstract!Junk,
                                      None, Old, Junk, OutsideKept, Value
      <4> QED BY <4>3 DEF Maps, Abstract!Next
    <3>3. CASE call.done + Stride # request.count
      <4>1. UNCHANGED <<request, answer>>
        BY <1>5, <3>3 DEF Advance
      <4>2. Abstract!Transfer
        BY <2>1, <3>1, <4>1 DEF Abstract!Transfer, Abstract!None, Abstract!Old, Abstract!Junk,
                                None, Old, Junk, OutsideKept, Value
      <4> QED BY <4>2 DEF Maps, Abstract!Next
    <3> QED BY <3>2, <3>3
  <2> QED BY <2>2, <2>3, <2>4 DEF ReadInv
<1> QED BY <1>1, <1>4, <1>5

-----------------------------------------------------------------------------
LEMMA ReadNextKeeps ==
  ASSUME ~EarlyCbw, ReadInv, [Next]_vars
  PROVE  ReadInv' /\ Maps
<1>1. CASE UNCHANGED vars
  BY <1>1 DEF vars, ReadInv, TypeOK, Within, DoneHolds, PieceLanded, RepliesOwn, Busy, Piece, Command, Maps
<1>2. CASE \E lba \in Sector, count \in Counts, aligned \in BOOLEAN : Ask(lba, count, aligned)
  BY <1>2, AskKeeps
<1>3. CASE SendCbw
  BY <1>3, SendCbwKeeps
<1>4. CASE TakeData
  BY <1>4, TakeDataKeeps
<1>5. CASE TakeStatus
  BY <1>5, TakeStatusKeeps
<1>6. CASE TransferFails
  BY <1>6, TransferFailsKeeps
<1>7. CASE Execute
  BY <1>7, ExecuteKeeps
<1> QED BY <1>1, <1>2, <1>3, <1>4, <1>5, <1>6, <1>7 DEF Next

(* On a disk that takes no command before the status of the last one was    *)
(* fetched, usb_bulk_read and scsi_command read like the abstract disk: an  *)
(* answer of success means that every sector is where it was asked for, and *)
(* no transfer, short, failed or late, touches what is not the read's own.  *)
THEOREM ReadImplementsDiskRead == ASSUME ~EarlyCbw PROVE Spec => ImplementsDiskRead
<1>1. Init => Abstract!Init
  BY DEF Init, Abstract!Init, None, Abstract!None, Old, Abstract!Old
<1>2. ReadInv /\ [Next]_vars => ReadInv' /\ [Abstract!Next]_<<request, buffer, answer>>
  BY ReadNextKeeps DEF Maps
<1> QED BY ReadInvInit, <1>1, <1>2, PTL DEF Spec, ImplementsDiskRead, Abstract!Spec

(* On such a disk the status taken for the outcome of a command is its own, *)
(* which the tag 1 of every command does not make sure of.                  *)
THEOREM StatusOwned == ASSUME ~EarlyCbw PROVE Spec => []StatusIsOwn
<1>1. ReadInv => StatusIsOwn
  BY DEF ReadInv, RepliesOwn, StatusIsOwn, Status
<1>2. ReadInv /\ [Next]_vars => ReadInv'
  BY ReadNextKeeps
<1> QED BY ReadInvInit, <1>1, <1>2, PTL DEF Spec

-----------------------------------------------------------------------------
(* SATA disks.                                                              *)
(* A read under way has something left to do, and has done whole pieces.    *)
ReadWithin ==
  ataCall.at # "idle" =>
    /\ ataAnswer = UnderWay
    /\ ataRequest.count \in AtaCounts
    /\ ataCall.done < ataRequest.count
    /\ ataCall.done % AtMost = 0

(* What a read leaves in the buffer at position i, once it came to it.      *)
Left(i) ==
  IF Crosses \/ PageOf(i) \in ataResident THEN ataRequest.lba + (i % AtMost) ELSE Untouched

(* The pieces done are in the buffer, and nothing behind it has changed.    *)
DoneLeft ==
  /\ ataCall.at # "idle" => \A i \in 0 .. ataCall.done - 1 : ataBuffer[i] = Left(i)
  /\ ataAnswer = 0 => \A i \in 0 .. ataRequest.count - 1 : ataBuffer[i] = Left(i)
  /\ \A j \in AtaPosition : j >= ataRequest.count => ataBuffer[j] = Untouched

(* The port works on the piece under way, or stands with its command.       *)
PortAgrees ==
  /\ port.error => port.stands
  /\ port.stands => port.issued
  /\ port.issued /\ ~port.stands => ataCall.at = "wait"

(* Before the data comes, the buffer is untouched from this piece on; ...   *)
NothingYet ==
  (ataCall.at = "operation" \/ (ataCall.at = "wait" /\ port.issued)) /\ ~port.stands =>
    \A j \in AtaPosition : j >= ataCall.done => ataBuffer[j] = Untouched

(* ... once it came, it is in place, or in the bounce page.                 *)
PieceIn ==
  ataCall.at = "wait" /\ ~port.issued =>
    /\ \A i \in 0 .. AtaPiece - 1 :
         IF Crosses THEN ataBounce[i] = ataRequest.lba + i
                    ELSE ataBuffer[ataCall.done + i] = Left(ataCall.done + i)
    /\ \A j \in AtaPosition :
         j >= ataCall.done + (IF Crosses THEN 0 ELSE AtaPiece) => ataBuffer[j] = Untouched

AtaTypes ==
  /\ ataRequest \in [lba : Nat, count : Nat, offset : 0 .. 1]
  /\ ataBuffer \in [AtaPosition -> Int]
  /\ ataBounce \in [0 .. PrdtSectors - 1 -> Int]
  /\ ataCall \in [at : {"idle", "operation", "wait"}, done : Nat]
  /\ port \in [issued : BOOLEAN, error : BOOLEAN, stands : BOOLEAN]

AtaInv == AtaTypes /\ ReadWithin /\ DoneLeft /\ PortAgrees /\ NothingYet /\ PieceIn

-----------------------------------------------------------------------------
(* Whole numbers: what division leaves, and what it says of multiples.      *)
LEMMA Division ==
  ASSUME NEW x \in Nat, NEW n \in Nat \ {0}
  PROVE  /\ x = n * (x \div n) + (x % n)
         /\ x % n \in 0 .. n - 1 /\ x \div n \in Nat
OBVIOUS

LEMMA Quotient ==
  ASSUME NEW x \in Nat, NEW n \in Nat \ {0}, NEW q \in Nat, NEW r \in 0 .. n - 1, x = n * q + r
  PROVE  x \div n = q /\ x % n = r
OBVIOUS

LEMMA MultipleOfMultiple ==
  ASSUME NEW x \in Nat, NEW m \in Nat \ {0}, NEW n \in Nat \ {0}, x % m = 0, m % n = 0
  PROVE  x % n = 0
<1> DEFINE a == x \div m
           b == m \div n
<1>1. x = m * a /\ a \in Nat
  BY Division
<1>2. m = n * b /\ b \in Nat
  BY Division
<1> HIDE DEF a, b
<1>3. x = n * (a * b) + 0
  BY <1>1, <1>2
<1>4. a * b \in Nat /\ 0 \in 0 .. n - 1
  BY <1>1, <1>2
<1> QED BY <1>3, <1>4, Quotient

LEMMA NextMultiple ==
  ASSUME NEW x \in Nat, NEW n \in Nat \ {0}, x % n = 0
  PROVE  (x + n) % n = 0 /\ \A j \in 0 .. n - 1 : (x + j) % n = j
<1> DEFINE q == x \div n
<1>1. x = n * q /\ q \in Nat
  BY Division
<1> HIDE DEF q
<1>2. x + n = n * (q + 1) + 0 /\ q + 1 \in Nat /\ 0 \in 0 .. n - 1 /\ x + n \in Nat
  BY <1>1
<1>3. (x + n) % n = 0
  BY <1>2, Quotient
<1>4. ASSUME NEW j \in 0 .. n - 1 PROVE (x + j) % n = j
  <2>1. x + j = n * q + j /\ x + j \in Nat
    BY <1>1
  <2> QED BY <1>1, <2>1, Quotient
<1> QED BY <1>3, <1>4

LEMMA EarlierPage ==
  ASSUME NEW x \in Nat, NEW y \in Nat, NEW n \in Nat \ {0}, x < y, y % n = 0
  PROVE  x \div n < y \div n
OBVIOUS

LEMMA SmallRemainder ==
  ASSUME NEW x \in Nat, NEW n \in Nat \ {0}, x < n
  PROVE  x % n = x /\ x \div n = 0
<1>1. x = n * 0 + x /\ x \in 0 .. n - 1
  OBVIOUS
<1> QED BY <1>1, Quotient

LEMMA NoWholePage ==
  ASSUME NEW x \in Nat, NEW n \in Nat \ {0}, x \div n = 0
  PROVE  x < n
OBVIOUS

-----------------------------------------------------------------------------
LEMMA AtaSizeFacts ==
  /\ PrdtSectors \in Nat \ {0} /\ MaxSectors \in Nat \ {0} /\ AtMost \in Nat \ {0}
  /\ MaxSectors % PrdtSectors = 0 /\ AtMost % PrdtSectors = 0 /\ PrdtSectors <= MaxSectors
<1>1. PrdtSectors \in Nat \ {0} /\ MaxSectors \in Nat \ {0} /\ MaxSectors % PrdtSectors = 0
  BY AhciAssumption
<1>2. PrdtSectors <= MaxSectors
  BY <1>1, SmallRemainder
<1>3. PrdtSectors = PrdtSectors * 1 + 0 /\ 0 \in 0 .. PrdtSectors - 1
  BY <1>1
<1>4. PrdtSectors % PrdtSectors = 0
  BY <1>1, <1>3, Quotient
<1> QED BY <1>1, <1>2, <1>4 DEF AtMost

LEMMA AtaPositionFacts ==
  /\ AtaPosition \subseteq Nat
  /\ \A count \in AtaCounts : count \in Nat \ {0} /\ \A i \in 0 .. count : i \in AtaPosition
BY AhciAssumption DEF AtaPosition

(* A direct operation begins in a page behind those of the ones before it.  *)
LEMMA LaterPage ==
  ASSUME AtaTypes, ReadWithin, ataCall.at # "idle", ~Crosses, NEW i \in 0 .. ataCall.done - 1
  PROVE  PageOf(i) # PageOf(ataCall.done)
<1>1. /\ ataCall.done \in Nat /\ ataRequest.count \in Nat /\ ataRequest.offset \in 0 .. 1
      /\ ataCall.done < ataRequest.count /\ ataCall.done % MaxSectors = 0
  BY DEF AtaTypes, ReadWithin, AtMost
<1>2. CASE ataRequest.offset = 0
  <2>1. ataCall.done % PrdtSectors = 0
    BY <1>1, AtaSizeFacts, MultipleOfMultiple
  <2>2. i \div PrdtSectors < ataCall.done \div PrdtSectors
    BY <1>1, <2>1, AtaSizeFacts, EarlierPage
  <2>3. i \div PrdtSectors \in Nat /\ ataCall.done \div PrdtSectors \in Nat
    <3>1. \A x \in Nat : \A n \in Nat \ {0} : x \div n \in Nat
      BY Division
    <3>2. i \in Nat /\ ataCall.done \in Nat /\ PrdtSectors \in Nat \ {0}
      BY <1>1, AtaSizeFacts
    <3> QED BY <3>1, <3>2
  <2>4. 0 + i = i /\ 0 + ataCall.done = ataCall.done
    BY <1>1
  <2> QED BY <1>2, <2>2, <2>3, <2>4 DEF PageOf
<1>3. CASE ataRequest.offset # 0
  <2>1. (1 + ataRequest.count) \div PrdtSectors = 0
    BY <1>1, <1>3 DEF Crosses, PageOf
  <2>2. 1 + ataRequest.count < PrdtSectors
    <3> DEFINE c == 1 + ataRequest.count
    <3>1. c \in Nat /\ c \div PrdtSectors = 0
      BY <1>1, <2>1
    <3> HIDE DEF c
    <3>2. c < PrdtSectors
      BY <3>1, AtaSizeFacts, NoWholePage
    <3> QED BY <3>2 DEF c
  <2>3. ataCall.done < MaxSectors
    BY <1>1, <2>2, AtaSizeFacts
  <2>4. ataCall.done = 0
    BY <1>1, <2>3, AtaSizeFacts, SmallRemainder
  <2> QED BY <2>4
<1> QED BY <1>2, <1>3

LEMMA AtaPieceFacts ==
  ASSUME AtaTypes, ReadWithin, ataCall.at # "idle"
  PROVE  /\ AtaPiece \in 1 .. AtMost
         /\ ataCall.done + AtaPiece <= ataRequest.count
         /\ \A i \in 0 .. AtaPiece - 1 : (ataCall.done + i) % AtMost = i
         /\ \A i \in 0 .. ataRequest.count : i \in AtaPosition
         /\ ataCall.done + AtaPiece < ataRequest.count =>
              (ataCall.done + AtaPiece) % AtMost = 0
<1>1. /\ ataCall.done \in Nat /\ ataRequest.count \in Nat /\ ataRequest.count \in AtaCounts
      /\ ataCall.done < ataRequest.count /\ ataCall.done % AtMost = 0
  BY DEF AtaTypes, ReadWithin
<1>2. AtMost \in Nat \ {0}
  BY AtaSizeFacts
<1> HIDE DEF AtMost
<1>3. AtaPiece \in 1 .. AtMost /\ ataCall.done + AtaPiece <= ataRequest.count
  BY <1>1, <1>2 DEF AtaPiece
<1>4. \A i \in 0 .. AtaPiece - 1 : (ataCall.done + i) % AtMost = i
  BY <1>1, <1>2, <1>3, NextMultiple
<1>5. ataCall.done + AtaPiece < ataRequest.count => AtaPiece = AtMost
  BY <1>1, <1>2 DEF AtaPiece
<1>6. ataCall.done + AtaPiece < ataRequest.count => (ataCall.done + AtaPiece) % AtMost = 0
  BY <1>1, <1>2, <1>5, NextMultiple
<1> QED BY <1>1, <1>3, <1>4, <1>6, AtaPositionFacts

(* Crosses, AtMost and PageOf say the same of a step that keeps the request *)
(* (they look at nothing else).                                             *)
LEMMA SameRequest ==
  ASSUME UNCHANGED ataRequest
  PROVE  /\ Crosses' = Crosses /\ AtMost' = AtMost /\ \A i : PageOf(i)' = PageOf(i)
BY DEF Crosses, AtMost, PageOf

LEMMA LandedStays ==
  ASSUME AtaTypes, ReadWithin, ataCall.at = "wait", NEW n \in 0 .. AtaPiece, Landed(n)
  PROVE  /\ ataBounce' \in [0 .. PrdtSectors - 1 -> Int] /\ ataBuffer' \in [AtaPosition -> Int]
         /\ \A j \in AtaPosition :
              ~(ataCall.done <= j /\ j < ataCall.done + n) \/ Crosses => ataBuffer'[j] = ataBuffer[j]
         /\ Crosses => \A i \in 0 .. n - 1 : ataBounce'[i] = ataRequest.lba + i
         /\ ~Crosses => \A i \in 0 .. n - 1 :
              ataBuffer'[ataCall.done + i] =
                IF PageOf(ataCall.done + i) \in ataResident THEN ataRequest.lba + i
                                                        ELSE ataBuffer[ataCall.done + i]
<1>1. /\ ataBuffer \in [AtaPosition -> Int] /\ ataBounce \in [0 .. PrdtSectors - 1 -> Int]
      /\ ataRequest.lba \in Nat /\ ataCall.done \in Nat /\ ataRequest.count \in Nat
  BY DEF AtaTypes
<1>2. /\ AtaPiece \in 1 .. AtMost /\ AtMost \in Nat \ {0} /\ PrdtSectors \in Nat \ {0}
      /\ ataCall.done + AtaPiece <= ataRequest.count
      /\ \A i \in 0 .. ataRequest.count : i \in AtaPosition
      /\ AtaPosition \subseteq Nat
  BY AtaPieceFacts, AtaSizeFacts, AtaPositionFacts
<1>3. CASE Crosses
  <2>1. /\ ataBounce' = [j \in 0 .. PrdtSectors - 1 |-> IF j < n THEN ataRequest.lba + j ELSE ataBounce[j]]
        /\ ataBuffer' = ataBuffer
    BY <1>1, <1>3 DEF Landed, FirstSector
  <2>2. AtMost = PrdtSectors
    BY <1>3 DEF AtMost
  <2> QED BY <1>1, <1>2, <1>3, <2>1, <2>2
<1>4. CASE ~Crosses
  <2>1. /\ ataBuffer' = [j \in AtaPosition |->
                        IF j - ataCall.done \in Reached(n) THEN ataRequest.lba + j - ataCall.done
                                                       ELSE ataBuffer[j]]
        /\ ataBounce' = ataBounce
    BY <1>4 DEF Landed, FirstSector
  <2>2. \A k : k \in Reached(n) <=> k \in 0 .. n - 1 /\ PageOf(ataCall.done + k) \in ataResident
    BY DEF Reached
  <2>3. ataBuffer' \in [AtaPosition -> Int]
    BY <1>1, <1>2, <2>1
  <2>4. ASSUME NEW j \in AtaPosition, ~(ataCall.done <= j /\ j < ataCall.done + n)
        PROVE  ataBuffer'[j] = ataBuffer[j]
    <3>1. j - ataCall.done \notin 0 .. n - 1
      BY <1>1, <1>2, <2>4
    <3> QED BY <2>1, <2>2, <3>1
  <2>5. ASSUME NEW i \in 0 .. n - 1
        PROVE  ataBuffer'[ataCall.done + i] =
                 IF PageOf(ataCall.done + i) \in ataResident THEN ataRequest.lba + i
                                                         ELSE ataBuffer[ataCall.done + i]
    <3> DEFINE j == ataCall.done + i
    <3>0. j \in 0 .. ataRequest.count /\ j - ataCall.done = i
      <4>1. n <= AtaPiece /\ AtaPiece \in Nat /\ ataCall.done + AtaPiece <= ataRequest.count
        BY <1>2
      <4>2. ataCall.done \in Nat /\ ataRequest.count \in Nat /\ n \in Nat
        BY <1>1, <4>1
      <4>3. i \in Nat /\ i < AtaPiece
        BY <4>1, <4>2
      <4> QED BY <4>1, <4>2, <4>3
    <3>1. j \in AtaPosition /\ j - ataCall.done = i
      BY <1>2, <3>0
    <3>2. ataRequest.lba + j - ataCall.done = ataRequest.lba + i
      BY <1>1
    <3> HIDE DEF j
    <3>3. ataBuffer'[j] = IF i \in Reached(n) THEN ataRequest.lba + i ELSE ataBuffer[j]
      BY <2>1, <3>1, <3>2
    <3>4. i \in Reached(n) <=> PageOf(j) \in ataResident
      BY <2>2 DEF j
    <3>5. ataBuffer'[j] = IF PageOf(j) \in ataResident THEN ataRequest.lba + i ELSE ataBuffer[j]
      BY <3>3, <3>4
    <3> QED BY <3>5 DEF j
  <2> QED BY <1>1, <1>4, <2>1, <2>3, <2>4, <2>5
<1> QED BY <1>3, <1>4

LEMMA AtaInvInit == AtaInit => AtaInv
<1> SUFFICES ASSUME AtaInit PROVE AtaInv
  OBVIOUS
<1>1. \A j \in AtaPosition : ataBuffer[j] = Untouched
  BY DEF AtaInit
<1>2. AtaTypes
  BY AhciAssumption DEF AtaInit, AtaTypes, Untouched
<1> QED BY <1>1, <1>2 DEF AtaInit, AtaInv, ReadWithin, DoneLeft, PortAgrees, NothingYet, PieceIn

LEMMA AtaAskKeeps ==
  ASSUME AtaInv, NEW lba \in AtaSector, NEW count \in AtaCounts, NEW offset \in {0, 1}, NEW pages,
         AtaAsk(lba, count, offset, pages)
  PROVE  AtaInv'
<1>1. AtaTypes /\ PortAgrees /\ count \in Nat \ {0} /\ lba \in Nat
  BY AhciAssumption DEF AtaInv, AtaSector
<1>2. /\ ataRequest' = [lba |-> lba, count |-> count, offset |-> offset]
      /\ ataBuffer' = [j \in AtaPosition |-> Untouched] /\ ataAnswer' = UnderWay
      /\ ataCall' = [at |-> "operation", done |-> 0] /\ UNCHANGED <<ataBounce, port>>
      /\ ataCall.at = "idle"
  BY DEF AtaAsk
<1>3. \A j \in AtaPosition : ataBuffer'[j] = Untouched
  BY <1>2
<1>4. AtaTypes'
  BY <1>1, <1>2 DEF AtaTypes, Untouched
<1>5. 0 % AtMost' = 0
  <2>1. (AtMost \in Nat \ {0})'
    BY AtaSizeFacts, PTL
  <2>2. \A n \in Nat \ {0} : 0 % n = 0
    BY SmallRemainder
  <2> QED BY <2>1, <2>2
<1>6. ReadWithin'
  BY <1>1, <1>2, <1>5 DEF ReadWithin
<1>7. DoneLeft'
  BY <1>2, <1>3 DEF DoneLeft, UnderWay
<1> QED BY <1>1, <1>2, <1>3, <1>4, <1>6, <1>7 DEF AtaInv, PortAgrees, NothingYet, PieceIn

LEMMA IssueKeeps ==
  ASSUME AtaInv, Issue
  PROVE  AtaInv'
<1>1. /\ AtaTypes /\ ReadWithin /\ DoneLeft /\ PortAgrees /\ NothingYet
      /\ ataCall.at = "operation"
  BY DEF AtaInv, Issue
<1>2. /\ port' = [port EXCEPT !.issued = TRUE, !.error = FALSE]
      /\ ataResident' = IF Crosses THEN ataResident ELSE ataResident \cup {PageOf(ataCall.done)}
      /\ ataCall' = [ataCall EXCEPT !.at = "wait"]
      /\ UNCHANGED <<ataRequest, ataBuffer, ataBounce, ataAnswer>>
  BY DEF Issue
<1>3. Crosses' = Crosses /\ AtMost' = AtMost /\ \A i : PageOf(i)' = PageOf(i)
  BY <1>2, SameRequest
<1>4. ataCall'.at = "wait" /\ ataCall'.done = ataCall.done
  BY <1>1, <1>2 DEF AtaTypes
<1>5. port'.issued /\ ~port'.error /\ port'.stands = port.stands
  BY <1>1, <1>2 DEF AtaTypes
<1>6. AtaTypes'
  BY <1>1, <1>2 DEF AtaTypes
<1>7. ReadWithin'
  BY <1>1, <1>2, <1>3, <1>4 DEF ReadWithin
<1>8. DoneLeft'
  <2>1. ataAnswer' # 0
    BY <1>1, <1>2 DEF ReadWithin, UnderWay
  <2>2. ASSUME NEW i \in 0 .. ataCall.done - 1 PROVE ataBuffer[i] = Left(i)'
    <3>1. ~Crosses => PageOf(i) # PageOf(ataCall.done)
      BY <1>1, LaterPage
    <3>2. Crosses \/ PageOf(i) \in ataResident <=> Crosses \/ PageOf(i) \in ataResident'
      BY <1>2, <3>1
    <3>3. Left(i)' = Left(i)
      BY <1>2, <1>3, <3>2 DEF Left
    <3> QED BY <1>1, <3>3 DEF DoneLeft
  <2> QED BY <1>1, <1>2, <1>4, <2>1, <2>2 DEF DoneLeft
<1>9. PortAgrees' /\ NothingYet' /\ PieceIn'
  BY <1>1, <1>2, <1>4, <1>5 DEF PortAgrees, NothingYet, PieceIn
<1> QED BY <1>6, <1>7, <1>8, <1>9 DEF AtaInv

(* The port moves data of the piece under way only.                         *)
LEMMA PortKeeps ==
  ASSUME AtaInv, port.issued, ~port.stands, NEW n \in 0 .. AtaPiece, Landed(n),
         UNCHANGED <<ataRequest, ataResident, ataAnswer, ataCall>>
  PROVE  /\ AtaTypes /\ PortAgrees /\ ataCall.at = "wait"
         /\ port' \in [issued : BOOLEAN, error : BOOLEAN, stands : BOOLEAN] => AtaTypes'
         /\ ReadWithin' /\ DoneLeft'
         /\ n = AtaPiece => PieceIn'
<1>1. /\ AtaTypes /\ ReadWithin /\ DoneLeft /\ PortAgrees /\ NothingYet
      /\ ataCall.at = "wait"
  BY DEF AtaInv, PortAgrees
<1>2. /\ ataBounce' \in [0 .. PrdtSectors - 1 -> Int] /\ ataBuffer' \in [AtaPosition -> Int]
      /\ \A j \in AtaPosition :
           ~(ataCall.done <= j /\ j < ataCall.done + n) \/ Crosses => ataBuffer'[j] = ataBuffer[j]
      /\ Crosses => \A i \in 0 .. n - 1 : ataBounce'[i] = ataRequest.lba + i
      /\ ~Crosses => \A i \in 0 .. n - 1 :
           ataBuffer'[ataCall.done + i] =
             IF PageOf(ataCall.done + i) \in ataResident THEN ataRequest.lba + i
                                                     ELSE ataBuffer[ataCall.done + i]
  BY <1>1, LandedStays
<1>3. Crosses' = Crosses /\ AtMost' = AtMost /\ \A i : PageOf(i)' = PageOf(i)
  BY SameRequest
<1>4. /\ AtaPiece \in Nat /\ ataCall.done + AtaPiece <= ataRequest.count
      /\ ataCall.done \in Nat /\ ataRequest.count \in Nat
  BY <1>1, AtaPieceFacts, AtaSizeFacts DEF AtaTypes
<1>a. /\ \A i \in 0 .. ataRequest.count : i \in AtaPosition
      /\ AtaPosition \subseteq Nat
  BY <1>1, AtaPieceFacts, AtaPositionFacts
<1>b. \A i \in 0 .. AtaPiece - 1 : (ataCall.done + i) % AtMost = i
  BY <1>1, AtaPieceFacts
<1>5. port' \in [issued : BOOLEAN, error : BOOLEAN, stands : BOOLEAN] => AtaTypes'
  BY <1>1, <1>2 DEF AtaTypes
<1>6. ReadWithin'
  BY <1>1, <1>3 DEF ReadWithin
<1>7. \A i : Left(i)' = Left(i)
  BY <1>3 DEF Left
<1>8. DoneLeft'
  <2>1. ataAnswer' # 0
    BY <1>1 DEF ReadWithin, UnderWay
  <2>2. ASSUME NEW i \in 0 .. ataCall.done - 1 PROVE ataBuffer'[i] = Left(i)'
    <3>1. i \in 0 .. ataRequest.count /\ ~(ataCall.done <= i)
      BY <1>4
    <3>2. ataBuffer'[i] = ataBuffer[i]
      BY <1>2, <1>a, <3>1
    <3> QED BY <1>1, <1>7, <3>2 DEF DoneLeft
  <2>3. ASSUME NEW j \in AtaPosition, j >= ataRequest.count PROVE ataBuffer'[j] = Untouched
    <3>1. ~(j < ataCall.done + n)
      <4>1. j \in Nat /\ n <= AtaPiece /\ n \in Nat
        BY <1>4, <1>a
      <4> QED BY <1>4, <2>3, <4>1
    <3> QED BY <1>1, <1>2, <2>3, <3>1 DEF DoneLeft
  <2> QED BY <2>1, <2>2, <2>3 DEF DoneLeft
<1>9. ASSUME n = AtaPiece PROVE PieceIn'
  <2>1. AtaPiece' = AtaPiece
    BY <1>3 DEF AtaPiece
  <2>2. \A j \in AtaPosition : j >= ataCall.done => ataBuffer[j] = Untouched
    BY <1>1 DEF NothingYet
  <2>3. ASSUME NEW i \in 0 .. AtaPiece - 1, ~Crosses
        PROVE  ataBuffer'[ataCall.done + i] = Left(ataCall.done + i)
    <3>1. ataCall.done + i \in 0 .. ataRequest.count /\ ataCall.done + i >= ataCall.done
      BY <1>4
    <3>2. ataBuffer[ataCall.done + i] = Untouched
      BY <1>a, <2>2, <3>1
    <3>3. (ataCall.done + i) % AtMost = i
      BY <1>b
    <3> QED BY <1>2, <1>9, <2>3, <3>2, <3>3 DEF Left
  <2>4. ASSUME NEW j \in AtaPosition,
               j >= ataCall.done + (IF Crosses THEN 0 ELSE AtaPiece)
        PROVE  ataBuffer'[j] = Untouched
    <3>0. j \in Nat
      BY <1>a
    <3>1. j >= ataCall.done /\ (~(j < ataCall.done + n) \/ Crosses)
      BY <1>4, <1>9, <2>4, <3>0
    <3> QED BY <1>2, <2>2, <3>1
  <2> QED BY <1>2, <1>3, <1>7, <1>9, <2>1, <2>3, <2>4 DEF PieceIn
<1> QED BY <1>1, <1>5, <1>6, <1>8, <1>9

LEMMA PortDoneKeeps ==
  ASSUME AtaInv, PortDone
  PROVE  AtaInv'
<1>1. AtaPiece \in 0 .. AtaPiece
  <2>1. AtaTypes /\ ReadWithin /\ ataCall.at = "wait"
    BY DEF AtaInv, PortAgrees, PortDone
  <2> QED BY <2>1, AtaPieceFacts, AtaSizeFacts
<1>2. /\ AtaTypes /\ PortAgrees /\ ataCall.at = "wait"
      /\ port' \in [issued : BOOLEAN, error : BOOLEAN, stands : BOOLEAN] => AtaTypes'
      /\ ReadWithin' /\ DoneLeft' /\ PieceIn'
  BY <1>1, PortKeeps DEF PortDone
<1>3. port' = [issued |-> FALSE, error |-> port.error, stands |-> port.stands] /\ UNCHANGED ataCall
  BY <1>2 DEF PortDone, AtaTypes
<1>4. port' \in [issued : BOOLEAN, error : BOOLEAN, stands : BOOLEAN]
  BY <1>2, <1>3 DEF AtaTypes
<1>5. PortAgrees' /\ NothingYet'
  BY <1>2, <1>3 DEF PortDone, PortAgrees, NothingYet
<1> QED BY <1>2, <1>4, <1>5 DEF AtaInv

LEMMA PortFailsKeeps ==
  ASSUME AtaInv, PortFails
  PROVE  AtaInv'
<1>1. PICK n \in 0 .. AtaPiece - 1 : Landed(n)
  BY DEF PortFails
<1>2. n \in 0 .. AtaPiece
  <2>1. AtaTypes /\ ReadWithin /\ ataCall.at = "wait"
    BY DEF AtaInv, PortAgrees, PortFails
  <2> QED BY <1>1, <2>1, AtaPieceFacts, AtaSizeFacts
<1>3. /\ AtaTypes /\ PortAgrees /\ ataCall.at = "wait"
      /\ port' \in [issued : BOOLEAN, error : BOOLEAN, stands : BOOLEAN] => AtaTypes'
      /\ ReadWithin' /\ DoneLeft'
  BY <1>1, <1>2, PortKeeps DEF PortFails
<1>4. /\ port' = [issued |-> port.issued, error |-> TRUE, stands |-> TRUE]
      /\ UNCHANGED ataCall /\ port.issued
  BY <1>3 DEF PortFails, AtaTypes
<1>5. port' \in [issued : BOOLEAN, error : BOOLEAN, stands : BOOLEAN]
  BY <1>3, <1>4 DEF AtaTypes
<1>6. PortAgrees' /\ NothingYet' /\ PieceIn'
  BY <1>3, <1>4 DEF PortAgrees, NothingYet, PieceIn
<1> QED BY <1>3, <1>5, <1>6 DEF AtaInv

LEMMA DeviceBusyKeeps ==
  ASSUME AtaInv, DeviceBusy
  PROVE  AtaInv'
<1>1. /\ AtaTypes /\ ReadWithin /\ DoneLeft /\ PortAgrees /\ ataCall.at = "operation"
  BY DEF AtaInv, DeviceBusy
<1>2. /\ ataAnswer' = 2 /\ ataCall' = [at |-> "idle", done |-> ataCall.done]
      /\ UNCHANGED <<ataRequest, ataResident, ataBuffer, ataBounce, port>>
  BY <1>1 DEF DeviceBusy, Return, AtaTypes
<1>3. AtaTypes'
  BY <1>1, <1>2 DEF AtaTypes
<1> QED BY <1>1, <1>2, <1>3 DEF AtaInv, ReadWithin, DoneLeft, PortAgrees, NothingYet, PieceIn

LEMMA OperationEndsKeeps ==
  ASSUME AtaInv, OperationEnds
  PROVE  AtaInv'
<1>1. /\ AtaTypes /\ ReadWithin /\ DoneLeft /\ PortAgrees /\ PieceIn /\ ataCall.at = "wait"
      /\ UNCHANGED <<ataRequest, ataResident, ataBounce, port>>
  BY DEF AtaInv, OperationEnds
<1>2. CASE port.error
  <2>1. /\ ataAnswer' = 3 /\ ataCall' = [at |-> "idle", done |-> ataCall.done] /\ UNCHANGED ataBuffer
    BY <1>1, <1>2 DEF OperationEnds, Return, AtaTypes
  <2>2. AtaTypes'
    BY <1>1, <2>1 DEF AtaTypes
  <2>3. ~(port.issued /\ ~port.stands)
    BY <1>1, <1>2 DEF PortAgrees
  <2> QED BY <1>1, <2>1, <2>2, <2>3 DEF AtaInv, ReadWithin, DoneLeft, PortAgrees, NothingYet, PieceIn
<1>3. CASE ~port.error
  <2>1. ~port.issued /\ ~port.stands
    BY <1>1, <1>3 DEF OperationEnds, PortAgrees
  <2>2. /\ AtaPiece \in Nat /\ AtMost \in Nat /\ AtaPiece <= AtMost
        /\ ataCall.done + AtaPiece <= ataRequest.count
        /\ ataCall.done \in Nat /\ ataRequest.count \in Nat /\ ataRequest.lba \in Nat
    BY <1>1, AtaPieceFacts, AtaSizeFacts DEF AtaTypes
  <2>a. /\ \A i \in 0 .. ataRequest.count : i \in AtaPosition
        /\ AtaPosition \subseteq Nat
    BY <1>1, AtaPieceFacts, AtaPositionFacts
  <2>b. /\ \A i \in 0 .. AtaPiece - 1 : (ataCall.done + i) % AtMost = i
        /\ ataCall.done + AtaPiece < ataRequest.count => (ataCall.done + AtaPiece) % AtMost = 0
    BY <1>1, AtaPieceFacts
  <2>3. Crosses' = Crosses /\ AtMost' = AtMost /\ \A i : PageOf(i)' = PageOf(i)
    BY <1>1, SameRequest
  <2>4. \A i : Left(i)' = Left(i)
    BY <1>1, <2>3 DEF Left
  <2>5. ataBuffer' = Copied
    BY <1>3 DEF OperationEnds
  <2>6. Crosses => AtMost = PrdtSectors
    BY DEF AtMost
  <2>7. ataBuffer' \in [AtaPosition -> Int]
    <3>1. CASE Crosses
      <4>1. ASSUME NEW j \in AtaPosition, j - ataCall.done \in 0 .. AtaPiece - 1
            PROVE  ataBounce[j - ataCall.done] \in Int
        <5>1. j - ataCall.done \in 0 .. PrdtSectors - 1
          BY <2>2, <2>6, <3>1, <4>1, AtaSizeFacts
        <5> QED BY <1>1, <5>1 DEF AtaTypes
      <4> QED BY <1>1, <2>5, <3>1, <4>1 DEF Copied, AtaTypes
    <3>2. CASE ~Crosses
      BY <1>1, <2>5, <3>2 DEF Copied, AtaTypes
    <3> QED BY <3>1, <3>2
  <2>8. ASSUME NEW i \in 0 .. ataCall.done + AtaPiece - 1
        PROVE  ataBuffer'[i] = Left(i)
    <3>1. i \in AtaPosition /\ i \in Nat
      <4>1. i \in 0 .. ataRequest.count
        BY <2>2
      <4> QED BY <2>a, <4>1
    <3>2. CASE i < ataCall.done
      <4>1. i - ataCall.done \notin 0 .. AtaPiece - 1 /\ i \in 0 .. ataCall.done - 1
        BY <2>2, <3>1, <3>2
      <4>2. ataBuffer'[i] = ataBuffer[i]
        BY <2>5, <3>1, <4>1 DEF Copied
      <4> QED BY <1>1, <4>1, <4>2 DEF DoneLeft
    <3>3. CASE i >= ataCall.done
      <4> DEFINE k == i - ataCall.done
      <4>1. k \in 0 .. AtaPiece - 1 /\ ataCall.done + k = i
        BY <2>2, <3>1, <3>3
      <4>2. CASE Crosses
        <5>1. ataBuffer'[i] = ataBounce[k]
          BY <2>5, <3>1, <4>1, <4>2 DEF Copied
        <5> HIDE DEF k
        <5>2. ataBounce[k] = ataRequest.lba + k
          BY <1>1, <2>1, <4>1, <4>2 DEF PieceIn
        <5>3. i % AtMost = k
          BY <2>b, <4>1
        <5> QED BY <4>2, <5>1, <5>2, <5>3 DEF Left
      <4>3. CASE ~Crosses
        <5>1. ataBuffer'[i] = ataBuffer[i]
          BY <2>5, <4>3 DEF Copied
        <5> HIDE DEF k
        <5> QED BY <1>1, <2>1, <4>1, <4>3, <5>1 DEF PieceIn
      <4> QED BY <4>2, <4>3
    <3> QED BY <2>2, <3>1, <3>2, <3>3
  <2>9. ASSUME NEW j \in AtaPosition, j >= ataCall.done + AtaPiece
        PROVE  ataBuffer'[j] = Untouched
    <3>0. j \in Nat
      BY <2>a
    <3>1. j - ataCall.done \notin 0 .. AtaPiece - 1 /\ j >= ataCall.done
      BY <2>2, <2>9, <3>0
    <3>2. ataBuffer'[j] = ataBuffer[j]
      BY <2>5, <3>1 DEF Copied
    <3> QED BY <1>1, <2>1, <2>2, <2>9, <3>1, <3>2 DEF PieceIn
  <2>10. \A j \in AtaPosition : j >= ataRequest.count => ataBuffer'[j] = Untouched
    BY <2>2, <2>9, <2>a
  <2>11. CASE ataCall.done + AtaPiece = ataRequest.count
    <3>1. ataAnswer' = 0 /\ ataCall' = [at |-> "idle", done |-> ataCall.done]
      BY <1>1, <1>3, <2>11 DEF OperationEnds, Return, AtaTypes
    <3>2. AtaTypes'
      BY <1>1, <2>7, <3>1 DEF AtaTypes
    <3>3. DoneLeft'
      <4>1. \A i \in 0 .. ataRequest.count - 1 : ataBuffer'[i] = Left(i)'
        <5> SUFFICES ASSUME NEW i \in 0 .. ataRequest.count - 1
                     PROVE  ataBuffer'[i] = Left(i)'
          OBVIOUS
        <5>1. i \in 0 .. ataCall.done + AtaPiece - 1
          BY <2>2, <2>11
        <5> QED BY <2>4, <2>8, <5>1
      <4>2. ataCall'.at = "idle" /\ UNCHANGED ataRequest
        BY <1>1, <3>1
      <4> QED BY <2>10, <4>1, <4>2 DEF DoneLeft
    <3> QED BY <1>1, <2>1, <3>1, <3>2, <3>3 DEF AtaInv, ReadWithin, PortAgrees, NothingYet, PieceIn
  <2>12. CASE ataCall.done + AtaPiece # ataRequest.count
    <3>1. ataAnswer' = ataAnswer /\ ataCall' = [at |-> "operation", done |-> ataCall.done + AtaPiece]
      BY <1>3, <2>12 DEF OperationEnds
    <3>2. ataCall.done + AtaPiece \in Nat /\ ataCall.done + AtaPiece < ataRequest.count
      BY <2>2, <2>12
    <3>3. AtaTypes'
      BY <1>1, <2>7, <3>1, <3>2 DEF AtaTypes
    <3>4. ReadWithin'
      BY <1>1, <2>b, <2>3, <3>1, <3>2 DEF ReadWithin
    <3>5. ataAnswer' # 0
      BY <1>1, <3>1 DEF ReadWithin, UnderWay
    <3>6. DoneLeft'
      <4>1. ataCall'.done = ataCall.done + AtaPiece /\ UNCHANGED ataRequest
        BY <1>1, <3>1
      <4>2. \A i \in 0 .. ataCall'.done - 1 : ataBuffer'[i] = Left(i)'
        <5> SUFFICES ASSUME NEW i \in 0 .. ataCall'.done - 1
                     PROVE  ataBuffer'[i] = Left(i)'
          OBVIOUS
        <5>1. i \in 0 .. ataCall.done + AtaPiece - 1
          BY <2>2, <4>1
        <5> QED BY <2>4, <2>8, <5>1
      <4> QED BY <2>10, <3>5, <4>1, <4>2 DEF DoneLeft
    <3>7. NothingYet'
      BY <2>9, <3>1 DEF NothingYet
    <3> QED BY <1>1, <2>1, <3>1, <3>3, <3>4, <3>6, <3>7 DEF AtaInv, PortAgrees, PieceIn
  <2> QED BY <2>11, <2>12
<1> QED BY <1>2, <1>3

LEMMA AtaInvStep == AtaInv /\ [AtaNext]_ataVars => AtaInv'
<1> SUFFICES ASSUME AtaInv, [AtaNext]_ataVars
             PROVE  AtaInv'
  OBVIOUS
<1>1. CASE UNCHANGED ataVars
  BY <1>1 DEF ataVars, AtaInv, AtaTypes, ReadWithin, DoneLeft, PortAgrees, NothingYet, PieceIn,
       Left, Crosses, PageOf, AtMost, AtaPiece
<1> QED BY <1>1, AtaAskKeeps, IssueKeeps, PortDoneKeeps, PortFailsKeeps, DeviceBusyKeeps,
          OperationEndsKeeps DEF AtaNext

(* What a read of a SATA disk that answers 0 has done, and that nothing     *)
(* behind its buffer changes, for buffers, pages and commands of any size.  *)
THEOREM AtaReads == AtaSpec => []AhciReads
<1>1. AtaInv => AhciReads
  BY DEF AtaInv, DoneLeft, AhciReads, Left
<1> QED BY <1>1, AtaInvInit, AtaInvStep, PTL DEF AtaSpec

-----------------------------------------------------------------------------
(* A pair of NVM Express queues.                                            *)
Id == 1 .. Ids - 1

SqTypes ==
  sq \in [ring : [0 .. SqSize -> 0 .. Ids - 1], bell : 0 .. SqSize,
          coid : 0 .. Ids - 1, indx : 0 .. SqSize]

CqTypes ==
  cq \in [ring : [0 .. CqSize -> [coid : 0 .. Ids - 1, phas : 0 .. 1]],
          bell : 0 .. CqSize, indx : 0 .. CqSize, cycl : 0 .. 1]

CtrlTypes ==
  ctrl \in [head : 0 .. SqSize, tail : 0 .. CqSize, phas : 0 .. 1, runs : 0 .. Ids - 1]

QueueTypes ==
  /\ SqTypes /\ CqTypes /\ CtrlTypes
  /\ asked \in 0 .. Ids - 1
  /\ sq.bell = sq.indx /\ cq.bell = cq.indx

(* The controller is where the driver is in the completion queue, with the  *)
(* phase the driver waits for, when it has nothing answered, ...            *)
NothingPosted == ctrl.tail = cq.indx /\ ctrl.phas = cq.cycl

(* ... or one entry further, with the phase of that place's round.          *)
Posted ==
  /\ ctrl.tail = After(cq.indx)
  /\ ctrl.phas = IF cq.indx = CqSize THEN 1 - cq.cycl ELSE cq.cycl
  /\ cq.ring[cq.indx] = Completion(asked, cq.cycl)

(* The entries before the controller's place have the phase of its round,   *)
(* those from there on have that of the round before.                       *)
Phases ==
  \A i \in 0 .. CqSize :
    cq.ring[i].phas = IF i < ctrl.tail THEN ctrl.phas ELSE 1 - ctrl.phas

(* Where the one command is: with nobody, in the ring, with the controller, *)
(* or answered.                                                             *)
OneCommand ==
  \/ asked = 0 /\ ctrl.runs = 0 /\ ctrl.head = sq.indx /\ NothingPosted
  \/ /\ asked # 0 /\ ctrl.runs = 0 /\ sq.indx = Steps(ctrl.head, SqSize)
     /\ sq.ring[ctrl.head] = asked /\ NothingPosted
  \/ asked # 0 /\ ctrl.runs = asked /\ ctrl.head = sq.indx /\ NothingPosted
  \/ asked # 0 /\ ctrl.runs = 0 /\ ctrl.head = sq.indx /\ Posted

QueueInv == QueueTypes /\ Phases /\ OneCommand

LEMMA QueueInit == QInit => QueueInv /\ AbstractQueue!Init
BY QueuesAssumption DEF QInit, QueueInv, QueueTypes, SqTypes, CqTypes, CtrlTypes, Phases,
     OneCommand, NothingPosted,
     SubmissionQueue, CompletionQueue, Completion, AbstractQueue!Init, Asked

LEMMA QueueStep ==
  QueueInv /\ [QNext]_queueVars => QueueInv' /\ [AbstractQueue!Next]_AbstractQueue!vars
<1> SUFFICES ASSUME QueueInv, [QNext]_queueVars
             PROVE  QueueInv' /\ [AbstractQueue!Next]_AbstractQueue!vars
  OBVIOUS
<1>a. QueueTypes /\ Phases /\ OneCommand
  BY DEF QueueInv
<1>n. SqSize \in Nat /\ SqSize > 0 /\ CqSize \in Nat /\ CqSize > 0 /\ Ids \in Nat /\ Ids > 1
  BY QueuesAssumption
<1>f. /\ sq.coid \in 0 .. Ids - 1 /\ sq.indx \in 0 .. SqSize /\ sq.bell = sq.indx
      /\ cq.indx \in 0 .. CqSize /\ cq.bell = cq.indx /\ cq.cycl \in 0 .. 1
      /\ ctrl.head \in 0 .. SqSize /\ ctrl.tail \in 0 .. CqSize
      /\ ctrl.phas \in 0 .. 1 /\ ctrl.runs \in 0 .. Ids - 1
      /\ asked \in 0 .. Ids - 1
  BY <1>a DEF QueueTypes, SqTypes, CqTypes, CtrlTypes
<1>g. /\ sq.ring \in [0 .. SqSize -> 0 .. Ids - 1]
      /\ cq.ring \in [0 .. CqSize -> [coid : 0 .. Ids - 1, phas : 0 .. 1]]
  BY <1>a DEF QueueTypes, SqTypes, CqTypes
<1>1. CASE Submission
  <2>1. NextId \in Id
    BY <1>n, <1>f DEF NextId, Id
  <2>2. OneCommand => ctrl.runs = 0 /\ ctrl.head = sq.indx /\ NothingPosted
    BY <1>1, <1>a DEF Submission, OneCommand
  <2>3. Steps(sq.indx, SqSize) \in 0 .. SqSize
    BY <1>n, <1>f DEF Steps
  <2>4. QueueTypes'
    <3>1. [sq.ring EXCEPT ![sq.indx] = NextId] \in [0 .. SqSize -> 0 .. Ids - 1]
      BY <1>f, <1>g, <2>1 DEF Id
    <3>2. SqTypes'
      BY <1>n, <1>1, <2>1, <2>3, <3>1 DEF Submission, SqTypes, Id
    <3>3. asked' \in 0 .. Ids - 1 /\ sq'.bell = sq'.indx
      BY <1>1, <1>n, <2>1 DEF Submission, Id
    <3> QED BY <1>a, <1>1, <3>2, <3>3 DEF Submission, QueueTypes, CqTypes, CtrlTypes
  <2>5. Phases'
    BY <1>a, <1>1 DEF Submission, Phases
  <2>6. OneCommand'
    <3>1. ctrl.runs = 0 /\ ctrl.head = sq.indx /\ NothingPosted
      BY <1>a, <1>1, <2>2 DEF Submission
    <3>2. sq'.ring[sq.indx] = NextId /\ sq'.indx = Steps(sq.indx, SqSize)
      BY <1>f, <1>g, <1>1 DEF Submission
    <3>3. asked' = NextId /\ NextId # 0 /\ UNCHANGED <<cq, ctrl>>
      BY <1>1, <1>n, <2>1 DEF Submission, Id
    <3> QED BY <3>1, <3>2, <3>3 DEF OneCommand, NothingPosted
  <2>7. AbstractQueue!Put(NextId)
    BY <1>1, <2>1 DEF Submission, AbstractQueue!Put, Asked, Id
  <2> QED BY <2>1, <2>4, <2>5, <2>6, <2>7 DEF AbstractQueue!Next, Id, QueueInv
<1>2. CASE CompletionTaken
  <2>1. ~ NothingPosted
    BY <1>a, <1>f, <1>2 DEF CompletionTaken, HasCompletion, Phases, NothingPosted
  <2>2. Posted /\ ctrl.runs = 0 /\ ctrl.head = sq.indx
    BY <1>a, <1>2, <2>1 DEF CompletionTaken, OneCommand
  <2>3. Steps(cq.indx, CqSize) = After(cq.indx) /\ After(cq.indx) \in 0 .. CqSize
    BY <1>n, <1>f DEF Steps, After
  <2>4. /\ cq' = [ring |-> cq.ring, indx |-> After(cq.indx), bell |-> After(cq.indx),
                  cycl |-> IF cq.indx = CqSize THEN 1 - cq.cycl ELSE cq.cycl]
        /\ asked' = 0 /\ answered' = cq.ring[cq.indx].coid /\ UNCHANGED <<sq, ctrl>>
    BY <1>a, <1>2, <2>3 DEF CompletionTaken, QueueTypes, CqTypes
  <2>5. QueueTypes'
    <3>1. CqTypes'
      BY <1>f, <1>g, <2>3, <2>4 DEF CqTypes
    <3>2. asked' \in 0 .. Ids - 1 /\ cq'.bell = cq'.indx
      BY <1>n, <2>4
    <3> QED BY <1>a, <2>4, <3>1, <3>2 DEF QueueTypes, SqTypes, CtrlTypes
  <2>6. Phases'
    BY <1>a, <2>4 DEF Phases
  <2>7. OneCommand'
    BY <1>f, <2>2, <2>4 DEF OneCommand, NothingPosted, Posted
  <2>8. AbstractQueue!Get
    BY <1>2, <2>2 DEF CompletionTaken, AbstractQueue!Get, Asked, Posted, Completion
  <2> QED BY <2>5, <2>6, <2>7, <2>8 DEF AbstractQueue!Next, QueueInv
<1>3. CASE TakeCommand
  <2>1. /\ asked # 0 /\ sq.indx = Steps(ctrl.head, SqSize) /\ sq.ring[ctrl.head] = asked
        /\ NothingPosted
    BY <1>a, <1>f, <1>3 DEF TakeCommand, OneCommand
  <2>2. /\ ctrl' = [head |-> Steps(ctrl.head, SqSize), tail |-> ctrl.tail,
                    phas |-> ctrl.phas, runs |-> asked]
        /\ UNCHANGED <<sq, cq, asked, answered>>
    <3>1. Steps(ctrl.head, SqSize) = IF ctrl.head = SqSize THEN 0 ELSE ctrl.head + 1
      BY <1>n, <1>f DEF Steps
    <3> QED BY <1>a, <1>3, <2>1, <3>1 DEF TakeCommand, QueueTypes, CtrlTypes
  <2>3. QueueTypes'
    <3>1. Steps(ctrl.head, SqSize) \in 0 .. SqSize
      BY <1>n, <1>f DEF Steps
    <3>2. CtrlTypes'
      BY <1>f, <2>2, <3>1 DEF CtrlTypes
    <3> QED BY <1>a, <2>2, <3>2 DEF QueueTypes, SqTypes, CqTypes
  <2>4. Phases'
    BY <1>a, <2>2 DEF Phases
  <2>5. OneCommand'
    BY <2>1, <2>2 DEF OneCommand, NothingPosted
  <2>6. UNCHANGED AbstractQueue!vars
    BY <2>2 DEF AbstractQueue!vars, Asked
  <2> QED BY <2>3, <2>4, <2>5, <2>6 DEF QueueInv
<1>4. CASE PostCompletion
  <2>1. asked # 0 /\ ctrl.runs = asked /\ ctrl.head = sq.indx /\ NothingPosted
    BY <1>a, <1>4 DEF PostCompletion, OneCommand
  <2> DEFINE ring == [cq.ring EXCEPT ![ctrl.tail] = Completion(asked, ctrl.phas)]
  <2>2. After(ctrl.tail) \in 0 .. CqSize
    BY <1>n, <1>f DEF After
  <2>3. /\ cq' = [ring |-> ring, indx |-> cq.indx, bell |-> cq.bell, cycl |-> cq.cycl]
        /\ ctrl' = [head |-> ctrl.head, tail |-> After(ctrl.tail), runs |-> 0,
                    phas |-> IF ctrl.tail = CqSize THEN 1 - ctrl.phas ELSE ctrl.phas]
        /\ UNCHANGED <<sq, asked, answered>>
    BY <1>a, <1>4, <2>1 DEF PostCompletion, QueueTypes, CqTypes, CtrlTypes
  <2>4. Completion(asked, ctrl.phas) \in [coid : 0 .. Ids - 1, phas : 0 .. 1]
    BY <1>f, <1>g DEF Completion
  <2>5. ring \in [0 .. CqSize -> [coid : 0 .. Ids - 1, phas : 0 .. 1]]
    BY <1>f, <1>g, <2>4
  <2>6. QueueTypes'
    <3> HIDE DEF ring
    <3>1. CqTypes'
      BY <1>f, <2>3, <2>5 DEF CqTypes
    <3>2. CtrlTypes'
      BY <1>n, <1>f, <2>2, <2>3 DEF CtrlTypes
    <3> QED BY <1>a, <2>3, <3>1, <3>2 DEF QueueTypes, SqTypes
  <2>7. \A i \in 0 .. CqSize :
          ring[i].phas = IF i = ctrl.tail THEN ctrl.phas ELSE cq.ring[i].phas
    BY <1>f, <1>g DEF Completion
  <2>8. Phases'
    <3> SUFFICES ASSUME NEW i \in 0 .. CqSize
                 PROVE  ring[i].phas = IF i < ctrl'.tail THEN ctrl'.phas ELSE 1 - ctrl'.phas
      BY <2>3 DEF Phases
    <3>1. cq.ring[i].phas = IF i < ctrl.tail THEN ctrl.phas ELSE 1 - ctrl.phas
      BY <1>a DEF Phases
    <3>2. ctrl'.tail = After(ctrl.tail)
      BY <2>3
    <3>3. ctrl'.phas = IF ctrl.tail = CqSize THEN 1 - ctrl.phas ELSE ctrl.phas
      BY <2>3
    <3> HIDE DEF ring
    <3>4. CASE ctrl.tail = CqSize
      BY <1>n, <1>f, <2>7, <3>1, <3>2, <3>3, <3>4 DEF After
    <3>5. CASE ctrl.tail # CqSize
      BY <1>n, <1>f, <2>7, <3>1, <3>2, <3>3, <3>5 DEF After
    <3> QED BY <3>4, <3>5
  <2>9. OneCommand'
    <3>1. ring[cq.indx] = Completion(asked, ctrl.phas)
      BY <1>f, <1>g, <2>1 DEF NothingPosted
    <3> HIDE DEF ring
    <3> QED BY <2>1, <2>3, <3>1 DEF OneCommand, NothingPosted, Posted
  <2>10. UNCHANGED AbstractQueue!vars
    BY <2>3 DEF AbstractQueue!vars, Asked
  <2> QED BY <2>6, <2>8, <2>9, <2>10 DEF QueueInv
<1>5. CASE UNCHANGED queueVars
  BY <1>a, <1>5 DEF queueVars, QueueInv, QueueTypes, SqTypes, CqTypes, CtrlTypes, Phases,
       OneCommand, NothingPosted, Posted, After, AbstractQueue!vars, Asked
<1> QED BY <1>1, <1>2, <1>3, <1>4, <1>5 DEF QNext

THEOREM QueuesImplementFifo == QSpec => ImplementsFifo
BY QueueInit, QueueStep, PTL DEF QSpec, ImplementsFifo, AbstractQueue!Spec

-----------------------------------------------------------------------------
(* The registry of disks and partitions.                                    *)
EntryType == [type : STRING, id : STRING]

InTable == {"look", "boot", "compare"}
Met     == {"boot", "compare"}

WalkTypes ==
  /\ table \in [Disks -> Seq(EntryType)]
  /\ list \in Seq(Disks) /\ \A k \in 1 .. Len(list) : list[k] = Len(list) + 1 - k
  /\ walk \in [at : {"idle", "header", "entry"} \cup InTable, disk : 0 .. Len(list), index : Nat]
  /\ counter \in Nat /\ lost \in Nat
  /\ volume = NoSector \/ volume \in Disks \X Nat

(* What is kept of a partition is its own.                                  *)
PartsOwn ==
  /\ DOMAIN part = Disks /\ part = [d \in Disks |-> part[d]]
  /\ \A d \in Disks :
       /\ part[d] = [i \in DOMAIN part[d] |-> part[d][i]]
       /\ \A i \in DOMAIN part[d] :
            /\ i \in Indices(d) /\ ~Null(Entry(d, i))
            /\ part[d][i] \in [entry : {Entry(d, i)}, boot : {Zero, HalfRead, <<d, i + 2>>}]

InPage == page = <<walk.disk, walk.index \div PerSector>>

(* The walk is in the disk inserted last, with the sector of its entry in   *)
(* the page, and has met no partition from its index on, or only this one.  *)
WalkAgrees ==
  /\ walk.at # "idle" => walk.disk = Len(list) /\ walk.disk \in Disks
  /\ walk.at = "header" => walk.index = 0
  /\ walk.at = "entry" =>
       walk.index \in 0 .. Len(table[walk.disk]) /\ (walk.index % PerSector # 0 => InPage)
  /\ walk.at \in InTable => walk.index \in Indices(walk.disk) /\ InPage
  /\ walk.at \in Met => walk.index \in DOMAIN part[walk.disk]
  /\ walk.disk \in Disks => \A i \in DOMAIN part[walk.disk] :
                              i < walk.index \/ (walk.at \in Met /\ i = walk.index)
  /\ \A d \in Disks : d > Len(list) => DOMAIN part[d] = {}

(* The entries in use that the walks have passed have their partitions.     *)
Passed(d, i) == Null(Entry(d, i)) \/ i \in DOMAIN part[d]
Covered ==
  /\ walk.at # "idle" => \A i \in Indices(walk.disk) : i < walk.index => Passed(walk.disk, i)
  /\ lost = 0 =>
       \A d \in 1 .. Len(list) : walk.at = "idle" \/ d # walk.disk =>
         \A i \in Indices(d) : Passed(d, i)

VolumeFound ==
  /\ volume # NoSector => volume[2] \in DOMAIN part[volume[1]]
                      /\ Entry(volume[1], volume[2]).id = SystemId
  /\ (\E d \in Disks : \E i \in DOMAIN part[d] :
        part[d][i].entry.id = SystemId /\ ~(walk.disk = d /\ walk.index = i))
     => volume # NoSector

Counted == counter + lost + (IF walk.at = "idle" THEN 0 ELSE 1) = Len(list)

WalkInv == WalkTypes /\ PartsOwn /\ WalkAgrees /\ Covered /\ VolumeFound /\ Counted

-----------------------------------------------------------------------------
LEMMA DisksAreNumbers == Disks \subseteq Nat \ {0}
<1>1. Cardinality(Disks) \in Nat
  BY PartitionAssumption, FS_CardinalityType
<1> QED BY <1>1, PartitionAssumption

LEMMA WalkInvInit == WalkInit => WalkInv
<1> SUFFICES ASSUME WalkInit PROVE WalkInv
  OBVIOUS
<1> USE PartitionAssumption
<1>1. /\ table \in [Disks -> Tables] /\ list = <<>> /\ volume = NoSector
      /\ part = [d \in Disks |-> [i \in {} |-> 0]]
      /\ walk = [at |-> "idle", disk |-> 0, index |-> 0] /\ counter = 0 /\ lost = 0
  BY DEF WalkInit
<1>2. table \in [Disks -> Seq(EntryType)]
  BY <1>1 DEF EntryType
<1>3. WalkTypes
  BY <1>1, <1>2 DEF WalkTypes
<1>4. \A d \in Disks : DOMAIN part[d] = {}
  BY <1>1
<1>5. PartsOwn
  BY <1>1, <1>4 DEF PartsOwn
<1>6. WalkAgrees
  BY <1>1, <1>4, DisksAreNumbers DEF WalkAgrees, InTable, Met
<1> QED BY <1>1, <1>3, <1>4, <1>5, <1>6 DEF WalkInv, Covered, VolumeFound, Counted

LEMMA InsertKeeps ==
  ASSUME WalkInv, NEW d \in Disks, Insert(d)
  PROVE  WalkInv'
<1>1. WalkTypes /\ PartsOwn /\ WalkAgrees /\ Covered /\ VolumeFound /\ Counted
  BY DEF WalkInv
<1>2. /\ walk.at = "idle" /\ d = Len(list) + 1 /\ list' = <<d>> \o list
      /\ walk' = [at |-> "header", disk |-> d, index |-> 0]
      /\ UNCHANGED <<table, part, volume, page, dma, counter, lost>>
  BY DEF Insert
<1>3. list \in Seq(Disks) /\ Len(list) \in Nat
  BY <1>1 DEF WalkTypes
<1>4. list' \in Seq(Disks) /\ Len(list') = d
  BY <1>2, <1>3
<1>5. \A k \in 1 .. Len(list') : list'[k] = Len(list') + 1 - k
  <2> SUFFICES ASSUME NEW k \in 1 .. Len(list') PROVE list'[k] = Len(list') + 1 - k
    OBVIOUS
  <2>1. CASE k = 1
    BY <1>2, <1>3, <1>4, <2>1
  <2>2. CASE k # 1
    <3>1. k - 1 \in 1 .. Len(list) /\ list'[k] = list[k - 1]
      BY <1>2, <1>3, <1>4, <2>2
    <3>2. list[k - 1] = Len(list) + 1 - (k - 1)
      BY <1>1, <3>1 DEF WalkTypes
    <3> QED BY <1>2, <1>3, <1>4, <3>1, <3>2
  <2> QED BY <2>1, <2>2
<1>6. d \in 0 .. Len(list')
  BY <1>2, <1>3, <1>4
<1>7. WalkTypes'
  BY <1>1, <1>2, <1>4, <1>5, <1>6 DEF WalkTypes
<1>8. PartsOwn'
  BY <1>1, <1>2 DEF PartsOwn, Indices, Entry, Null, Zero
<1>9. DOMAIN part[d] = {}
  BY <1>1, <1>2, <1>3 DEF WalkAgrees
<1>10. WalkAgrees'
  <2>1. /\ walk'.at = "header" /\ walk'.disk = d /\ walk'.index = 0 /\ walk'.disk = Len(list')
        /\ UNCHANGED <<table, part>>
    BY <1>2, <1>4
  <2>2. \A x \in Disks : x > Len(list') => DOMAIN part'[x] = {}
    <3>1. \A x \in Disks : x > Len(list') => x > Len(list)
      BY <1>2, <1>3, <1>4, DisksAreNumbers
    <3> QED BY <1>1, <2>1, <3>1 DEF WalkAgrees
  <2>3. \A i \in DOMAIN part'[walk'.disk] : FALSE
    BY <1>9, <2>1
  <2> QED BY <2>1, <2>2, <2>3 DEF WalkAgrees, InTable, Met
<1>11. Covered'
  <2>1. \A x : Indices(x)' = Indices(x) /\ \A i : Passed(x, i)' = Passed(x, i)
    BY <1>2 DEF Indices, Passed, Entry, Null
  <2>2. \A i \in Indices(d) : ~(i < 0)
    BY DEF Indices
  <2>3. ASSUME lost = 0, NEW x \in 1 .. Len(list'), x # d, NEW i \in Indices(x) PROVE Passed(x, i)
    <3>1. x \in 1 .. Len(list)
      BY <1>2, <1>3, <1>4, <2>3
    <3> QED BY <1>1, <1>2, <2>3, <3>1 DEF Covered
  <2> QED BY <1>2, <2>1, <2>2, <2>3 DEF Covered
<1>12. VolumeFound'
  <2>1. ASSUME NEW x \in Disks, NEW i \in DOMAIN part[x], part[x][i].entry.id = SystemId
        PROVE  volume # NoSector
    <3>1. ~(walk.disk = x /\ walk.index = i)
      <4> SUFFICES ASSUME walk.disk = x, walk.index = i PROVE FALSE
        OBVIOUS
      <4>1. i \in Nat /\ ~(walk.at \in Met)
        BY <1>1, <1>2 DEF PartsOwn, Indices, Met
      <4> QED BY <1>1, <4>1 DEF WalkAgrees
    <3> QED BY <1>1, <2>1, <3>1 DEF VolumeFound
  <2> QED BY <1>1, <1>2, <2>1 DEF VolumeFound, Entry
<1>13. Counted'
  BY <1>1, <1>2, <1>3, <1>4 DEF Counted, WalkTypes
<1> QED BY <1>7, <1>8, <1>10, <1>11, <1>12, <1>13 DEF WalkInv

(* Steps that leave the registry and its partitions alone.                  *)
LEMMA SameRegistry ==
  ASSUME WalkInv, UNCHANGED <<table, list, part, volume>>
  PROVE  /\ walk' \in [at : {"idle", "header", "entry"} \cup InTable, disk : 0 .. Len(list), index : Nat]
              /\ counter' \in Nat /\ lost' \in Nat => WalkTypes'
         /\ PartsOwn'
         /\ \A d, i : Passed(d, i)' = Passed(d, i) /\ Indices(d)' = Indices(d)
         /\ walk'.disk = walk.disk /\ walk'.index = walk.index => VolumeFound'
<1>1. WalkTypes /\ PartsOwn /\ VolumeFound
  BY DEF WalkInv
<1>2. walk' \in [at : {"idle", "header", "entry"} \cup InTable, disk : 0 .. Len(list), index : Nat]
        /\ counter' \in Nat /\ lost' \in Nat => WalkTypes'
  BY <1>1 DEF WalkTypes
<1>3. PartsOwn'
  BY <1>1 DEF PartsOwn, Indices, Entry, Null, Zero
<1>4. \A d, i : Passed(d, i)' = Passed(d, i) /\ Indices(d)' = Indices(d)
  BY DEF Passed, Entry, Null, Indices
<1>5. walk'.disk = walk.disk /\ walk'.index = walk.index => VolumeFound'
  BY <1>1 DEF VolumeFound, Entry
<1> QED BY <1>2, <1>3, <1>4, <1>5

LEMMA GiveUpKeeps ==
  ASSUME WalkInv, walk.at \in {"header", "entry"}, GiveUp,
         UNCHANGED <<table, list, part, volume, counter>>
  PROVE  WalkInv'
<1>1. WalkTypes /\ WalkAgrees /\ Covered /\ Counted
  BY DEF WalkInv
<1>2. walk' = [at |-> "idle", disk |-> walk.disk, index |-> walk.index] /\ lost' = lost + 1
  BY <1>1 DEF GiveUp, WalkTypes
<1>3. WalkTypes'
  BY <1>1, <1>2, SameRegistry DEF WalkTypes
<1>4. PartsOwn' /\ VolumeFound'
  BY <1>2, SameRegistry
<1>5. WalkAgrees'
  <2>1. walk.at \notin Met
    BY DEF Met
  <2> QED BY <1>1, <1>2, <2>1 DEF WalkAgrees, InTable, Met
<1>6. Covered'
  BY <1>1, <1>2 DEF Covered, WalkTypes
<1>7. Counted'
  BY <1>1, <1>2 DEF Counted, WalkTypes
<1> QED BY <1>3, <1>4, <1>5, <1>6, <1>7 DEF WalkInv

LEMMA ReadHeaderKeeps ==
  ASSUME WalkInv, ReadHeader
  PROVE  WalkInv'
<1>1. CASE GiveUp
  BY <1>1, GiveUpKeeps DEF ReadHeader
<1>2. CASE walk' = [walk EXCEPT !.at = "entry"] /\ UNCHANGED lost
  <2>1. WalkTypes /\ WalkAgrees /\ Covered /\ Counted /\ walk.at = "header"
    BY DEF WalkInv, ReadHeader
  <2>2. /\ walk' = [at |-> "entry", disk |-> walk.disk, index |-> walk.index]
        /\ UNCHANGED <<table, list, part, volume, page, dma, counter, lost>>
    BY <1>2, <2>1 DEF ReadHeader, WalkTypes
  <2>3. WalkTypes'
    BY <2>1, <2>2, SameRegistry DEF WalkTypes
  <2>4. /\ PartsOwn' /\ VolumeFound'
        /\ \A d, i : Passed(d, i)' = Passed(d, i) /\ Indices(d)' = Indices(d)
    BY <2>2, SameRegistry
  <2>5. walk.index = 0 /\ walk.disk \in Disks
    BY <2>1 DEF WalkAgrees
  <2>6. 0 \in 0 .. Len(table[walk.disk]) /\ 0 % PerSector = 0
    BY <2>1, <2>5, PartitionAssumption DEF WalkTypes
  <2>7. WalkAgrees'
    <3>1. walk.at \notin Met /\ "entry" \notin InTable /\ "entry" \notin Met
      BY <2>1 DEF Met, InTable
    <3> QED BY <2>1, <2>2, <2>5, <2>6, <3>1 DEF WalkAgrees
  <2>8. Covered'
    BY <2>1, <2>2, <2>4 DEF Covered
  <2>9. Counted'
    BY <2>1, <2>2 DEF Counted
  <2> QED BY <2>3, <2>4, <2>7, <2>8, <2>9 DEF WalkInv
<1> QED BY <1>1, <1>2 DEF ReadHeader

(* From an entry of the table to the look at it: its sector is in the page. *)
LEMMA LookKeeps ==
  ASSUME WalkInv, walk.at = "entry", walk.index \in Indices(walk.disk),
         walk' = [walk EXCEPT !.at = "look"], InPage',
         UNCHANGED <<table, list, part, volume, counter, lost>>
  PROVE  WalkInv'
<1>1. WalkTypes /\ WalkAgrees /\ Covered /\ Counted
  BY DEF WalkInv
<1>2. walk' = [at |-> "look", disk |-> walk.disk, index |-> walk.index]
  BY <1>1 DEF WalkTypes
<1>3. WalkTypes'
  BY <1>1, <1>2, SameRegistry DEF WalkTypes, InTable
<1>4. /\ PartsOwn' /\ VolumeFound'
      /\ \A d, i : Passed(d, i)' = Passed(d, i) /\ Indices(d)' = Indices(d)
  BY <1>2, SameRegistry
<1>5. WalkAgrees'
  <2>1. "entry" \notin Met /\ "look" \notin Met
    BY DEF Met
  <2> QED BY <1>1, <1>2, <1>4, <2>1 DEF WalkAgrees, InPage
<1>6. Covered'
  BY <1>1, <1>2, <1>4 DEF Covered
<1>7. Counted'
  BY <1>1, <1>2 DEF Counted
<1> QED BY <1>3, <1>4, <1>5, <1>6, <1>7 DEF WalkInv

LEMMA ReadEntriesKeeps ==
  ASSUME WalkInv, ReadEntries
  PROVE  WalkInv'
<1>1. CASE GiveUp
  BY <1>1, GiveUpKeeps DEF ReadEntries
<1>2. CASE ~GiveUp
  <2>1. page' = <<walk.disk, walk.index \div PerSector>> /\ walk' = [walk EXCEPT !.at = "look"]
    BY <1>2 DEF ReadEntries
  <2>2. walk'.disk = walk.disk /\ walk'.index = walk.index
    BY <2>1 DEF WalkInv, WalkTypes
  <2>3. InPage'
    BY <2>1, <2>2 DEF InPage
  <2> QED BY <1>2, <2>1, <2>3, LookKeeps DEF ReadEntries
<1> QED BY <1>1, <1>2

LEMMA SameSectorKeeps ==
  ASSUME WalkInv, SameSector
  PROVE  WalkInv'
<1>1. InPage /\ walk'.disk = walk.disk /\ walk'.index = walk.index /\ UNCHANGED page
  BY DEF SameSector, WalkInv, WalkTypes, WalkAgrees
<1>2. InPage'
  BY <1>1 DEF InPage
<1> QED BY <1>2, LookKeeps DEF SameSector

(* What the walk looks at is the entry of its index.                        *)
LEMMA SeenIsEntry ==
  ASSUME WalkInv, walk.at \in InTable
  PROVE  Seen = Entry(walk.disk, walk.index)
<1>1. /\ page = <<walk.disk, walk.index \div PerSector>> /\ walk.index \in Nat
      /\ PerSector \in Nat \ {0}
  BY PartitionAssumption DEF WalkInv, WalkTypes, WalkAgrees, InPage
<1>2. \A x \in Nat, n \in Nat \ {0} : (x \div n) * n + (x % n) = x
  OBVIOUS
<1>3. (walk.index \div PerSector) * PerSector + (walk.index % PerSector) = walk.index
  BY <1>1, <1>2
<1> QED BY <1>1, <1>3 DEF Seen

LEMMA NextInPage ==
  ASSUME NEW x \in Nat, NEW n \in Nat \ {0}, (x + 1) % n # 0
  PROVE  (x + 1) \div n = x \div n
<1> DEFINE q == (x + 1) \div n
           r == (x + 1) % n
<1>1. x + 1 = n * q + r /\ q \in Nat /\ r \in 0 .. n - 1
  OBVIOUS
<1> HIDE DEF q, r
<1>2. r # 0
  BY DEF r
<1>3. x = n * q + (r - 1) /\ r - 1 \in 0 .. n - 1
  BY <1>1, <1>2
<1>4. x \div n = q
  BY <1>1, <1>3
<1> QED BY <1>4 DEF q

(* On to the next entry, with what has to be known of this one.             *)
LEMMA NextEntryKeeps ==
  ASSUME WalkInv, walk.at \in {"look", "compare"}, NextEntry,
         walk.at = "look" => Null(Entry(walk.disk, walk.index)),
         UNCHANGED <<table, list, part, page, counter, lost>>,
         volume' = volume \/ volume' = <<walk.disk, walk.index>>,
         VolumeFound'
  PROVE  WalkInv'
<1>1. WalkTypes /\ PartsOwn /\ WalkAgrees /\ Covered /\ Counted
  BY DEF WalkInv
<1>2. walk' = [at |-> "entry", disk |-> walk.disk, index |-> walk.index + 1]
  BY <1>1 DEF NextEntry, WalkTypes
<1>3. /\ walk.index \in Indices(walk.disk) /\ walk.disk \in Disks /\ walk.disk = Len(list)
      /\ InPage /\ walk.index \in Nat
  BY <1>1 DEF WalkAgrees, WalkTypes, InTable
<1>4. WalkTypes'
  <2>1. volume' = NoSector \/ volume' \in Disks \X Nat
    BY <1>1, <1>3 DEF WalkTypes
  <2>2. walk' \in [at : {"idle", "header", "entry"} \cup InTable, disk : 0 .. Len(list), index : Nat]
    BY <1>1, <1>2, <1>3 DEF WalkTypes
  <2> QED BY <1>1, <2>1, <2>2 DEF WalkTypes
<1>5. PartsOwn'
  BY <1>1 DEF PartsOwn, Indices, Entry, Null, Zero
<1>6. \A d, i : Passed(d, i)' = Passed(d, i) /\ Indices(d)' = Indices(d)
  BY DEF Passed, Entry, Null, Indices
<1>7. WalkAgrees'
  <2>1. walk.index + 1 \in 0 .. Len(table[walk.disk])
    <3>1. Len(table[walk.disk]) \in Nat
      BY <1>1, <1>3 DEF WalkTypes
    <3> QED BY <1>3, <3>1 DEF Indices
  <2>2. (walk.index + 1) % PerSector # 0 => page = <<walk.disk, (walk.index + 1) \div PerSector>>
    BY <1>3, NextInPage, PartitionAssumption DEF InPage
  <2>3. \A i \in DOMAIN part[walk.disk] : i < walk.index + 1
    <3>1. \A i \in DOMAIN part[walk.disk] : i \in Nat
      BY <1>1, <1>3 DEF PartsOwn, Indices
    <3> QED BY <1>1, <1>3, <3>1 DEF WalkAgrees
  <2>4. "entry" \notin InTable /\ "entry" \notin Met
    BY DEF InTable, Met
  <2> QED BY <1>1, <1>2, <1>3, <2>1, <2>2, <2>3, <2>4 DEF WalkAgrees, InPage
<1>8. Covered'
  <2>1. Passed(walk.disk, walk.index)
    BY <1>1 DEF Passed, WalkAgrees, Met
  <2>2. ASSUME NEW i \in Indices(walk.disk), i < walk.index + 1 PROVE Passed(walk.disk, i)
    <3>1. i \in Nat
      BY DEF Indices
    <3>2. i < walk.index \/ i = walk.index
      BY <1>3, <2>2, <3>1
    <3> QED BY <1>1, <2>1, <3>2 DEF Covered
  <2> QED BY <1>1, <1>2, <1>6, <2>2 DEF Covered
<1>9. Counted'
  BY <1>1, <1>2 DEF Counted
<1> QED BY <1>4, <1>5, <1>7, <1>8, <1>9 DEF WalkInv

LEMMA SkipEntryKeeps ==
  ASSUME WalkInv, SkipEntry
  PROVE  WalkInv'
<1>1. WalkTypes /\ PartsOwn /\ WalkAgrees /\ VolumeFound /\ walk.at = "look"
  BY DEF WalkInv, SkipEntry
<1>2. /\ walk' = [at |-> "entry", disk |-> walk.disk, index |-> walk.index + 1]
      /\ UNCHANGED <<table, list, part, volume, page, dma, counter, lost>>
  BY <1>1 DEF SkipEntry, NextEntry, WalkTypes
<1>3. Null(Entry(walk.disk, walk.index))
  BY <1>1, SeenIsEntry DEF SkipEntry, InTable
<1>4. VolumeFound'
  <2>1. ASSUME NEW d \in Disks, NEW i \in DOMAIN part[d], part[d][i].entry.id = SystemId
        PROVE  volume # NoSector
    <3>1. ~(walk.disk = d /\ walk.index = i)
      BY <1>1, <1>3 DEF PartsOwn
    <3> QED BY <1>1, <2>1, <3>1 DEF VolumeFound
  <2> QED BY <1>1, <1>2, <2>1 DEF VolumeFound, Entry
<1> QED BY <1>2, <1>3, <1>4, NextEntryKeeps DEF SkipEntry

LEMMA CompareSystemKeeps ==
  ASSUME WalkInv, CompareSystem
  PROVE  WalkInv'
<1>1. WalkTypes /\ PartsOwn /\ WalkAgrees /\ VolumeFound /\ walk.at = "compare"
  BY DEF WalkInv, CompareSystem
<1>2. /\ walk' = [at |-> "entry", disk |-> walk.disk, index |-> walk.index + 1]
      /\ volume' = (IF Seen.id = SystemId THEN <<walk.disk, walk.index>> ELSE volume)
      /\ UNCHANGED <<table, list, part, page, dma, counter, lost>>
  BY <1>1 DEF CompareSystem, NextEntry, WalkTypes
<1>3. /\ Seen = Entry(walk.disk, walk.index) /\ walk.disk \in Disks
      /\ walk.index \in DOMAIN part[walk.disk]
      /\ part[walk.disk][walk.index].entry = Entry(walk.disk, walk.index)
  BY <1>1, SeenIsEntry DEF InTable, Met, WalkAgrees, PartsOwn
<1>4. <<walk.disk, walk.index>> # NoSector
  BY <1>3, DisksAreNumbers DEF NoSector
<1>5. VolumeFound'
  <2>1. ASSUME volume' # NoSector
        PROVE  volume'[2] \in DOMAIN part[volume'[1]] /\ Entry(volume'[1], volume'[2]).id = SystemId
    BY <1>1, <1>2, <1>3, <2>1 DEF VolumeFound
  <2>2. ASSUME NEW d \in Disks, NEW i \in DOMAIN part[d], part[d][i].entry.id = SystemId
        PROVE  volume' # NoSector
    BY <1>1, <1>2, <1>3, <1>4, <2>2 DEF VolumeFound
  <2> QED BY <1>2, <2>1, <2>2 DEF VolumeFound, Entry
<1> QED BY <1>1, <1>2, <1>5, NextEntryKeeps DEF CompareSystem

LEMMA EndWalkKeeps ==
  ASSUME WalkInv, EndWalk
  PROVE  WalkInv'
<1>1. WalkTypes /\ WalkAgrees /\ Covered /\ Counted /\ walk.at = "entry"
      /\ walk.index \notin Indices(walk.disk)
  BY DEF WalkInv, EndWalk
<1>2. /\ walk' = [at |-> "idle", disk |-> walk.disk, index |-> walk.index] /\ counter' = counter + 1
      /\ UNCHANGED <<table, list, part, volume, page, dma, lost>>
  BY <1>1 DEF EndWalk, WalkTypes
<1>3. WalkTypes'
  BY <1>1, <1>2, SameRegistry DEF WalkTypes
<1>4. /\ PartsOwn' /\ VolumeFound'
      /\ \A d, i : Passed(d, i)' = Passed(d, i) /\ Indices(d)' = Indices(d)
  BY <1>2, SameRegistry
<1>5. walk.disk \in Disks /\ Len(table[walk.disk]) \in Nat /\ walk.index \in Nat
      /\ walk.index \in 0 .. Len(table[walk.disk])
  BY <1>1 DEF WalkTypes, WalkAgrees
<1>6. WalkAgrees'
  <2>1. walk.at \notin Met /\ "idle" \notin InTable /\ "idle" \notin Met
    BY <1>1 DEF Met, InTable
  <2> QED BY <1>1, <1>2, <2>1 DEF WalkAgrees
<1>7. Covered'
  <2>1. \A i \in Indices(walk.disk) : i < walk.index
    BY <1>1, <1>5 DEF Indices
  <2>2. \A i \in Indices(walk.disk) : Passed(walk.disk, i)
    BY <1>1, <2>1 DEF Covered
  <2> QED BY <1>1, <1>2, <1>4, <2>2 DEF Covered
<1>8. Counted'
  BY <1>1, <1>2 DEF Counted, WalkTypes
<1> QED BY <1>3, <1>4, <1>6, <1>7, <1>8 DEF WalkInv

LEMMA AddPartitionKeeps ==
  ASSUME WalkInv, AddPartition
  PROVE  WalkInv'
<1>1. WalkTypes /\ PartsOwn /\ WalkAgrees /\ Covered /\ VolumeFound /\ Counted /\ walk.at = "look"
  BY DEF WalkInv, AddPartition
<1> DEFINE d == walk.disk
           n == walk.index
           entry == Entry(d, n)
           kept == [entry |-> entry, boot |-> NoSector]
           at == IF entry.type = "ntfs" THEN "boot" ELSE "compare"
<1>2. Seen = entry /\ d \in Disks /\ n \in Indices(d) /\ n \in Nat /\ d = Len(list)
  BY <1>1, SeenIsEntry DEF InTable, WalkAgrees, Indices
<1>3. ~Null(entry)
  BY <1>2 DEF AddPartition
<1>4. /\ part' = [part EXCEPT ![d] = [j \in DOMAIN part[d] \cup {n} |-> IF j = n THEN kept ELSE part[d][j]]]
      /\ walk' = [at |-> at, disk |-> d, index |-> n]
      /\ UNCHANGED <<table, list, volume, page, dma, counter, lost>>
  BY <1>1, <1>2 DEF AddPartition, WithPart, WalkTypes
<1>5. at \in Met /\ at \in InTable /\ at # "idle" /\ at # "header" /\ at # "entry"
  BY DEF Met, InTable
<1>6. /\ DOMAIN part' = Disks /\ part' = [x \in Disks |-> part'[x]]
      /\ DOMAIN part'[d] = DOMAIN part[d] \cup {n}
      /\ \A j \in DOMAIN part'[d] : part'[d][j] = IF j = n THEN kept ELSE part[d][j]
      /\ part'[d] = [j \in DOMAIN part'[d] |-> part'[d][j]]
      /\ \A x \in Disks : x # d => part'[x] = part[x]
  <2> DEFINE new == [j \in DOMAIN part[d] \cup {n} |-> IF j = n THEN kept ELSE part[d][j]]
  <2>1. part' = [part EXCEPT ![d] = new] /\ DOMAIN part = Disks
    BY <1>1, <1>4 DEF PartsOwn
  <2>2. /\ DOMAIN new = DOMAIN part[d] \cup {n} /\ new = [j \in DOMAIN new |-> new[j]]
        /\ \A j \in DOMAIN new : new[j] = IF j = n THEN kept ELSE part[d][j]
    OBVIOUS
  <2> HIDE DEF new, kept
  <2>3. part'[d] = new /\ \A x \in Disks : x # d => part'[x] = part[x]
    BY <1>2, <2>1
  <2>4. DOMAIN part' = Disks /\ part' = [x \in Disks |-> part'[x]]
    BY <2>1
  <2> QED BY <2>2, <2>3, <2>4
<1>7. /\ \A x, i : Entry(x, i)' = Entry(x, i) /\ Indices(x)' = Indices(x)
      /\ \A e : Null(e)' = Null(e)
  BY <1>4 DEF Entry, Indices, Null
<1>8. /\ walk'.at = at /\ walk'.disk = d /\ walk'.index = n
      /\ UNCHANGED <<table, list, volume, page, counter, lost>>
  BY <1>4
<1> HIDE DEF d, n, entry, kept, at
<1>9. WalkTypes'
  <2>1. walk' \in [at : {"idle", "header", "entry"} \cup InTable, disk : 0 .. Len(list), index : Nat]
    BY <1>1, <1>2, <1>4, <1>5 DEF WalkTypes, d
  <2> QED BY <1>1, <1>4, <2>1 DEF WalkTypes
<1>10. PartsOwn'
  <2>1. ASSUME NEW x \in Disks, NEW i \in DOMAIN part'[x]
        PROVE  /\ i \in Indices(x) /\ ~Null(Entry(x, i))
               /\ part'[x][i] \in [entry : {Entry(x, i)}, boot : {Zero, HalfRead, <<x, i + 2>>}]
    <3>1. CASE x = d /\ i = n
      BY <1>2, <1>3, <1>6, <3>1 DEF entry, kept, Zero
    <3>2. CASE ~(x = d /\ i = n)
      <4>1. i \in DOMAIN part[x] /\ part'[x][i] = part[x][i]
        BY <1>6, <2>1, <3>2
      <4> QED BY <1>1, <4>1 DEF PartsOwn
    <3> QED BY <3>1, <3>2
  <2>2. \A x \in Disks : part'[x] = [i \in DOMAIN part'[x] |-> part'[x][i]]
    BY <1>1, <1>6 DEF PartsOwn
  <2> QED BY <1>6, <1>7, <2>1, <2>2 DEF PartsOwn, Zero
<1>11. WalkAgrees'
  <2>1. \A i \in DOMAIN part'[d] : i < n \/ i = n
    <3>1. walk.at \notin Met
      BY <1>1 DEF Met
    <3> QED BY <1>1, <1>2, <1>6, <3>1 DEF WalkAgrees, d, n
  <2>2. ASSUME NEW x \in Disks, x > Len(list) PROVE DOMAIN part'[x] = {}
    <3>1. x # d
      BY <1>1, <1>2, <2>2 DEF WalkTypes
    <3> QED BY <1>1, <1>6, <2>2, <3>1 DEF WalkAgrees
  <2>3. InPage'
    BY <1>1, <1>8 DEF WalkAgrees, InPage, InTable, d, n
  <2> QED BY <1>2, <1>5, <1>6, <1>7, <1>8, <2>1, <2>2, <2>3 DEF WalkAgrees
<1>12. Covered'
  <2>1. \A x \in Disks : \A i : Passed(x, i) => Passed(x, i)'
    BY <1>6, <1>7 DEF Passed
  <2>2. \A x \in 1 .. Len(list) : x \in Disks
    <3>1. list \in Seq(Disks) /\ \A k \in 1 .. Len(list) : list[k] = Len(list) + 1 - k
      BY <1>1 DEF WalkTypes
    <3>2. ASSUME NEW x \in 1 .. Len(list) PROVE x \in Disks
      <4>1. Len(list) + 1 - x \in 1 .. Len(list) /\ Len(list) \in Nat
        BY <3>1
      <4>2. list[Len(list) + 1 - x] = x
        BY <3>1, <4>1
      <4> QED BY <3>1, <4>1, <4>2
    <3> QED BY <3>2
  <2>3. \A i \in Indices(d) : i < n => Passed(d, i)
    BY <1>1 DEF Covered, d, n
  <2>4. \A x \in 1 .. Len(list) : lost = 0 /\ x # d => \A i \in Indices(x) : Passed(x, i)
    BY <1>1 DEF Covered, d
  <2>5. ASSUME NEW x \in Disks, x = d, NEW i \in Indices(x), i < n PROVE Passed(x, i)'
    BY <2>1, <2>3, <2>5
  <2>6. ASSUME NEW x \in 1 .. Len(list), lost = 0, x # d, NEW i \in Indices(x) PROVE Passed(x, i)'
    BY <2>1, <2>2, <2>4, <2>6
  <2> QED BY <1>2, <1>5, <1>7, <1>8, <2>5, <2>6 DEF Covered
<1>13. VolumeFound'
  <2>1. ASSUME volume # NoSector
        PROVE  volume[2] \in DOMAIN part'[volume[1]] /\ Entry(volume[1], volume[2]).id = SystemId
    <3>1. volume[1] \in Disks /\ volume[2] \in DOMAIN part[volume[1]]
          /\ Entry(volume[1], volume[2]).id = SystemId
      BY <1>1, <2>1 DEF VolumeFound, WalkTypes
    <3> QED BY <1>6, <3>1
  <2>2. ASSUME NEW x \in Disks, NEW i \in DOMAIN part'[x], part'[x][i].entry.id = SystemId,
               ~(d = x /\ n = i)
        PROVE  volume # NoSector
    <3>1. i \in DOMAIN part[x] /\ part'[x][i] = part[x][i]
      BY <1>6, <2>2
    <3> QED BY <1>1, <2>2, <3>1 DEF VolumeFound, d, n
  <2> QED BY <1>7, <1>8, <2>1, <2>2 DEF VolumeFound
<1>14. Counted'
  BY <1>1, <1>5, <1>8 DEF Counted
<1> QED BY <1>9, <1>10, <1>11, <1>12, <1>13, <1>14 DEF WalkInv

LEMMA NtfsCreateKeeps ==
  ASSUME WalkInv, NtfsCreate
  PROVE  WalkInv'
<1>1. WalkTypes /\ PartsOwn /\ WalkAgrees /\ Covered /\ VolumeFound /\ Counted /\ walk.at = "boot"
  BY DEF WalkInv, NtfsCreate, CreateVolume
<1> DEFINE d == walk.disk
           n == walk.index
<1>2. d \in Disks /\ n \in DOMAIN part[d] /\ n \in Indices(d)
  BY <1>1 DEF WalkAgrees, InTable, Met
<1>3. PICK read \in {<<d, n + 2>>, Zero, HalfRead} :
        part' = [part EXCEPT ![d][n].boot = read]
  BY DEF NtfsCreate, CreateVolume, Boot
<1>4. /\ walk' = [at |-> "compare", disk |-> d, index |-> n]
      /\ UNCHANGED <<table, list, volume, page, counter, lost>>
  BY <1>1 DEF NtfsCreate, CreateVolume, WalkTypes
<1>5. part[d][n] \in [entry : {Entry(d, n)}, boot : {Zero, HalfRead, <<d, n + 2>>}]
  BY <1>1, <1>2 DEF PartsOwn
<1>6. [part[d][n] EXCEPT !.boot = read] = [entry |-> Entry(d, n), boot |-> read]
  BY <1>5
<1>7. part' = [part EXCEPT ![d] = [part[d] EXCEPT ![n] = [entry |-> Entry(d, n), boot |-> read]]]
  BY <1>1, <1>2, <1>3, <1>6 DEF PartsOwn
<1>8. /\ DOMAIN part' = Disks /\ part' = [x \in Disks |-> part'[x]]
      /\ \A x \in Disks : /\ DOMAIN part'[x] = DOMAIN part[x]
                          /\ part'[x] = [i \in DOMAIN part'[x] |-> part'[x][i]]
                          /\ \A i \in DOMAIN part[x] :
                               part'[x][i] = IF x = d /\ i = n THEN [entry |-> Entry(d, n), boot |-> read]
                                                             ELSE part[x][i]
  BY <1>1, <1>2, <1>7 DEF PartsOwn
<1>9. /\ walk'.at = "compare" /\ walk'.disk = d /\ walk'.index = n
  BY <1>4
<1> HIDE DEF d, n
<1>10. WalkTypes'
  BY <1>1, <1>4 DEF WalkTypes, d, n, InTable
<1>11. PartsOwn'
  <2>1. ASSUME NEW x \in Disks, NEW i \in DOMAIN part'[x]
        PROVE  /\ i \in Indices(x) /\ ~Null(Entry(x, i))
               /\ part'[x][i] \in [entry : {Entry(x, i)}, boot : {Zero, HalfRead, <<x, i + 2>>}]
    BY <1>1, <1>8 DEF PartsOwn
  <2>2. \A x, i : Entry(x, i)' = Entry(x, i) /\ Indices(x)' = Indices(x)
    BY <1>4 DEF Entry, Indices
  <2> QED BY <1>8, <2>1, <2>2 DEF PartsOwn, Zero, Null
<1>12. WalkAgrees'
  <2>1. \A x : Indices(x)' = Indices(x)
    BY <1>4 DEF Indices
  <2>2. InPage'
    BY <1>1, <1>4, <1>9 DEF WalkAgrees, InPage, InTable, d, n
  <2>3. walk.at \in Met /\ "compare" \in Met /\ "compare" \in InTable
    BY <1>1 DEF Met, InTable
  <2>4. \A i \in DOMAIN part'[d] : i < n \/ i = n
    BY <1>1, <1>2, <1>8, <2>3 DEF WalkAgrees, d, n
  <2>5. \A x \in Disks : x > Len(list) => DOMAIN part'[x] = {}
    BY <1>1, <1>8 DEF WalkAgrees
  <2>6. d = Len(list)
    BY <1>1 DEF WalkAgrees, d
  <2> QED BY <1>2, <1>4, <1>8, <1>9, <2>1, <2>2, <2>3, <2>4, <2>5, <2>6 DEF WalkAgrees
<1>13. \A x \in Disks : \A i : Passed(x, i)' = Passed(x, i) /\ Indices(x)' = Indices(x)
  BY <1>4, <1>8 DEF Passed, Entry, Null, Indices
<1>14. Covered'
  <2>1. \A x \in 1 .. Len(list) : x \in Disks
    <3>1. d = Len(list)
      BY <1>1 DEF WalkAgrees, d
    <3> QED BY <1>2, <3>1, PartitionAssumption, FS_CardinalityType
  <2> QED BY <1>1, <1>2, <1>4, <1>9, <1>13, <2>1 DEF Covered, d, n
<1>15. VolumeFound'
  <2>1. ASSUME volume # NoSector
        PROVE  volume[2] \in DOMAIN part'[volume[1]] /\ Entry(volume[1], volume[2]).id = SystemId
    BY <1>1, <1>8, <2>1 DEF VolumeFound, WalkTypes
  <2>2. ASSUME NEW x \in Disks, NEW i \in DOMAIN part[x], part'[x][i].entry.id = SystemId,
               ~(d = x /\ n = i)
        PROVE  volume # NoSector
    BY <1>1, <1>8, <2>2 DEF VolumeFound, d, n
  <2> QED BY <1>4, <1>8, <1>9, <2>1, <2>2 DEF VolumeFound, Entry
<1>16. Counted'
  BY <1>1, <1>4, <1>9 DEF Counted
<1> QED BY <1>10, <1>11, <1>12, <1>14, <1>15, <1>16 DEF WalkInv

LEMMA WalkInvStep == WalkInv /\ [WalkNext]_walkVars => WalkInv'
<1> SUFFICES ASSUME WalkInv, [WalkNext]_walkVars
             PROVE  WalkInv'
  OBVIOUS
<1>1. CASE UNCHANGED walkVars
  <2>1. UNCHANGED <<table, list, part, volume, page, walk, counter, lost>>
    BY <1>1 DEF walkVars
  <2>2. WalkTypes /\ PartsOwn /\ WalkAgrees /\ Covered /\ VolumeFound /\ Counted
    BY DEF WalkInv
  <2>3. WalkTypes' /\ Counted'
    BY <2>1, <2>2 DEF WalkTypes, Counted
  <2>4. /\ PartsOwn' /\ VolumeFound'
        /\ \A d, i : Passed(d, i)' = Passed(d, i) /\ Indices(d)' = Indices(d)
    BY <2>1, SameRegistry
  <2>5. WalkAgrees'
    BY <2>1, <2>2, <2>4 DEF WalkAgrees, InPage
  <2>6. Covered'
    BY <2>1, <2>2, <2>4 DEF Covered
  <2> QED BY <2>3, <2>4, <2>5, <2>6 DEF WalkInv
<1> QED BY <1>1, InsertKeeps, ReadHeaderKeeps, ReadEntriesKeeps, SameSectorKeeps, SkipEntryKeeps,
          AddPartitionKeeps, NtfsCreateKeeps, CompareSystemKeeps, EndWalkKeeps DEF WalkNext

(* Every partition of the tables that were read, and each with its own boot *)
(* sector, for any number of disks and any tables.                          *)
THEOREM RegistryOwn == WalkSpec => []PartitionsOwn
<1>1. WalkInv => PartitionsOwn
  <2> SUFFICES ASSUME WalkInv PROVE PartitionsOwn
    OBVIOUS
  <2>1. WalkTypes /\ PartsOwn /\ WalkAgrees /\ Covered /\ VolumeFound /\ Counted
    BY DEF WalkInv
  <2>2. ASSUME walk.at = "idle", lost = 0, NEW k \in DOMAIN list, NEW i \in Indices(list[k])
        PROVE  Null(Entry(list[k], i)) \/ i \in DOMAIN part[list[k]]
    <3>1. list[k] \in 1 .. Len(list)
      <4>1. k \in 1 .. Len(list) /\ Len(list) \in Nat
        BY <2>1 DEF WalkTypes
      <4>2. list[k] = Len(list) + 1 - k
        BY <2>1, <4>1 DEF WalkTypes
      <4> QED BY <4>1, <4>2
    <3> QED BY <2>1, <2>2, <3>1 DEF Covered, Passed
  <2>3. BootIsOwn
    BY <2>1 DEF PartsOwn, BootIsOwn
  <2>4. \A d \in Disks : \A i \in DOMAIN part[d] :
          i \in Indices(d) /\ ~Null(Entry(d, i)) /\ part[d][i].entry = Entry(d, i)
    BY <2>1 DEF PartsOwn
  <2> QED BY <2>1, <2>2, <2>3, <2>4 DEF PartitionsOwn, PartitionsMatch, VolumeFound, Counted
<1> QED BY <1>1, WalkInvInit, WalkInvStep, PTL DEF WalkSpec
=============================================================================
