------------------------------- MODULE XhciProofs -------------------------------
(***************************************************************************)
(* What the xHCI driver shares with its controller: the rings, for every   *)
(* size, and the pages of the enumeration, for any ports, slots, pages and *)
(* devices.                                                                *)
(*                                                                         *)
(* The invariant of a transfer ring says what the cycle bits mean: of the  *)
(* TRBs before the link, exactly those the driver has written on this      *)
(* round carry its present bit.  A controller with the same bit is behind  *)
(* the driver on the same round; one with the other bit is at or after the *)
(* driver's place on the round before, with a valid link to lead it on; or *)
(* it has followed the link of a new ring too early and finds nothing.     *)
(*                                                                         *)
(* On the event ring the controller writes: the TRBs before its place, and *)
(* no others, carry its present bit.  The driver is behind it on the same  *)
(* round, or on the round before and then beyond it; and the pointer the   *)
(* controller knows lies in between, so that it stops before it comes to   *)
(* what the driver has not read.                                           *)
(*                                                                         *)
(* The invariant of the enumeration adds to the ownership of the pages     *)
(* what keeps a page from being overwritten in a record: a slot the        *)
(* controller has off has none, the endpoints still to configure have no   *)
(* ring yet, and the thread has the page of the inquiry at no other place. *)
(* A page is lost only with the answer for a port, and no port is answered *)
(* for twice.                                                              *)
(*                                                                         *)
(* For the agreement on a slot the invariant follows the slot from command *)
(* to command: which contexts it has wherever the thread is, that the slot *)
(* at hand is the only one at its port, and that the device has taken what *)
(* it was asked by then.  What a slot in use has, no later step touches.   *)
(*                                                                         *)
(* Of a port: before the thread asks for a reset none goes on; what says   *)
(* that one ended was set by its end; and every change is reported, by an  *)
(* event or by the handler at work on it.                                  *)
(***************************************************************************)
EXTENDS XhciEnumeration, XhciPort, XhcRing,
        SequenceTheorems, FiniteSetTheorems, WellFoundedInduction, TLAPS


CycleBits ==
  \A i \in 0 .. Last - 1 :
    /\ ring.trb[i].cycl = ring.cycl <=> i < ring.indx
    /\ ring.trb[i].what # "link"

Unwritten ==
  \A i \in 0 .. Last :
    ring.trb[i].what = "zero" =>
      /\ i >= ring.indx
      /\ ring.trb[i].cycl = 0 /\ ring.cycl = 1 /\ place.cycl = 1

Places ==
  /\ place.cycl = ring.cycl => place.indx <= ring.indx
  /\ place.cycl # ring.cycl /\ ~Ahead =>
       /\ ring.indx <= place.indx
       /\ ring.trb[Last] = Entry("link", place.cycl)

Room ==
  /\ Outstanding <= Window
  /\ writing # "none" => Outstanding < Window /\ ring.indx < Last

RingInv == RingTypeOK /\ CycleBits /\ Unwritten /\ Places /\ Room

-----------------------------------------------------------------------------
LEMMA RingInvInit == RingInit => RingInv
  <1> SUFFICES ASSUME RingInit PROVE RingInv
    OBVIOUS
  <1> USE RingAssumption DEF RingInit, Start, Place, Created, Entry, Zero
  <1>1. RingTypeOK
    BY DEF RingTypeOK
  <1>2. CycleBits
    BY DEF CycleBits
  <1>3. Unwritten /\ Places /\ Room
    BY DEF Unwritten, Places, Room, Outstanding, Ahead
  <1> QED
    BY <1>1, <1>2, <1>3 DEF RingInv

LEMMA AppendElements ==
  ASSUME NEW S, NEW s \in Seq(S), NEW e \in S
  PROVE  Append(s, e) = [k \in 1 .. Len(s) + 1 |-> IF k = Len(s) + 1 THEN e ELSE s[k]]
  <1>1. /\ Append(s, e) \in Seq(S) /\ Len(Append(s, e)) = Len(s) + 1
        /\ Append(s, e)[Len(s) + 1] = e
        /\ \A k \in 1 .. Len(s) : Append(s, e)[k] = s[k]
    BY AppendProperties
  <1> DEFINE t == [k \in 1 .. Len(s) + 1 |-> IF k = Len(s) + 1 THEN e ELSE s[k]]
  <1>2. Len(s) \in Nat /\ \A k \in 1 .. Len(s) : s[k] \in S
    BY ElementOfSeq
  <1>3. t \in Seq(S) /\ Len(t) = Len(s) + 1
    BY <1>2
  <1>4. \A k \in 1 .. Len(Append(s, e)) : Append(s, e)[k] = t[k]
    BY <1>1, <1>2
  <1> HIDE DEF t
  <1>5. Append(s, e) = t
    BY <1>1, <1>3, <1>4, SeqEqual
  <1> QED
    BY <1>5 DEF t

(* The range of what the controller has left to fetch.                      *)
LEMMA WaitingRange ==
  ASSUME RingInv
  PROVE  Outstanding \in 0 .. Last
  <1>1. Last \in Nat /\ Window \in 1 .. Last
    BY RingAssumption
  <1>2. /\ ring.indx \in 0 .. Last /\ place.indx \in 0 .. Last
    BY DEF RingInv, RingTypeOK
  <1>3. CASE place.cycl = ring.cycl
    BY <1>1, <1>2, <1>3 DEF RingInv, Places, Outstanding
  <1>4. CASE place.cycl # ring.cycl /\ Ahead
    BY <1>1, <1>4 DEF Outstanding
  <1>5. CASE place.cycl # ring.cycl /\ ~Ahead
    BY <1>1, <1>2, <1>5 DEF RingInv, Places, Room, Outstanding
  <1> QED
    BY <1>3, <1>4, <1>5

(* Queued is a sequence of that length, of what is in those places.          *)
LEMMA QueueType ==
  ASSUME RingInv
  PROVE  /\ Queued \in Seq(Trb \cup {"zero", "link"})
         /\ Len(Queued) = Outstanding
         /\ \A k \in 1 .. Outstanding : Queued[k] = ring.trb[Position(k)].what
  <1>1. Outstanding \in 0 .. Last /\ Last \in Nat
    BY WaitingRange, RingAssumption
  <1>2. ASSUME NEW k \in 1 .. Outstanding
        PROVE  ring.trb[Position(k)].what \in Trb \cup {"zero", "link"}
    <2>1. Position(k) \in 0 .. Last
      BY <1>1, <1>2 DEF Position, RingInv, RingTypeOK
    <2> QED
      BY <2>1 DEF RingInv, RingTypeOK
  <1> QED
    BY <1>1, <1>2 DEF Queued

LEMMA QueueTransferKeeps ==
  ASSUME RingInv, NEW trb \in Trb, QueueTransfer(trb)
  PROVE  RingInv' /\ Queued' = Queued
  <1> USE RingAssumption
  <1>1. CASE ring.indx # Last
    <2>1. ring' = ring /\ place' = place /\ taken' = taken /\ writing' = trb
      BY <1>1 DEF QueueTransfer, Wrapped
    <2>2. Outstanding' = Outstanding /\ Queued' = Queued /\ Ahead' = Ahead
      BY <2>1 DEF Outstanding, Queued, Ahead, Position
    <2>3. RingTypeOK'
      BY <2>1 DEF RingInv, RingTypeOK
    <2>4. CycleBits' /\ Unwritten' /\ Places'
      BY <2>1, <2>2 DEF RingInv, CycleBits, Unwritten, Places
    <2>5. Room'
      BY <1>1, <2>1, <2>2 DEF RingInv, Room, QueueTransfer, RingTypeOK
    <2> QED
      BY <2>2, <2>3, <2>4, <2>5 DEF RingInv
  <1>2. CASE ring.indx = Last
    <2>1. /\ ring' = [trb |-> [ring.trb EXCEPT ![Last] = Entry("link", ring.cycl)],
                      indx |-> 0, cycl |-> 1 - ring.cycl]
          /\ place' = place /\ taken' = taken /\ writing' = trb
      BY <1>2 DEF QueueTransfer, Wrapped
    <2>2. /\ ring'.indx = 0 /\ ring'.cycl = 1 - ring.cycl
          /\ ring'.trb = [ring.trb EXCEPT ![Last] = Entry("link", ring.cycl)]
      BY <2>1 DEF RingInv, RingTypeOK
    <2>3. /\ ring'.trb[Last] = Entry("link", ring.cycl)
          /\ \A i \in 0 .. Last - 1 : ring'.trb[i] = ring.trb[i]
      BY <2>2 DEF RingInv, RingTypeOK
    <2>4. RingTypeOK'
      BY <2>1 DEF RingInv, RingTypeOK, Entry
    <2>5. CycleBits'
      BY <1>2, <2>2, <2>3 DEF RingInv, CycleBits, RingTypeOK
    <2>6. Unwritten'
      BY <1>2, <2>2, <2>3 DEF RingInv, Unwritten, RingTypeOK, Entry
    <2>7. CASE place.cycl = ring.cycl
      <3>1. ~Ahead' /\ Outstanding' = Outstanding /\ place.indx <= Last
        BY <1>2, <2>1, <2>2, <2>7 DEF Ahead, Outstanding, RingInv, RingTypeOK
      <3>2. Places' /\ Room'
        BY <1>2, <2>1, <2>2, <2>3, <2>7, <3>1
        DEF Places, Room, RingInv, RingTypeOK, QueueTransfer
      <3>3. ASSUME NEW k \in 1 .. Outstanding
            PROVE  Position(k)' = Position(k) /\ Position(k) \in 0 .. Last - 1
        BY <1>2, <2>1, <2>7, <3>3 DEF Position, Outstanding, RingInv, RingTypeOK
      <3>4. Queued' = Queued
        BY <2>3, <3>1, <3>3 DEF Queued
      <3> QED
        BY <2>4, <2>5, <2>6, <3>2, <3>4 DEF RingInv
    <2>8. CASE place.cycl # ring.cycl
      <3>1. Ahead
        BY <1>2, <2>8 DEF RingInv, Places, Room, Outstanding, QueueTransfer, RingTypeOK
      <3>2. Outstanding = 0 /\ Outstanding' = 0
        BY <1>2, <2>1, <2>2, <2>8, <3>1 DEF Outstanding, Ahead, RingInv, RingTypeOK
      <3>3. Places' /\ Room'
        BY <1>2, <2>1, <2>2, <2>8, <3>1, <3>2 DEF Places, Room, Ahead, RingInv, RingTypeOK
      <3>4. Queued' = Queued
        BY <3>2 DEF Queued
      <3> QED
        BY <2>4, <2>5, <2>6, <3>3, <3>4 DEF RingInv
    <2> QED
      BY <2>7, <2>8
  <1> QED
    BY <1>1, <1>2

LEMMA CopyKeeps ==
  ASSUME RingInv, Copy
  PROVE  RingInv' /\ Outstanding < Window /\ Queued' = Append(Queued, writing)
  <1> USE RingAssumption
  <1>1. /\ ring' = [trb |-> [ring.trb EXCEPT ![ring.indx] = Entry(writing, ring.cycl)],
                    indx |-> ring.indx + 1, cycl |-> ring.cycl]
        /\ place' = place /\ taken' = taken /\ writing' = "none" /\ writing \in Trb
    BY DEF Copy, Stored, RingInv, RingTypeOK
  <1>2. /\ ring'.indx = ring.indx + 1 /\ ring'.cycl = ring.cycl
        /\ ring'.trb = [ring.trb EXCEPT ![ring.indx] = Entry(writing, ring.cycl)]
    BY <1>1
  <1>3. Outstanding < Window /\ ring.indx < Last
    BY DEF Copy, RingInv, Room
  <1>4. /\ ring'.trb[ring.indx] = Entry(writing, ring.cycl)
        /\ \A i \in 0 .. Last : i # ring.indx => ring'.trb[i] = ring.trb[i]
    BY <1>2, <1>3 DEF RingInv, RingTypeOK
  <1>5. RingTypeOK'
    BY <1>1, <1>3 DEF RingInv, RingTypeOK, Entry
  <1>6. CycleBits'
    BY <1>1, <1>2, <1>3, <1>4 DEF RingInv, CycleBits, RingTypeOK, Entry
  <1>7. Unwritten'
    BY <1>1, <1>2, <1>3, <1>4 DEF RingInv, Unwritten, RingTypeOK, Entry
  <1>8. ~Ahead
    BY <1>3 DEF Ahead
  <1>9. /\ Outstanding' = Outstanding + 1 /\ ~Ahead'
        /\ place.cycl # ring.cycl => ring.indx < place.indx
    <2>1. CASE place.cycl = ring.cycl
      BY <1>1, <1>2, <2>1 DEF Outstanding, Ahead, RingInv, RingTypeOK
    <2>2. CASE place.cycl # ring.cycl
      <3>1. ring.indx < place.indx
        BY <1>3, <1>8, <2>2 DEF Outstanding, RingInv, RingTypeOK
      <3>2. ~Ahead'
        BY <1>1, <3>1 DEF Ahead, RingInv, RingTypeOK
      <3> QED
        BY <1>1, <1>2, <1>8, <2>2, <3>1, <3>2 DEF Outstanding, RingInv, RingTypeOK
    <2> QED
      BY <2>1, <2>2
  <1>10. Places'
    BY <1>1, <1>2, <1>3, <1>4, <1>8, <1>9 DEF RingInv, Places, RingTypeOK
  <1>11. Room'
    BY <1>1, <1>3, <1>9, WaitingRange DEF Room
  <1>12. ASSUME NEW k \in 1 .. Outstanding
         PROVE  /\ Position(k)' = Position(k)
                /\ ring'.trb[Position(k)] = ring.trb[Position(k)]
    <2>1. Position(k) \in 0 .. Last /\ Position(k) # ring.indx
      BY <1>3, <1>8, <1>9, <1>12, SMTT(60) DEF Position, Outstanding, RingInv, RingTypeOK, Places
    <2> QED
      BY <1>1, <1>4, <2>1 DEF Position
  <1>13. ASSUME NEW k \in Nat, k = Outstanding + 1
         PROVE  Position(k)' = ring.indx
    BY <1>1, <1>3, <1>8, <1>9, <1>13, SMTT(60)
       DEF Position, Outstanding, RingInv, RingTypeOK, Places
  <1>14. Queued' = Append(Queued, writing)
    <2>1. Outstanding \in Nat /\ Outstanding' = Outstanding + 1
      BY <1>9, WaitingRange
    <2>2. \A k \in 1 .. Outstanding : ring'.trb[Position(k)'].what = ring.trb[Position(k)].what
      BY <1>12
    <2>3. \A k \in Nat : k = Outstanding + 1 => ring'.trb[Position(k)'].what = writing
      BY <1>4, <1>13 DEF Entry
    <2>4. Queued' = [k \in 1 .. Outstanding + 1 |-> ring'.trb[Position(k)'].what]
      BY <2>1 DEF Queued
    <2>5. /\ Queued \in Seq(Trb \cup {"zero", "link"}) /\ Len(Queued) = Outstanding
          /\ \A k \in 1 .. Outstanding : Queued[k] = ring.trb[Position(k)].what
      BY QueueType
    <2>6. Append(Queued, writing) =
            [k \in 1 .. Outstanding + 1 |-> IF k = Outstanding + 1 THEN writing ELSE Queued[k]]
      BY <1>1, <2>5, AppendElements
    <2>7. ASSUME NEW k \in 1 .. Outstanding + 1
          PROVE  ring'.trb[Position(k)'].what = IF k = Outstanding + 1 THEN writing ELSE Queued[k]
      <3>1. CASE k = Outstanding + 1
        BY <2>1, <2>3, <3>1
      <3>2. CASE k # Outstanding + 1
        BY <2>1, <2>2, <2>5, <3>2
      <3> QED
        BY <3>1, <3>2
    <2> QED
      BY <2>4, <2>6, <2>7
  <1> QED
    BY <1>3, <1>5, <1>6, <1>7, <1>10, <1>11, <1>14 DEF RingInv

(* A TRB that looks new to the controller is one that was queued.           *)
LEMMA FetchKeeps ==
  ASSUME RingInv, Fetch
  PROVE  /\ RingInv' /\ Queued # <<>>
         /\ taken' = Head(Queued) /\ Queued' = Tail(Queued)
  <1> USE RingAssumption
  <1>1. /\ ring' = ring /\ writing' = writing
        /\ taken' = ring.trb[place.indx].what
        /\ place' = [indx |-> place.indx + 1, cycl |-> place.cycl]
    BY DEF Fetch, RingInv, RingTypeOK
  <1>2. place'.indx = place.indx + 1 /\ place'.cycl = place.cycl
    BY <1>1
  <1>3. place.indx < Last
    BY DEF Fetch, Ready, RingInv, RingTypeOK, Unwritten
  <1>4. ring.trb[place.indx].what \in Trb
    BY <1>3 DEF Fetch, Ready, RingInv, RingTypeOK, CycleBits, Unwritten
  <1>5. ~Ahead
    BY <1>3 DEF Ahead, Fetch, Ready, RingInv, CycleBits, RingTypeOK
  <1>6. ~Ahead' /\ Outstanding' = Outstanding - 1 /\ Outstanding > 0
    <2>1. CASE place.cycl = ring.cycl
      <3>1. place.indx < ring.indx
        BY <1>3, <2>1 DEF Fetch, Ready, RingInv, CycleBits, RingTypeOK
      <3> QED
        BY <1>1, <1>2, <2>1, <3>1 DEF Ahead, Outstanding, RingInv, RingTypeOK
    <2>2. CASE place.cycl # ring.cycl
      BY <1>1, <1>2, <1>3, <1>5, <2>2 DEF Ahead, Outstanding, RingInv, RingTypeOK
    <2> QED
      BY <2>1, <2>2
  <1>7. RingTypeOK'
    BY <1>1, <1>3, <1>4 DEF RingInv, RingTypeOK
  <1>8. CycleBits' /\ Unwritten'
    BY <1>1, <1>2 DEF RingInv, CycleBits, Unwritten
  <1>9. Places'
    <2>1. CASE place.cycl = ring.cycl
      BY <1>1, <1>2, <1>3, <2>1 DEF Fetch, Ready, RingInv, CycleBits, Places, RingTypeOK
    <2>2. CASE place.cycl # ring.cycl
      BY <1>1, <1>2, <1>5, <2>2 DEF RingInv, Places, RingTypeOK
    <2> QED
      BY <2>1, <2>2
  <1>10. Room'
    BY <1>1, <1>6, WaitingRange DEF RingInv, Room
  <1>11. ASSUME NEW k \in 1 .. Outstanding - 1
         PROVE  Position(k)' = Position(k + 1)
    BY <1>1, <1>2, WaitingRange DEF Position, RingInv, RingTypeOK
  <1>12. Position(1) = place.indx
    BY <1>3 DEF Position, RingInv, RingTypeOK
  <1>13. /\ Queued \in Seq(Trb \cup {"zero", "link"}) /\ Len(Queued) = Outstanding
         /\ \A k \in 1 .. Outstanding : Queued[k] = ring.trb[Position(k)].what
         /\ Outstanding \in 0 .. Last
    BY QueueType, WaitingRange
  <1>14. RingInv'
    BY <1>7, <1>8, <1>9, <1>10 DEF RingInv
  <1>15. /\ Queued' \in Seq(Trb \cup {"zero", "link"}) /\ Len(Queued') = Outstanding - 1
         /\ \A k \in 1 .. Outstanding - 1 : Queued'[k] = Queued[k + 1]
    <2>1. Queued' = [k \in 1 .. Outstanding - 1 |-> ring.trb[Position(k)'].what]
      BY <1>1, <1>6 DEF Queued
    <2>2. \A k \in 1 .. Outstanding - 1 : Queued'[k] = Queued[k + 1]
      BY <1>11, <1>13, <2>1
    <2>3. \A k \in 1 .. Outstanding - 1 : Queued'[k] \in Trb \cup {"zero", "link"}
      BY <1>13, <2>2
    <2> QED
      BY <1>6, <1>13, <2>1, <2>2, <2>3
  <1>16. Queued # <<>>
    BY <1>6, <1>13
  <1>17. taken' = Head(Queued)
    BY <1>1, <1>6, <1>12, <1>13
  <1>18. Queued' = Tail(Queued)
    <2>1. /\ Tail(Queued) \in Seq(Trb \cup {"zero", "link"})
          /\ Len(Tail(Queued)) = Outstanding - 1
          /\ \A k \in 1 .. Outstanding - 1 : Tail(Queued)[k] = Queued[k + 1]
      BY <1>13, <1>16, HeadTailProperties
    <2> QED
      BY <1>15, <2>1, SeqEqual
  <1> QED
    BY <1>14, <1>16, <1>17, <1>18

(* The link leads the controller to where the same TRBs wait.               *)
LEMMA FollowLinkKeeps ==
  ASSUME RingInv, FollowLink
  PROVE  RingInv' /\ Queued' = Queued
  <1> USE RingAssumption
  <1>1. /\ ring' = ring /\ writing' = writing /\ taken' = taken
        /\ place'.indx = 0 /\ place'.cycl = 1 - place.cycl
        /\ place' = [indx |-> 0, cycl |-> 1 - place.cycl]
    BY DEF FollowLink, Place
  <1>2. place.indx = Last
    BY DEF FollowLink, AtLink, Entry, RingInv, CycleBits, RingTypeOK
  <1>3. ~Ahead
    BY <1>2 DEF Ahead
  <1>4. ring.trb[Last].what = "link" /\ ring.trb[Last].cycl = place.cycl
    BY <1>2 DEF FollowLink, AtLink, Entry
  <1>5. RingTypeOK'
    BY <1>1 DEF RingInv, RingTypeOK
  <1>6. CycleBits'
    BY <1>1 DEF RingInv, CycleBits
  <1>7. CASE place.cycl = ring.cycl
    <2>1. ring.indx = Last
      BY <1>2, <1>7 DEF RingInv, Places, RingTypeOK
    <2>2. Ahead' /\ place'.cycl # ring.cycl
      BY <1>1, <1>7, <2>1 DEF Ahead, RingInv, RingTypeOK
    <2>3. Outstanding = 0 /\ Outstanding' = 0
      BY <1>1, <1>2, <1>7, <2>1, <2>2 DEF Outstanding, RingInv, RingTypeOK
    <2>4. Unwritten'
      BY <1>1, <1>4, <2>1 DEF RingInv, Unwritten, RingTypeOK
    <2>5. Places' /\ Room'
      BY <1>1, <2>2, <2>3 DEF RingInv, Places, Room
    <2>6. Queued' = Queued
      BY <2>3 DEF Queued
    <2> QED
      BY <1>5, <1>6, <2>4, <2>5, <2>6 DEF RingInv
  <1>8. CASE place.cycl # ring.cycl
    <2>1. place'.cycl = ring.cycl
      BY <1>1, <1>8 DEF RingInv, RingTypeOK
    <2>2. Outstanding = ring.indx /\ Outstanding' = ring.indx
      BY <1>1, <1>2, <1>3, <1>8, <2>1 DEF Outstanding, RingInv, RingTypeOK
    <2>3. Unwritten'
      BY <1>1, <1>8 DEF RingInv, Unwritten, RingTypeOK
    <2>4. Places' /\ Room'
      BY <1>1, <2>1, <2>2 DEF RingInv, Places, Room, RingTypeOK
    <2>5. ASSUME NEW k \in 1 .. Outstanding
          PROVE  Position(k)' = Position(k)
      BY <1>1, <1>2, <2>2 DEF Position, RingInv, RingTypeOK
    <2>6. Queued' = Queued
      BY <1>1, <2>2, <2>5 DEF Queued
    <2> QED
      BY <1>5, <1>6, <2>3, <2>4, <2>6 DEF RingInv
  <1> QED
    BY <1>7, <1>8

LEMMA RingStutters ==
  ASSUME RingInv, UNCHANGED ringVars
  PROVE  RingInv' /\ Queued' = Queued /\ taken' = taken
  BY DEF ringVars, RingInv, RingTypeOK, CycleBits, Unwritten, Places, Room, Ahead,
         Outstanding, Queued, Position

-----------------------------------------------------------------------------
LEMMA RingNextKeeps == RingInv /\ [RingNext]_ringVars => RingInv'
  BY QueueTransferKeeps, CopyKeeps, FetchKeeps, FollowLinkKeeps, RingStutters DEF RingNext

(* What is checked of a ring of four TRBs holds of the code's 256.          *)
THEOREM RingTypeCorrect == RingSpec => []RingTypeOK
  <1>1. RingInv => RingTypeOK
    BY DEF RingInv
  <1> QED
    BY RingInvInit, RingNextKeeps, <1>1, PTL DEF RingSpec

(* A ring of any size is a queue: xhc_queue_transfer and the controller     *)
(* agree on what is new by the cycle bits alone.                            *)
THEOREM RingImplementsFifo == RingSpec => TransferRingIsFifo
  <1>1. RingInit => AbstractRing!Init
    <2> SUFFICES ASSUME RingInit PROVE AbstractRing!Init
      OBVIOUS
    <2>1. Outstanding = 0
      BY DEF RingInit, Start, Place, Created, Outstanding
    <2> QED
      BY <2>1 DEF RingInit, AbstractRing!Init, Queued
  <1>2. RingInv /\ [RingNext]_ringVars => [AbstractRing!Next]_(AbstractRing!vars)
    <2> SUFFICES ASSUME RingInv, [RingNext]_ringVars PROVE [AbstractRing!Next]_(AbstractRing!vars)
      OBVIOUS
    <2> USE DEF AbstractRing!Next, AbstractRing!vars
    <2>1. ASSUME NEW trb \in Trb, QueueTransfer(trb)
          PROVE  UNCHANGED AbstractRing!vars
      BY <2>1, QueueTransferKeeps DEF QueueTransfer
    <2>2. CASE Copy
      <3>1. writing \in Trb /\ taken' = taken
        BY <2>2 DEF Copy, RingInv, RingTypeOK
      <3>2. Len(Queued) < Window
        BY <2>2, CopyKeeps, QueueType
      <3> QED
        BY <2>2, <3>1, <3>2, CopyKeeps DEF AbstractRing!Put
    <2>3. CASE Fetch
      BY <2>3, FetchKeeps DEF AbstractRing!Get
    <2>4. CASE FollowLink
      BY <2>4, FollowLinkKeeps DEF FollowLink
    <2>5. CASE UNCHANGED ringVars
      BY <2>5, RingStutters
    <2> QED
      BY <2>1, <2>2, <2>3, <2>4, <2>5 DEF RingNext
  <1> QED
    BY RingInvInit, RingNextKeeps, <1>1, <1>2, PTL DEF RingSpec, TransferRingIsFifo, AbstractRing!Spec

-----------------------------------------------------------------------------
EventCycleBits == \A i \in 0 .. EventSize - 1 : eventRing.trb[i].cycl = post.cycl <=> i < post.indx

EventUnwritten ==
  \A i \in 0 .. EventSize - 1 :
    eventRing.trb[i].what = "zero" =>
      i >= post.indx /\ eventRing.trb[i].cycl = 0 /\ post.cycl = 1 /\ eventRing.cycl = 1

EventPlaces ==
  \/ /\ post.cycl = eventRing.cycl
     /\ eventRing.indx <= post.indx
     /\ erdp <= eventRing.indx \/ post.indx < erdp
  \/ post.cycl # eventRing.cycl /\ post.indx < erdp /\ erdp <= eventRing.indx

EventInv == EventTypeOK /\ EventCycleBits /\ EventUnwritten /\ EventPlaces

EventAt(k) == (eventRing.indx + k - 1) % EventSize

-----------------------------------------------------------------------------
LEMMA Around ==
  ASSUME NEW n \in Nat \ {0}, NEW i \in 0 .. 2 * n - 1
  PROVE  i % n = IF i < n THEN i ELSE i - n
<1>1. CASE i < n
  BY <1>1
<1>2. CASE i >= n
  <2>1. i = 1 * n + (i - n) /\ i - n \in 0 .. n - 1
    BY <1>2
  <2> QED BY <2>1
<1> QED BY <1>1, <1>2

LEMMA EventInvInit == EventInit => EventInv
<1> SUFFICES ASSUME EventInit PROVE EventInv
  OBVIOUS
<1> USE EventAssumption DEF EventInit, Start, Place, CreatedEvents, Entry
<1>1. EventTypeOK
  BY DEF EventTypeOK
<1>2. EventCycleBits /\ EventUnwritten /\ EventPlaces
  BY DEF EventCycleBits, EventUnwritten, EventPlaces
<1> QED BY <1>1, <1>2 DEF EventInv

(* One TRB less than all can wait, and the places of those that do.         *)
LEMMA UnreadRange ==
  ASSUME EventInv
  PROVE  /\ Unread \in 0 .. EventSize - 1 /\ EventSize \in Nat \ {0, 1}
         /\ \A k \in 1 .. Unread + 1 :
              EventAt(k) = IF eventRing.indx + k - 1 < EventSize THEN eventRing.indx + k - 1
                      ELSE (eventRing.indx + k - 1) - EventSize
<1>1. /\ EventSize \in Nat \ {0, 1} /\ eventRing.indx \in 0 .. EventSize - 1
      /\ post.indx \in 0 .. EventSize - 1 /\ erdp \in 0 .. EventSize - 1
  BY EventAssumption DEF EventInv, EventTypeOK
<1>2. Unread \in 0 .. EventSize - 1
  BY <1>1 DEF EventInv, EventPlaces, Unread
<1>3. ASSUME NEW k \in 1 .. Unread + 1
      PROVE  EventAt(k) = IF eventRing.indx + k - 1 < EventSize THEN eventRing.indx + k - 1
                     ELSE (eventRing.indx + k - 1) - EventSize
  <2> DEFINE i == eventRing.indx + k - 1
  <2>1. i \in 0 .. 2 * EventSize - 1 /\ EventSize \in Nat \ {0}
    BY <1>1, <1>2
  <2> HIDE DEF i
  <2>2. i % EventSize = IF i < EventSize THEN i ELSE i - EventSize
    BY <2>1, Around
  <2>3. EventAt(k) = i % EventSize
    BY DEF EventAt, i
  <2>4. EventAt(k) = IF i < EventSize THEN i ELSE i - EventSize
    BY <2>2, <2>3
  <2> QED BY <2>4 DEF i
<1> QED BY <1>1, <1>2, <1>3

LEMMA UnreadType ==
  ASSUME EventInv
  PROVE  /\ UnreadEvents \in Seq(Event \cup {"zero"})
         /\ Len(UnreadEvents) = Unread
         /\ \A k \in 1 .. Unread : UnreadEvents[k] = eventRing.trb[EventAt(k)].what
<1>1. Unread \in 0 .. EventSize - 1 /\ EventSize \in Nat \ {0, 1}
  BY UnreadRange
<1>2. ASSUME NEW k \in 1 .. Unread
      PROVE  eventRing.trb[EventAt(k)].what \in Event \cup {"zero"}
  <2>1. EventAt(k) \in 0 .. EventSize - 1
    BY <1>1, <1>2, UnreadRange DEF EventInv, EventTypeOK
  <2> QED BY <2>1 DEF EventInv, EventTypeOK
<1>3. UnreadEvents = [k \in 1 .. Unread |-> eventRing.trb[EventAt(k)].what]
  BY DEF UnreadEvents, EventAt
<1> HIDE DEF UnreadEvents
<1> QED BY <1>1, <1>2, <1>3

LEMMA AppendedEvent ==
  ASSUME NEW S, NEW s \in Seq(S), NEW e \in S,
         NEW t \in Seq(S), Len(t) = Len(s) + 1, t[Len(s) + 1] = e,
         \A k \in 1 .. Len(s) : t[k] = s[k]
  PROVE  t = Append(s, e)
<1>1. /\ Append(s, e) \in Seq(S) /\ Len(Append(s, e)) = Len(s) + 1
      /\ Append(s, e)[Len(s) + 1] = e
      /\ \A k \in 1 .. Len(s) : Append(s, e)[k] = s[k]
  BY AppendProperties
<1>2. Len(s) \in Nat
  OBVIOUS
<1>3. \A k \in 1 .. Len(t) : t[k] = Append(s, e)[k]
  BY <1>1, <1>2
<1> QED BY <1>1, <1>3, SeqEqual

LEMMA PostKeeps ==
  ASSUME EventInv, NEW what \in Event, Post(what)
  PROVE  EventInv' /\ Unread < EventSize - 1 /\ UnreadEvents' = Append(UnreadEvents, what) /\ popped' = popped
<1>1. /\ EventSize \in Nat \ {0, 1} /\ eventRing.indx \in 0 .. EventSize - 1
      /\ post.indx \in 0 .. EventSize - 1 /\ erdp \in 0 .. EventSize - 1
      /\ post.cycl \in {0, 1} /\ eventRing.cycl \in {0, 1}
      /\ what # "zero"
  BY EventAssumption DEF EventInv, EventTypeOK
<1>2. /\ eventRing'.trb = [eventRing.trb EXCEPT ![post.indx] = Entry(what, post.cycl)]
      /\ eventRing'.indx = eventRing.indx /\ eventRing'.cycl = eventRing.cycl
      /\ eventRing' = [eventRing EXCEPT !.trb[post.indx] = Entry(what, post.cycl)]
      /\ erdp' = erdp /\ popped' = popped
  BY DEF Post, Posted, EventInv, EventTypeOK
<1>3. /\ post'.indx = IF post.indx = EventSize - 1 THEN 0 ELSE post.indx + 1
      /\ post'.cycl = IF post.indx = EventSize - 1 THEN 1 - post.cycl ELSE post.cycl
      /\ post'.indx # erdp
      /\ post' \in [indx : 0 .. EventSize - 1, cycl : {0, 1}]
  BY <1>1 DEF Post, Following, Place, EventInv, EventTypeOK
<1>4. /\ eventRing'.trb[post.indx].what = what /\ eventRing'.trb[post.indx].cycl = post.cycl
      /\ \A i \in 0 .. EventSize - 1 : i # post.indx => eventRing'.trb[i] = eventRing.trb[i]
  BY <1>1, <1>2 DEF EventInv, EventTypeOK, Entry
<1>5. EventTypeOK'
  BY <1>1, <1>2, <1>3 DEF EventInv, EventTypeOK, Entry
<1>6. EventCycleBits'
  <2>1. ASSUME NEW i \in 0 .. EventSize - 1
        PROVE  eventRing'.trb[i].cycl = post'.cycl <=> i < post'.indx
    <3>1. eventRing.trb[i].cycl \in {0, 1} /\ (eventRing.trb[i].cycl = post.cycl <=> i < post.indx)
      BY DEF EventInv, EventTypeOK, EventCycleBits
    <3> QED BY <1>1, <1>3, <1>4, <3>1
  <2> QED BY <2>1 DEF EventCycleBits
<1>7. EventPlaces' /\ Unread < EventSize - 1 /\ Unread' = Unread + 1
  BY <1>1, <1>2, <1>3 DEF EventInv, EventPlaces, Unread
<1>8. EventUnwritten'
  <2>1. ASSUME NEW i \in 0 .. EventSize - 1, eventRing'.trb[i].what = "zero"
        PROVE  i >= post'.indx /\ eventRing'.trb[i].cycl = 0 /\ post'.cycl = 1 /\ eventRing'.cycl = 1
    <3>1. i # post.indx /\ eventRing'.trb[i] = eventRing.trb[i]
      BY <1>1, <1>4, <2>1
    <3>2. i >= post.indx /\ eventRing.trb[i].cycl = 0 /\ post.cycl = 1 /\ eventRing.cycl = 1
      BY <2>1, <3>1 DEF EventInv, EventUnwritten
    <3> QED BY <1>1, <1>2, <1>3, <3>1, <3>2
  <2> QED BY <2>1 DEF EventUnwritten
<1>9. EventInv'
  BY <1>5, <1>6, <1>7, <1>8 DEF EventInv
<1>10. /\ Unread \in 0 .. EventSize - 1
       /\ UnreadEvents \in Seq(Event \cup {"zero"}) /\ Len(UnreadEvents) = Unread
       /\ \A k \in 1 .. Unread : UnreadEvents[k] = eventRing.trb[EventAt(k)].what
  BY UnreadRange, UnreadType
<1>11. ASSUME NEW k \in 1 .. Unread + 1
       PROVE  EventAt(k) \in 0 .. EventSize - 1 /\ (EventAt(k) = post.indx <=> k = Unread + 1)
  <2>1. EventAt(k) = IF eventRing.indx + k - 1 < EventSize THEN eventRing.indx + k - 1
                ELSE (eventRing.indx + k - 1) - EventSize
    BY UnreadRange
  <2>2. CASE post.cycl = eventRing.cycl
    <3>1. eventRing.indx <= post.indx /\ Unread = post.indx - eventRing.indx
      BY <2>2 DEF EventInv, EventPlaces, Unread
    <3> QED BY <1>1, <2>1, <3>1
  <2>3. CASE post.cycl # eventRing.cycl
    <3>1. post.indx < eventRing.indx /\ Unread = EventSize - eventRing.indx + post.indx
      BY <1>1, <2>3 DEF EventInv, EventPlaces, Unread
    <3> QED BY <1>1, <2>1, <3>1
  <2> QED BY <2>2, <2>3
<1>12. /\ UnreadEvents' \in Seq(Event \cup {"zero"}) /\ Len(UnreadEvents') = Unread + 1
       /\ \A k \in 1 .. Unread + 1 : UnreadEvents'[k] = eventRing'.trb[EventAt(k)].what
  <2>1. UnreadEvents' = [k \in 1 .. Unread + 1 |-> eventRing'.trb[EventAt(k)].what]
    BY <1>2, <1>7 DEF UnreadEvents, EventAt
  <2>2. \A k \in 1 .. Unread + 1 : eventRing'.trb[EventAt(k)].what \in Event \cup {"zero"}
    BY <1>5, <1>11 DEF EventTypeOK
  <2> QED BY <1>10, <2>1, <2>2
<1>13. UnreadEvents' = Append(UnreadEvents, what)
  <2>1. UnreadEvents'[Len(UnreadEvents) + 1] = what
    BY <1>4, <1>10, <1>11, <1>12
  <2>2. \A k \in 1 .. Len(UnreadEvents) : UnreadEvents'[k] = UnreadEvents[k]
    BY <1>4, <1>10, <1>11, <1>12
  <2> QED BY <1>10, <1>12, <2>1, <2>2, AppendedEvent
<1> QED BY <1>2, <1>7, <1>9, <1>13

LEMMA PopKeeps ==
  ASSUME EventInv, Pop
  PROVE  /\ EventInv' /\ UnreadEvents # <<>>
         /\ popped' = Head(UnreadEvents) /\ UnreadEvents' = Tail(UnreadEvents)
<1>1. /\ EventSize \in Nat \ {0, 1} /\ eventRing.indx \in 0 .. EventSize - 1
      /\ post.indx \in 0 .. EventSize - 1 /\ erdp \in 0 .. EventSize - 1
      /\ post.cycl \in {0, 1} /\ eventRing.cycl \in {0, 1}
  BY EventAssumption DEF EventInv, EventTypeOK
<1>2. (eventRing.indx + 1) % EventSize = IF eventRing.indx = EventSize - 1 THEN 0 ELSE eventRing.indx + 1
  BY <1>1, Around
<1>3. /\ eventRing'.trb = eventRing.trb
      /\ eventRing'.indx = IF eventRing.indx = EventSize - 1 THEN 0 ELSE eventRing.indx + 1
      /\ eventRing'.cycl = IF eventRing.indx = EventSize - 1 THEN 1 - eventRing.cycl ELSE eventRing.cycl
      /\ eventRing' \in [trb : [0 .. EventSize - 1 -> [what : Event \cup {"zero"}, cycl : {0, 1}]],
                    indx : 0 .. EventSize - 1, cycl : {0, 1}]
      /\ post' = post /\ erdp' = erdp /\ popped' = eventRing.trb[eventRing.indx].what
  <2>1. eventRing' = Popped(eventRing) /\ post' = post /\ erdp' = erdp
        /\ popped' = eventRing.trb[eventRing.indx].what
    BY DEF Pop
  <2>2. eventRing' = [trb  |-> eventRing.trb,
                 indx |-> IF eventRing.indx = EventSize - 1 THEN 0 ELSE eventRing.indx + 1,
                 cycl |-> IF eventRing.indx = EventSize - 1 THEN 1 - eventRing.cycl ELSE eventRing.cycl]
    <3> DEFINE indx == (eventRing.indx + 1) % EventSize
    <3>1. eventRing' = [eventRing EXCEPT !.indx = indx, !.cycl = IF indx = 0 THEN 1 - @ ELSE @]
      BY <2>1 DEF Popped
    <3>2. indx = (IF eventRing.indx = EventSize - 1 THEN 0 ELSE eventRing.indx + 1)
          /\ (indx = 0 <=> eventRing.indx = EventSize - 1)
      BY <1>1, <1>2
    <3> HIDE DEF indx
    <3> QED BY <3>1, <3>2 DEF EventInv, EventTypeOK
  <2>3. eventRing.trb \in [0 .. EventSize - 1 -> [what : Event \cup {"zero"}, cycl : {0, 1}]]
    BY DEF EventInv, EventTypeOK
  <2> QED BY <1>1, <2>1, <2>2, <2>3
<1>4. /\ eventRing.trb[eventRing.indx].cycl = eventRing.cycl
      /\ eventRing.trb[eventRing.indx].cycl = post.cycl <=> eventRing.indx < post.indx
  BY <1>1 DEF Pop, HasEvent, EventInv, EventCycleBits
<1>5. eventRing.trb[eventRing.indx].what \in Event
  BY <1>1, <1>4 DEF EventInv, EventTypeOK, EventUnwritten, EventPlaces
<1>6. Unread > 0 /\ Unread' = Unread - 1 /\ EventPlaces'
  <2>1. post' = post /\ erdp' = erdp
    BY <1>3
  <2>2. CASE post.cycl = eventRing.cycl
    <3>1. /\ eventRing.indx < post.indx /\ Unread = post.indx - eventRing.indx
          /\ erdp <= eventRing.indx \/ post.indx < erdp
      BY <1>1, <1>4, <2>2 DEF EventInv, EventPlaces, Unread
    <3>2. eventRing'.indx = eventRing.indx + 1 /\ eventRing'.cycl = eventRing.cycl
      BY <1>1, <1>3, <3>1
    <3>3. Unread' = post.indx - (eventRing.indx + 1) /\ EventPlaces'
      BY <1>1, <2>1, <2>2, <3>1, <3>2 DEF EventPlaces, Unread
    <3> QED BY <1>1, <3>1, <3>3
  <2>3. CASE post.cycl # eventRing.cycl
    <3>1. /\ post.indx < erdp /\ erdp <= eventRing.indx
          /\ Unread = EventSize - eventRing.indx + post.indx
      BY <1>1, <2>3 DEF EventInv, EventPlaces, Unread
    <3>2. CASE eventRing.indx = EventSize - 1
      <4>1. eventRing'.indx = 0 /\ eventRing'.cycl = post.cycl
        BY <1>1, <1>3, <2>3, <3>2
      <4>2. Unread' = post.indx /\ EventPlaces'
        BY <1>1, <2>1, <3>1, <4>1 DEF EventPlaces, Unread
      <4> QED BY <1>1, <3>1, <3>2, <4>2
    <3>3. CASE eventRing.indx # EventSize - 1
      <4>1. eventRing'.indx = eventRing.indx + 1 /\ eventRing'.cycl = eventRing.cycl
        BY <1>3, <3>3
      <4>2. Unread' = EventSize - (eventRing.indx + 1) + post.indx /\ EventPlaces'
        BY <1>1, <2>1, <2>3, <3>1, <4>1 DEF EventPlaces, Unread
      <4> QED BY <1>1, <3>1, <4>2
    <3> QED BY <3>2, <3>3
  <2> QED BY <2>2, <2>3
<1>7. EventTypeOK'
  BY <1>3, <1>5 DEF EventInv, EventTypeOK
<1>8. EventCycleBits'
  BY <1>3 DEF EventInv, EventCycleBits
<1>9. EventUnwritten'
  <2>1. ASSUME NEW i \in 0 .. EventSize - 1, eventRing.trb[i].what = "zero"
        PROVE  eventRing'.cycl = 1
    <3>1. i >= post.indx /\ post.cycl = 1 /\ eventRing.cycl = 1
      BY <2>1 DEF EventInv, EventUnwritten
    <3>2. eventRing.indx < post.indx
      BY <1>4, <3>1
    <3> QED BY <1>1, <1>3, <3>1, <3>2
  <2> QED BY <1>3, <2>1 DEF EventInv, EventUnwritten
<1>10. EventInv'
  BY <1>6, <1>7, <1>8, <1>9 DEF EventInv
<1>11. /\ Unread \in 1 .. EventSize - 1
       /\ UnreadEvents \in Seq(Event \cup {"zero"}) /\ Len(UnreadEvents) = Unread
       /\ \A k \in 1 .. Unread : UnreadEvents[k] = eventRing.trb[EventAt(k)].what
  BY <1>6, UnreadRange, UnreadType
<1>12. EventAt(1) = eventRing.indx
  <2>1. 1 \in 1 .. Unread + 1
    BY <1>11
  <2> QED BY <1>1, <2>1, UnreadRange
<1>13. ASSUME NEW k \in 1 .. Unread - 1
       PROVE  EventAt(k)' = EventAt(k + 1)
  <2>1. EventAt(k)' = IF eventRing'.indx + k - 1 < EventSize THEN eventRing'.indx + k - 1
                 ELSE (eventRing'.indx + k - 1) - EventSize
    <3> DEFINE i == eventRing'.indx + k - 1
    <3>1. i \in 0 .. 2 * EventSize - 1 /\ EventSize \in Nat \ {0}
      BY <1>1, <1>3, <1>11
    <3> HIDE DEF i
    <3>2. i % EventSize = IF i < EventSize THEN i ELSE i - EventSize
      BY <3>1, Around
    <3>3. EventAt(k)' = i % EventSize
      BY DEF EventAt, i
    <3>4. EventAt(k)' = IF i < EventSize THEN i ELSE i - EventSize
      BY <3>2, <3>3
    <3> QED BY <3>4 DEF i
  <2>2. EventAt(k + 1) = IF eventRing.indx + k < EventSize THEN eventRing.indx + k
                    ELSE eventRing.indx + k - EventSize
    <3> DEFINE j == k + 1
    <3>1. j \in 1 .. Unread + 1 /\ eventRing.indx + j - 1 = eventRing.indx + k
      BY <1>1, <1>11, SMTT(20)
    <3> HIDE DEF j
    <3>2. EventAt(j) = IF eventRing.indx + j - 1 < EventSize THEN eventRing.indx + j - 1
                  ELSE (eventRing.indx + j - 1) - EventSize
      BY <3>1, UnreadRange
    <3>3. EventAt(j) = IF eventRing.indx + k < EventSize THEN eventRing.indx + k
                  ELSE eventRing.indx + k - EventSize
      BY <1>1, <3>1, <3>2
    <3> QED BY <3>3 DEF j
  <2> QED BY <1>1, <1>3, <1>11, <2>1, <2>2
<1>14. popped' = Head(UnreadEvents) /\ UnreadEvents # <<>>
  BY <1>3, <1>11, <1>12
<1>15. /\ UnreadEvents' \in Seq(Event \cup {"zero"}) /\ Len(UnreadEvents') = Unread - 1
       /\ \A k \in 1 .. Unread - 1 : UnreadEvents'[k] = UnreadEvents[k + 1]
  <2>1. UnreadEvents' = [k \in 1 .. Unread - 1 |-> eventRing.trb[EventAt(k)'].what]
    BY <1>3, <1>6 DEF UnreadEvents, EventAt
  <2>2. \A k \in 1 .. Unread - 1 : UnreadEvents'[k] = UnreadEvents[k + 1]
    BY <1>11, <1>13, <2>1
  <2>3. \A k \in 1 .. Unread - 1 : UnreadEvents'[k] \in Event \cup {"zero"}
    BY <1>11, <2>2
  <2> QED BY <1>11, <2>1, <2>2, <2>3
<1>16. UnreadEvents' = Tail(UnreadEvents)
  <2>1. /\ Tail(UnreadEvents) \in Seq(Event \cup {"zero"}) /\ Len(Tail(UnreadEvents)) = Unread - 1
        /\ \A k \in 1 .. Unread - 1 : Tail(UnreadEvents)[k] = UnreadEvents[k + 1]
    BY <1>11, <1>14, HeadTailProperties
  <2> QED BY <1>15, <2>1, SeqEqual
<1> QED BY <1>10, <1>14, <1>16

LEMMA WritePointerKeeps ==
  ASSUME EventInv, WritePointer
  PROVE  EventInv' /\ UnreadEvents' = UnreadEvents /\ popped' = popped
<1>1. eventRing' = eventRing /\ post' = post /\ popped' = popped /\ erdp' = eventRing.indx
  BY DEF WritePointer
<1>2. EventTypeOK' /\ EventCycleBits' /\ EventUnwritten'
  BY <1>1 DEF EventInv, EventTypeOK, EventCycleBits, EventUnwritten
<1>3. EventPlaces'
  BY <1>1 DEF EventInv, EventTypeOK, EventPlaces
<1>4. UnreadEvents' = UnreadEvents
  BY <1>1 DEF UnreadEvents, Unread
<1> QED BY <1>1, <1>2, <1>3, <1>4 DEF EventInv

LEMMA EventStutters ==
  ASSUME EventInv, UNCHANGED eventVars
  PROVE  EventInv' /\ UnreadEvents' = UnreadEvents /\ popped' = popped
BY DEF eventVars, EventInv, EventTypeOK, EventCycleBits, EventUnwritten, EventPlaces, Unread, UnreadEvents

-----------------------------------------------------------------------------
LEMMA EventNextKeeps == EventInv /\ [EventNext]_eventVars => EventInv'
BY PostKeeps, PopKeeps, WritePointerKeeps, EventStutters DEF EventNext

(* An event ring of any size is a queue of one TRB less: the driver pops    *)
(* what was posted, once and in order, however late it writes the pointer.  *)
THEOREM EventsImplementFifo == EventSpec => EventRingIsFifo
<1>1. EventInit => AbstractEvents!Init
  <2> SUFFICES ASSUME EventInit PROVE AbstractEvents!Init
    OBVIOUS
  <2>1. Unread = 0
    BY DEF EventInit, Start, Place, CreatedEvents, Unread
  <2> QED BY <2>1 DEF EventInit, AbstractEvents!Init, UnreadEvents
<1>2. EventInv /\ [EventNext]_eventVars => [AbstractEvents!Next]_(AbstractEvents!vars)
  <2> SUFFICES ASSUME EventInv, [EventNext]_eventVars PROVE [AbstractEvents!Next]_(AbstractEvents!vars)
    OBVIOUS
  <2> USE DEF AbstractEvents!Next, AbstractEvents!vars
  <2>1. ASSUME NEW what \in Event, Post(what)
        PROVE  AbstractEvents!Put(what)
    BY <2>1, PostKeeps, UnreadType DEF AbstractEvents!Put
  <2>2. CASE Pop
    BY <2>2, PopKeeps DEF AbstractEvents!Get
  <2>3. CASE WritePointer
    BY <2>3, WritePointerKeeps
  <2>4. CASE UNCHANGED eventVars
    BY <2>4, EventStutters
  <2> QED BY <2>1, <2>2, <2>3, <2>4 DEF EventNext
<1> QED BY EventInvInit, EventNextKeeps, <1>1, <1>2, PTL DEF EventSpec, EventRingIsFifo, AbstractEvents!Spec

-----------------------------------------------------------------------------
(* The enumeration.                                                         *)
Rings == UNION {[ids -> Nat] : ids \in SUBSET Nat}

RecordType == [context : Nat, persistent : Nat, transfer : Rings, port : Int, speed : Speeds]

(* Where the thread has no slot with an output context, ...                 *)
NoSlot == {"port", "reset", "enable"}
Begun == {"setup", "disable"}

(* ... where the slot has only its control endpoint, has the endpoints of   *)
(* its class before it, or has all of them.                                 *)
Addressing == {"address", "desc8", "evaluate", "desc18", "configuration9", "configuration",
               "walk", "setconf", "class"}
Configuring == {"protocol", "idle", "configure"}
Inquiring == {"inquiry", "capacity", "insert"}
Using == {"listen", "lun", "ready", "buffer"} \cup Inquiring

Positions == NoSlot \cup Begun \cup Addressing \cup Configuring \cup Using \cup {"panic"}

This == thread.slot

SlotFields == {"state", "speed", "entries", "root", "endpoint"}

DataTypes ==
  /\ usb \in [Ports -> Devices]
  /\ free \subseteq Nat \ {0} /\ page \in Nat /\ IsFiniteSet(lost)
  /\ dcbaa \in [Slots -> Nat]
  /\ device \in [Slots -> RecordType]

SlotTypes == slot = [s \in Slots |-> slot[s]] /\ \A s \in Slots : DOMAIN slot[s] = SlotFields

ThreadTypes ==
  /\ thread \in [at : Positions, port : Nat, slot : Nat, pos : Nat]
  /\ answer \in [Ports -> Int]

(* The thread is past the port it answers for, which has no answer yet.     *)
PortsAhead ==
  /\ \A p \in Ports : p > thread.port => answer[p] = NotAsked
  /\ thread.at # "port" => thread.port \in Ports /\ answer[thread.port] = NotAsked

(* A slot the controller has off has no pages, neither has the one the      *)
(* thread just got; the one it works on has.                                *)
SlotsHold ==
  /\ \A s \in Slots : slot[s].state = "off" => dcbaa[s] = 0
  /\ thread.at \notin NoSlot => This \in Slots /\ slot[This].state # "off"
  /\ thread.at \in Begun => dcbaa[This] = 0
  /\ thread.at \in Addressing \cup Configuring \cup Using => dcbaa[This] # 0

(* No endpoint that is still to configure has a ring.                       *)
ToDo == {todo[i] : i \in DOMAIN todo}

RingsAhead ==
  /\ thread.at = "setup" => DOMAIN Record.transfer = {}
  /\ thread.at \in Addressing => DOMAIN Record.transfer = {1}
  /\ thread.at \in Configuring =>
       /\ \E a \in ToDo, b \in ToDo : todo \in {<<a>>, <<a, b>>}
       /\ \A i \in DOMAIN todo : todo[i].fails \in Int
       /\ \A i, j \in DOMAIN todo : i # j => EndpointId(todo[i].endpoint) # EndpointId(todo[j].endpoint)
       /\ \A i \in DOMAIN todo : EndpointId(todo[i].endpoint) \in Nat \ DOMAIN Record.transfer

PageOfInquiry == page # 0 <=> thread.at \in Inquiring

(* A page that is lost is not allocated again.                              *)
LostForGood == free \cap lost = {}

-----------------------------------------------------------------------------
(* What PagesOwned says, of a slot, a use and a page at a time.             *)
UseOf(s, e, p) ==
  /\ s \in Slots /\ dcbaa[s] # 0
  /\ \/ e = -1 /\ p = dcbaa[s]
     \/ e = -2 /\ p = device[s].context
     \/ e = -3 /\ p = device[s].persistent
     \/ e \in DOMAIN device[s].transfer /\ p = device[s].transfer[e]

Use(s, e, p) == p # 0 /\ (UseOf(s, e, p) \/ (s = 0 /\ e = -4 /\ p = page))

OneUse ==
  /\ \A s, e, t, f, p : Use(s, e, p) /\ Use(t, f, p) => s = t /\ e = f
  /\ \A s, e, p : Use(s, e, p) => p \notin free /\ p \notin lost
  /\ \A p : p \in owned <=> p \in free \/ p \in lost \/ \E s, e : Use(s, e, p)

Answered == {p \in Ports : answer[p] \in {7, 8}}

FewLost == Cardinality(lost) <= Cardinality(Answered)

OwnedInv ==
  /\ DataTypes /\ SlotTypes /\ ThreadTypes
  /\ PortsAhead /\ SlotsHold /\ RingsAhead /\ PageOfInquiry
  /\ LostForGood /\ OneUse /\ FewLost

LEMMA UsesAre ==
  /\ \A u \in RealUses : \E s, e, p : u = <<s, e, p>> /\ Use(s, e, p)
  /\ \A s, e, p : Use(s, e, p) => <<s, e, p>> \in RealUses
<1>1. ASSUME NEW u \in RealUses PROVE \E s, e, p : u = <<s, e, p>> /\ Use(s, e, p)
  <2>1. u \in Uses /\ u[3] # 0
    BY DEF RealUses
  <2>2. CASE u = <<0, -4, page>>
    BY <2>1, <2>2 DEF Use
  <2>3. CASE u # <<0, -4, page>>
    <3>1. PICK s \in HoldsPages :
            \/ u \in {<<s, -1, dcbaa[s]>>, <<s, -2, device[s].context>>, <<s, -3, device[s].persistent>>}
            \/ u \in {<<s, e, device[s].transfer[e]>> : e \in DOMAIN device[s].transfer}
      BY <2>1, <2>3 DEF Uses
    <3>2. s \in Slots /\ dcbaa[s] # 0
      BY DEF HoldsPages
    <3>3. CASE u = <<s, -1, dcbaa[s]>>
      BY <2>1, <3>2, <3>3 DEF Use, UseOf
    <3>4. CASE u = <<s, -2, device[s].context>>
      BY <2>1, <3>2, <3>4 DEF Use, UseOf
    <3>5. CASE u = <<s, -3, device[s].persistent>>
      BY <2>1, <3>2, <3>5 DEF Use, UseOf
    <3>6. CASE u \in {<<s, e, device[s].transfer[e]>> : e \in DOMAIN device[s].transfer}
      <4>1. PICK e \in DOMAIN device[s].transfer : u = <<s, e, device[s].transfer[e]>>
        BY <3>6
      <4> QED BY <2>1, <3>2, <4>1 DEF Use, UseOf
    <3> QED BY <3>1, <3>3, <3>4, <3>5, <3>6
  <2> QED BY <2>2, <2>3
<1>2. ASSUME NEW s, NEW e, NEW p, Use(s, e, p) PROVE <<s, e, p>> \in RealUses
  <2>1. CASE UseOf(s, e, p)
    <3>1. s \in HoldsPages
      BY <2>1 DEF UseOf, HoldsPages
    <3>2. \/ <<s, e, p>> \in {<<s, -1, dcbaa[s]>>, <<s, -2, device[s].context>>, <<s, -3, device[s].persistent>>}
          \/ <<s, e, p>> \in {<<s, g, device[s].transfer[g]>> : g \in DOMAIN device[s].transfer}
      BY <2>1 DEF UseOf
    <3>3. <<s, e, p>> \in Uses
      BY <3>1, <3>2 DEF Uses
    <3> QED BY <1>2, <3>3 DEF RealUses, Use
  <2>2. CASE s = 0 /\ e = -4 /\ p = page
    BY <1>2, <2>2 DEF Use, RealUses, Uses
  <2> QED BY <1>2, <2>1, <2>2 DEF Use
<1> QED BY <1>1, <1>2

LEMMA OwnedIs == PagesOwned <=> OneUse /\ FewLost
<1> DEFINE Rest == /\ \A u, v \in RealUses : u[3] = v[3] => u = v
                   /\ \A u \in RealUses : u[3] \notin free \cup lost
                   /\ free \cup lost \cup {u[3] : u \in RealUses} = owned
<1>1. PagesOwned <=> Rest /\ FewLost
  BY DEF PagesOwned, FewLost, Answered
<1>2. ASSUME Rest PROVE OneUse
  <2>1. \A s, e, p : Use(s, e, p) => <<s, e, p>> \in RealUses
    BY UsesAre
  <2>2. \A s, e, t, f, p : Use(s, e, p) /\ Use(t, f, p) => s = t /\ e = f
    <3> SUFFICES ASSUME NEW s, NEW e, NEW t, NEW f, NEW p, Use(s, e, p), Use(t, f, p)
        PROVE  s = t /\ e = f
      OBVIOUS
    <3>1. <<s, e, p>> \in RealUses /\ <<t, f, p>> \in RealUses
      BY <2>1
    <3>2. <<s, e, p>> = <<t, f, p>>
      BY <1>2, <3>1
    <3> QED BY <3>2
  <2>3. \A s, e, p : Use(s, e, p) => p \notin free /\ p \notin lost
    <3> SUFFICES ASSUME NEW s, NEW e, NEW p, Use(s, e, p)
        PROVE  p \notin free /\ p \notin lost
      OBVIOUS
    <3>1. <<s, e, p>> \in RealUses
      BY <2>1
    <3> QED BY <1>2, <3>1
  <2>4. ASSUME NEW p PROVE p \in owned <=> p \in free \/ p \in lost \/ \E s, e : Use(s, e, p)
    <3>1. ASSUME p \in {u[3] : u \in RealUses} PROVE \E s, e : Use(s, e, p)
      <4>1. PICK u \in RealUses : p = u[3]
        BY <3>1
      <4>2. PICK s, e, q : u = <<s, e, q>> /\ Use(s, e, q)
        BY UsesAre
      <4> QED BY <4>1, <4>2
    <3>2. ASSUME NEW s, NEW e, Use(s, e, p) PROVE p \in {u[3] : u \in RealUses}
      <4>1. <<s, e, p>> \in RealUses
        BY <2>1, <3>2
      <4> QED BY <4>1
    <3> QED BY <1>2, <3>1, <3>2
  <2> QED BY <2>2, <2>3, <2>4 DEF OneUse
<1>3. ASSUME OneUse PROVE Rest
  <2>1. \A u \in RealUses : \E s, e : u = <<s, e, u[3]>> /\ Use(s, e, u[3])
    <3> SUFFICES ASSUME NEW u \in RealUses PROVE \E s, e : u = <<s, e, u[3]>> /\ Use(s, e, u[3])
      OBVIOUS
    <3>1. PICK s, e, p : u = <<s, e, p>> /\ Use(s, e, p)
      BY UsesAre
    <3> QED BY <3>1
  <2>2. \A u, v \in RealUses : u[3] = v[3] => u = v
    BY <1>3, <2>1 DEF OneUse
  <2>3. \A u \in RealUses : u[3] \notin free \cup lost
    BY <1>3, <2>1 DEF OneUse
  <2>4. ASSUME NEW p PROVE p \in free \cup lost \cup {u[3] : u \in RealUses} <=> p \in owned
    <3>1. ASSUME p \in {u[3] : u \in RealUses} PROVE \E s, e : Use(s, e, p)
      <4>1. PICK u \in RealUses : p = u[3]
        BY <3>1
      <4> QED BY <2>1, <4>1
    <3>2. ASSUME NEW s, NEW e, Use(s, e, p) PROVE p \in {u[3] : u \in RealUses}
      <4>1. <<s, e, p>> \in RealUses
        BY <3>2, UsesAre
      <4> QED BY <4>1
    <3> QED BY <1>3, <3>1, <3>2 DEF OneUse
  <2> QED BY <2>2, <2>3, <2>4
<1> QED BY <1>1, <1>2, <1>3

-----------------------------------------------------------------------------
(* The thread goes on with its port, or answers for it.                     *)
Onward(at) ==
  /\ thread.at # "port"
  /\ thread' = [thread EXCEPT !.at = at, !.pos = thread'.pos] /\ thread'.pos \in Nat
  /\ UNCHANGED answer

Ended(code) == thread.at # "port" /\ code \in Int /\ Answer(code)

LEMMA OnwardKeeps ==
  ASSUME ThreadTypes, PortsAhead, FewLost, NEW at \in Positions, Onward(at)
  PROVE  /\ ThreadTypes' /\ PortsAhead' /\ thread'.at = at /\ This' = This
         /\ UNCHANGED lost => FewLost'
<1>1. /\ thread' \in [at : Positions, port : Nat, slot : Nat, pos : Nat]
      /\ thread'.at = at /\ thread'.slot = thread.slot /\ thread'.port = thread.port
  BY DEF ThreadTypes, Onward
<1>2. UNCHANGED answer /\ thread.at # "port"
  BY DEF Onward
<1>3. Answered' = Answered
  BY <1>2 DEF Answered
<1> QED BY <1>1, <1>2, <1>3 DEF ThreadTypes, PortsAhead, FewLost, This

LEMMA EndedKeeps ==
  ASSUME ThreadTypes, PortsAhead, FewLost, IsFiniteSet(lost), NEW code, Ended(code)
  PROVE  /\ ThreadTypes' /\ PortsAhead' /\ thread'.at = "port" /\ This' = This
         /\ UNCHANGED lost => FewLost'
         /\ code \in {7, 8} /\ (\E q : lost' = lost \cup {q}) => FewLost'
<1>1. /\ thread.at # "port" /\ code \in Int
      /\ answer' = [answer EXCEPT ![thread.port] = code]
      /\ thread' = [thread EXCEPT !.at = "port"]
  BY DEF Ended, Answer, Go
<1>2. /\ thread' \in [at : Positions, port : Nat, slot : Nat, pos : Nat]
      /\ thread'.at = "port" /\ thread'.slot = thread.slot /\ thread'.port = thread.port
  BY <1>1 DEF ThreadTypes, Positions, NoSlot
<1>3. thread.port \in Ports /\ answer[thread.port] = NotAsked /\ thread.port \in Nat
  BY <1>1 DEF PortsAhead, ThreadTypes
<1>4. answer' \in [Ports -> Int]
  BY <1>1, <1>3 DEF ThreadTypes
<1>5. PortsAhead'
  BY <1>1, <1>2, <1>3, EnumerationAssumption DEF PortsAhead, ThreadTypes
<1>6. /\ IsFiniteSet(Answered) /\ IsFiniteSet(Answered')
      /\ IF code \in {7, 8} THEN Answered' = Answered \cup {thread.port} ELSE Answered' = Answered
      /\ thread.port \notin Answered
  <2>1. Answered \in SUBSET Ports /\ Answered' \in SUBSET Ports
    BY DEF Answered
  <2>2. IF code \in {7, 8} THEN Answered' = Answered \cup {thread.port} ELSE Answered' = Answered
    BY <1>1, <1>3, <1>4 DEF Answered, NotAsked, ThreadTypes
  <2>3. thread.port \notin Answered
    BY <1>3 DEF Answered, NotAsked
  <2> QED BY <2>1, <2>2, <2>3, EnumerationAssumption, FS_Subset
<1>7. /\ Cardinality(Answered) \in Nat /\ Cardinality(lost) \in Nat
      /\ Cardinality(Answered') >= Cardinality(Answered)
      /\ code \in {7, 8} => Cardinality(Answered') = Cardinality(Answered) + 1
  <2>1. Cardinality(Answered) \in Nat /\ Cardinality(lost) \in Nat
    BY <1>6, FS_CardinalityType
  <2>2. Cardinality(Answered \cup {thread.port}) = Cardinality(Answered) + 1
    BY <1>6, FS_AddElement
  <2> QED BY <1>6, <2>1, <2>2
<1>8. ASSUME NEW q PROVE Cardinality(lost \cup {q}) <= Cardinality(lost) + 1
  BY <1>7, FS_AddElement
<1>9. UNCHANGED lost => FewLost'
  BY <1>7, <1>6 DEF FewLost
<1>10. code \in {7, 8} /\ (\E q : lost' = lost \cup {q}) => FewLost'
  <2> SUFFICES ASSUME code \in {7, 8}, NEW q, lost' = lost \cup {q} PROVE FewLost'
    OBVIOUS
  <2>1. Cardinality(lost \cup {q}) \in Nat
    BY FS_AddElement, FS_CardinalityType
  <2>2. Cardinality(lost \cup {q}) <= Cardinality(lost) + 1
    BY <1>8
  <2>3. Cardinality(Answered') = Cardinality(Answered) + 1 /\ Cardinality(lost) <= Cardinality(Answered)
    BY <1>7 DEF FewLost
  <2>4. Cardinality(lost') <= Cardinality(Answered')
    BY <1>7, <2>1, <2>2, <2>3
  <2> QED BY <2>4 DEF FewLost
<1>11. ThreadTypes' /\ thread'.at = "port" /\ This' = This
  BY <1>2, <1>4 DEF ThreadTypes, This
<1> QED BY <1>5, <1>9, <1>10, <1>11

LEMMA LeastNumber ==
  ASSUME NEW T \in SUBSET Nat, T # {}
  PROVE  \E x \in T : \A y \in T : x <= y
<1> DEFINE R == {ss \in Nat \X Nat : ss[1] < ss[2]}
<1>1. IsWellFoundedOn(R, Nat)
  <2>1. R = OpToRel(<, Nat)
    BY DEF OpToRel
  <2>2. IsWellFoundedOn(OpToRel(<, Nat), Nat)
    BY NatLessThanWellFounded, Zenon
  <2> HIDE DEF R
  <2> QED BY <2>1, <2>2, Zenon
<1>2. \A x, y \in T : y < x => <<y, x>> \in R
  OBVIOUS
<1> HIDE DEF R
<1>3. PICK x \in T : \A y \in T : ~(<<y, x>> \in R)
  BY <1>1, WFMin, Zenon
<1>4. \A y \in T : ~(y < x)
  BY <1>3, <1>2, Zenon
<1> QED BY <1>4

(* The lowest page is a free one.                                           *)
LEMMA LowestIn ==
  ASSUME NEW T \in SUBSET Nat
  PROVE  IF T = {} THEN Lowest(T) = 0 ELSE Lowest(T) \in T
BY LeastNumber DEF Lowest

LEMMA FoundIn ==
  ASSUME NEW body, NEW T \in SUBSET Nat, T # {}
  PROVE  \E i \in T : FirstOf(body, T) = <<body[i]>>
<1> DEFINE first == CHOOSE i \in T : \A j \in T : i <= j
<1>1. first \in T
  BY LeastNumber
<1>2. FirstOf(body, T) = <<body[first]>>
  BY DEF FirstOf
<1> HIDE DEF first
<1> QED BY <1>1, <1>2

(* The number of an endpoint: even for OUT, odd for IN, and 1 for none of   *)
(* these.                                                                   *)
LEMMA EndpointNumbers ==
  ASSUME NEW a \in (1 .. 15) \cup (129 .. 143), NEW dir \in {In, Out}, (a \div 128) * 128 = dir
  PROVE  LET id == (2 * a + a \div 128) % 32
         IN  id \in Nat \ {1} /\ (id % 2 = 1 <=> dir = In)
<1>0. a \in Int
  OBVIOUS
<1>1. CASE 1 <= a /\ a <= 15
  <2>1. a \div 128 = 0
    BY <1>0, <1>1
  <2>2. (2 * a) % 32 = 2 * a
    BY <1>0, <1>1
  <2>3. (2 * a) % 2 = 0
    BY <1>0, <1>1
  <2> QED BY <1>0, <1>1, <2>1, <2>2, <2>3 DEF In, Out
<1>2. CASE 129 <= a /\ a <= 143
  <2>1. a \div 128 = 1
    BY <1>0, <1>2
  <2>2. (2 * a + 1) % 32 = 2 * (a - 128) + 1
    BY <1>0, <1>2
  <2>3. (2 * (a - 128) + 1) % 2 = 1
    BY <1>0, <1>2
  <2> QED BY <1>0, <1>2, <2>1, <2>2, <2>3 DEF In, Out
<1> QED BY <1>1, <1>2

LEMMA SearchFinds ==
  ASSUME DataTypes, thread.port \in Ports, NEW type, NEW dir \in {In, Out},
         UsbSearchEndpoint(Here.conf, type, dir) # <<>>
  PROVE  LET id == EndpointId(UsbSearchEndpoint(Here.conf, type, dir)[1])
         IN  id \in Nat \ {1} /\ (id % 2 = 1 <=> dir = In)
<1> DEFINE body == Here.conf.DATA
           found == {i \in DOMAIN body : IsEndpoint(body[i], type, dir)}
<1>1. Here \in Devices
  BY DEF DataTypes, Here
<1>2. found \in SUBSET Nat /\ found # {}
  BY <1>1, EnumerationAssumption DEF UsbSearchEndpoint, FirstOf
<1>3. UsbSearchEndpoint(Here.conf, type, dir) = FirstOf(body, found)
  BY DEF UsbSearchEndpoint
<1>4. PICK i \in found : FirstOf(body, found) = <<body[i]>>
  <2> HIDE DEF found, body
  <2> QED BY <1>2, FoundIn
<1>5. /\ body[i].TYPE = "endpoint" /\ (body[i].ADDR \div 128) * 128 = dir
  BY DEF IsEndpoint
<1>6. body[i].ADDR \in (1 .. 15) \cup (129 .. 143)
  BY <1>1, <1>5, EnumerationAssumption DEF In, Out
<1>7. EndpointId(body[i]) \in Nat \ {1} /\ (EndpointId(body[i]) % 2 = 1 <=> dir = In)
  <2> DEFINE a == body[i].ADDR
  <2> HIDE DEF a
  <2>1. a \in (1 .. 15) \cup (129 .. 143) /\ (a \div 128) * 128 = dir
    BY <1>5, <1>6 DEF a
  <2>2. EndpointId(body[i]) = (2 * a + a \div 128) % 32
    BY DEF a, EndpointId
  <2> QED BY <2>1, <2>2, EndpointNumbers
<1>8. UsbSearchEndpoint(Here.conf, type, dir)[1] = body[i]
  BY <1>3, <1>4
<1> QED BY <1>7, <1>8

-----------------------------------------------------------------------------
(* Free pages that get a use each.                                          *)
Gains(N) ==
  /\ UNCHANGED <<owned, lost>>
  /\ \A s, e, p : Use(s, e, p)' <=> Use(s, e, p) \/ <<s, e, p>> \in N
  /\ \A s, e, p : <<s, e, p>> \in N => p \in free
  /\ \A s, e, t, f, p : <<s, e, p>> \in N /\ <<t, f, p>> \in N => s = t /\ e = f
  /\ \A p : p \in free' <=> p \in free /\ ~ \E s, e : <<s, e, p>> \in N

LEMMA GainsKeep ==
  ASSUME OneUse, LostForGood, NEW N, Gains(N)
  PROVE  OneUse' /\ LostForGood'
<1>1. \A s, e, p : Use(s, e, p)' <=> Use(s, e, p) \/ <<s, e, p>> \in N
  BY Zenon DEF Gains
<1>2. ASSUME NEW s, NEW e, NEW t, NEW f, NEW p, Use(s, e, p)', Use(t, f, p)' PROVE s = t /\ e = f
  <2>1. \A g, q : Use(g, q, p) => p \notin free
    BY DEF OneUse
  <2>2. \A g, q : <<g, q, p>> \in N => p \in free
    BY DEF Gains
  <2>3. CASE Use(s, e, p) /\ Use(t, f, p)
    BY <2>3 DEF OneUse
  <2>4. CASE <<s, e, p>> \in N /\ <<t, f, p>> \in N
    BY <2>4 DEF Gains
  <2> QED BY <1>1, <1>2, <2>1, <2>2, <2>3, <2>4
<1>3. \A s, e, p : Use(s, e, p)' => p \notin free' /\ p \notin lost'
  <2> SUFFICES ASSUME NEW s, NEW e, NEW p, Use(s, e, p)' PROVE p \notin free' /\ p \notin lost'
    OBVIOUS
  <2>1. CASE Use(s, e, p)
    BY <2>1 DEF OneUse, Gains
  <2>2. CASE <<s, e, p>> \in N
    BY <2>2 DEF Gains, LostForGood
  <2> QED BY <1>1, <2>1, <2>2
<1>4. \A p : p \in owned' <=> p \in free' \/ p \in lost' \/ \E s, e : Use(s, e, p)'
  BY <1>1 DEF OneUse, Gains
<1>5. LostForGood'
  BY DEF LostForGood, Gains
<1> QED BY <1>2, <1>3, <1>4, <1>5 DEF OneUse

(* No page changes its use.                                                 *)
Stays == UNCHANGED <<owned, free, lost>> /\ \A s, e, p : Use(s, e, p)' <=> Use(s, e, p)

LEMMA StaysKeep ==
  ASSUME OneUse, LostForGood, Stays
  PROVE  OneUse' /\ LostForGood'
BY DEF OneUse, LostForGood, Stays

(* The page of the inquiry is free again, or lost.                          *)
Returns ==
  /\ UNCHANGED <<owned, tables>> /\ page # 0 /\ page' = 0
  /\ \/ free' = free \cup {page} /\ UNCHANGED lost
     \/ lost' = lost \cup {page} /\ UNCHANGED free

LEMMA ReturnsKeep ==
  ASSUME OneUse, LostForGood, Returns
  PROVE  OneUse' /\ LostForGood'
<1>0. Use(0, -4, page)
  BY DEF Use, Returns
<1>1. ASSUME NEW s, NEW e, NEW p PROVE Use(s, e, p)' <=> Use(s, e, p) /\ p # page
  <2>1. UseOf(s, e, p)' <=> UseOf(s, e, p)
    BY DEF Returns, tables, UseOf
  <2>2. UseOf(s, e, p) => s # 0
    BY EnumerationAssumption DEF UseOf
  <2>3. Use(s, e, page) => s = 0
    BY <1>0 DEF OneUse
  <2>4. Use(s, e, p)' <=> p # 0 /\ UseOf(s, e, p)
    BY <2>1 DEF Use, Returns
  <2> QED BY <2>2, <2>3, <2>4 DEF Use
<1>2. \A s, e, t, f, p : Use(s, e, p)' /\ Use(t, f, p)' => s = t /\ e = f
  BY <1>1 DEF OneUse
<1>3. \A s, e, p : Use(s, e, p)' => p \notin free' /\ p \notin lost'
  BY <1>1 DEF OneUse, Returns
<1>4. \A p : p \in owned' <=> p \in free' \/ p \in lost' \/ \E s, e : Use(s, e, p)'
  BY <1>0, <1>1 DEF OneUse, Returns
<1>5. LostForGood'
  BY <1>0 DEF LostForGood, Returns, OneUse
<1> QED BY <1>2, <1>3, <1>4, <1>5 DEF OneUse

-----------------------------------------------------------------------------
(* Steps that leave the pages and the records alone.                        *)
Quiet == UNCHANGED <<usb, owned, free, lost, dcbaa, device, page>>

SlotsStay == SlotTypes' /\ \A s \in Slots : slot'[s].state = "off" => slot[s].state = "off"

LEMMA SameSlots == SlotTypes /\ UNCHANGED slot => SlotsStay
BY DEF SlotTypes, SlotsStay

Obeys(trb) ==
  /\ trb.type \in {"address_device", "evaluate_context", "configure_endpoint"}
  /\ This \in Slots
  /\ slot' = [slot EXCEPT ![This] = Obeyed(@, trb)]

LEMMA ObeyedStays ==
  ASSUME SlotTypes, NEW trb, Obeys(trb)
  PROVE  SlotsStay
<1>0. /\ trb.type \in {"address_device", "evaluate_context", "configure_endpoint"}
      /\ This \in Slots
      /\ slot' = [slot EXCEPT ![This] = Obeyed(@, trb)]
  BY DEF Obeys
<1>1. DOMAIN slot[This] = SlotFields
  BY <1>0 DEF SlotTypes
<1>2. DOMAIN Obeyed(slot[This], trb) = SlotFields
  BY <1>0, <1>1 DEF Obeyed, SlotFields
<1>3. Obeyed(slot[This], trb).state = "off" => slot[This].state = "off"
  BY <1>0, <1>1 DEF Obeyed, SlotFields
<1>4. \A s \in Slots : slot'[s] = IF s = This THEN Obeyed(slot[This], trb) ELSE slot[s]
  BY <1>0 DEF SlotTypes
<1>5. slot' = [s \in Slots |-> slot'[s]]
  BY <1>0 DEF SlotTypes
<1> QED BY <1>2, <1>3, <1>4, <1>5 DEF SlotTypes, SlotsStay

LEMMA QuietData ==
  ASSUME OwnedInv, Quiet
  PROVE  DataTypes' /\ OneUse' /\ LostForGood' /\ UNCHANGED lost
<1>1. DataTypes'
  BY DEF OwnedInv, DataTypes, Quiet
<1>2. Stays
  BY DEF Stays, Quiet, Use, UseOf
<1> QED BY <1>1, <1>2, StaysKeep DEF OwnedInv, Quiet

Alike(at, next) ==
  \/ {at, next} \subseteq NoSlot \ {"port"}
  \/ {at, next} \subseteq Addressing
  \/ {at, next} \subseteq Configuring
  \/ {at, next} \subseteq Using \ Inquiring
  \/ {at, next} \subseteq Inquiring

LEMMA QuietOnward ==
  ASSUME OwnedInv, Quiet, SlotsStay, UNCHANGED todo, NEW next, Alike(thread.at, next), Onward(next)
  PROVE  OwnedInv'
<1>1. next \in Positions
  BY DEF Alike, Positions, Using
<1>2. /\ ThreadTypes' /\ PortsAhead' /\ thread'.at = next /\ This' = This /\ FewLost'
  BY <1>1, OnwardKeeps, QuietData DEF OwnedInv
<1>3. SlotsHold'
  BY <1>2 DEF OwnedInv, SlotsHold, SlotsStay, Quiet, Alike, NoSlot, Begun, Addressing, Configuring, Using, Inquiring
<1>4. Record' = Record
  BY <1>2 DEF Record, Quiet, This
<1>5. RingsAhead'
  BY <1>2, <1>4 DEF OwnedInv, RingsAhead, ToDo, Alike, NoSlot, Addressing, Configuring, Using, Inquiring
<1>6. PageOfInquiry'
  BY <1>2 DEF OwnedInv, PageOfInquiry, Quiet, Alike, NoSlot, Addressing, Configuring, Using, Inquiring
<1> QED BY <1>2, <1>3, <1>5, <1>6, QuietData DEF OwnedInv, SlotsStay

LEMMA QuietEnded ==
  ASSUME OwnedInv, Quiet, SlotsStay, thread.at \notin Inquiring, NEW code, Ended(code)
  PROVE  OwnedInv'
<1>1. /\ ThreadTypes' /\ PortsAhead' /\ thread'.at = "port" /\ This' = This /\ FewLost'
  BY EndedKeeps, QuietData DEF OwnedInv, DataTypes
<1>2. SlotsHold'
  BY <1>1 DEF OwnedInv, SlotsHold, SlotsStay, Quiet, NoSlot, Begun, Addressing, Configuring, Using, Inquiring
<1>3. RingsAhead'
  BY <1>1 DEF RingsAhead, Addressing, Configuring
<1>4. PageOfInquiry'
  BY <1>1 DEF OwnedInv, PageOfInquiry, Quiet, Inquiring
<1> QED BY <1>1, <1>2, <1>3, <1>4, QuietData DEF OwnedInv, SlotsStay

LEMMA PanicKeeps ==
  ASSUME OwnedInv, Panic, thread.at \in Begun \cup Configuring \cup (Using \ Inquiring)
  PROVE  OwnedInv'
<1>1. /\ Onward("panic") /\ Quiet /\ UNCHANGED <<slot, todo>>
  BY DEF Panic, Go, Onward, Quiet, world, memory, tables, OwnedInv, ThreadTypes, Begun, Configuring, Using, Inquiring
<1>2. /\ ThreadTypes' /\ PortsAhead' /\ thread'.at = "panic" /\ This' = This /\ FewLost'
  BY <1>1, OnwardKeeps, QuietData DEF OwnedInv, Positions
<1>3. SlotsHold'
  BY <1>1, <1>2 DEF OwnedInv, SlotsHold, Quiet, NoSlot, Begun, Addressing, Configuring, Using, Inquiring
<1>4. RingsAhead'
  BY <1>2 DEF RingsAhead, Addressing, Configuring
<1>5. PageOfInquiry'
  BY <1>1, <1>2 DEF OwnedInv, PageOfInquiry, Quiet, Inquiring, Begun, Configuring, Using
<1> QED BY <1>1, <1>2, <1>3, <1>4, <1>5, SameSlots, QuietData DEF OwnedInv, SlotsStay

-----------------------------------------------------------------------------
(* The requests on the control endpoint, and the commands.                  *)
LEMMA GoIsOnward ==
  ASSUME OwnedInv, thread.at # "port", NEW next, Go(next), UNCHANGED answer
  PROVE  Onward(next)
BY DEF Go, Onward, OwnedInv, ThreadTypes

LEMMA RequestKeeps ==
  ASSUME OwnedInv, NEW at, NEW next, NEW code \in Int, Request(at, next, code), Alike(at, next),
         at \notin Inquiring
  PROVE  OwnedInv'
<1>1. thread.at = at /\ at # "port" /\ Quiet /\ SlotsStay /\ UNCHANGED todo
  BY SameSlots DEF Request, Quiet, world, memory, tables, OwnedInv, Alike, NoSlot, Addressing, Configuring, Using, Inquiring
<1>2. CASE Go(next) /\ UNCHANGED answer
  BY <1>1, <1>2, GoIsOnward, QuietOnward
<1>3. CASE Answer(code)
  BY <1>1, <1>3, QuietEnded DEF Ended
<1> QED BY <1>2, <1>3 DEF Request

LEMMA ControlKeeps ==
  ASSUME OwnedInv, NEW at, NEW setup, NEW next, NEW code \in Int,
         ControlTransfer(at, setup, next, code), Alike(at, next), at \notin Inquiring
  PROVE  OwnedInv'
<1>1. thread.at = at /\ at # "port" /\ Quiet /\ SlotsStay /\ UNCHANGED todo
  BY SameSlots DEF ControlTransfer, Quiet, world, memory, tables, OwnedInv, Alike, NoSlot, Addressing, Configuring, Using, Inquiring
<1>2. CASE Go(next) /\ UNCHANGED answer
  BY <1>1, <1>2, GoIsOnward, QuietOnward
<1>3. CASE Answer(code)
  BY <1>1, <1>3, QuietEnded DEF Ended
<1> QED BY <1>2, <1>3 DEF ControlTransfer

LEMMA CommandKeeps ==
  ASSUME OwnedInv, NEW trb, NEW next, NEW code \in Int, Command(trb, next, code),
         trb.type \in {"address_device", "evaluate_context"}, thread.at \in Addressing, next \in Addressing,
         UNCHANGED <<world, memory, tables, todo, page>>
  PROVE  OwnedInv'
<1>1. thread.at # "port" /\ Quiet /\ Alike(thread.at, next) /\ thread.at \notin Inquiring /\ This \in Slots
  BY DEF Quiet, world, memory, tables, OwnedInv, SlotsHold, Alike, NoSlot, Addressing, Inquiring
<1>2. CASE slot' = [slot EXCEPT ![thread.slot] = Obeyed(@, trb)] /\ Go(next) /\ UNCHANGED answer
  <2>0. Obeys(trb)
    BY <1>1, <1>2 DEF Obeys, This
  <2>1. SlotsStay
    BY <2>0, ObeyedStays DEF OwnedInv
  <2> QED BY <1>1, <1>2, <2>1, GoIsOnward, QuietOnward
<1>3. CASE Answer(code) /\ UNCHANGED slot
  BY <1>1, <1>3, SameSlots, QuietEnded DEF Ended, OwnedInv
<1> QED BY <1>2, <1>3 DEF Command

LEMMA AddressDeviceKeeps == OwnedInv /\ AddressDevice => OwnedInv'
<1> SUFFICES ASSUME OwnedInv, AddressDevice PROVE OwnedInv'
  OBVIOUS
<1> DEFINE trb == AddressDeviceTrb(thread.slot, InputContext(Record, ControlEndpoint(InitialMps(Record.speed))))
<1>1. trb.type = "address_device"
  BY DEF AddressDeviceTrb
<1>2. thread.at = "address" /\ Command(trb, "desc8", 4) /\ UNCHANGED <<world, memory, tables, todo, page>>
  BY DEF AddressDevice
<1> HIDE DEF trb
<1> QED BY <1>1, <1>2, CommandKeeps DEF Addressing

LEMMA EvaluateContextKeeps == OwnedInv /\ EvaluateContext => OwnedInv'
<1> SUFFICES ASSUME OwnedInv, EvaluateContext PROVE OwnedInv'
  OBVIOUS
<1> DEFINE trb == EvaluateContextTrb(thread.slot, InputContext(Record, ControlEndpoint(Reported(Here))))
<1>1. trb.type = "evaluate_context"
  BY DEF EvaluateContextTrb
<1>2. thread.at = "evaluate" /\ Command(trb, "desc18", 6) /\ UNCHANGED <<world, memory, tables, todo, page>>
  BY DEF EvaluateContext
<1> HIDE DEF trb
<1> QED BY <1>1, <1>2, CommandKeeps DEF Addressing

LEMMA TransfersKeep ==
  ASSUME OwnedInv,
         FirstDescriptor \/ Descriptors \/ SetConfiguration \/ BootProtocol \/ AskDisk \/ Request("reset", "enable", 1)
  PROVE  OwnedInv'
<1>1. CASE FirstDescriptor
  <2> DEFINE next == IF Reported(Here) = InitialMps(Record.speed) THEN "desc18" ELSE "evaluate"
  <2>1. Alike("desc8", next) /\ "desc8" \notin Inquiring
    BY DEF Alike, Addressing, Inquiring
  <2>2. ControlTransfer("desc8", GetDeviceDescriptor, next, 5)
    BY <1>1 DEF FirstDescriptor
  <2> HIDE DEF next
  <2> QED BY <2>1, <2>2, ControlKeeps
<1>2. CASE Descriptors
  <2>1. /\ Alike("desc18", "configuration9") /\ Alike("configuration9", "configuration")
        /\ Alike("configuration", "walk") /\ {"desc18", "configuration9", "configuration"} \cap Inquiring = {}
    BY DEF Alike, Addressing, Inquiring
  <2> QED BY <1>2, <2>1, ControlKeeps DEF Descriptors
<1>3. CASE SetConfiguration
  <2>1. Alike("setconf", "class") /\ "setconf" \notin Inquiring
    BY DEF Alike, Addressing, Inquiring
  <2> QED BY <1>3, <2>1, ControlKeeps DEF SetConfiguration
<1>4. CASE BootProtocol
  <2>1. Alike("protocol", "idle") /\ Alike("idle", "configure") /\ {"protocol", "idle"} \cap Inquiring = {}
    BY DEF Alike, Configuring, Inquiring
  <2> QED BY <1>4, <2>1, ControlKeeps DEF BootProtocol
<1>5. CASE AskDisk
  <2>1. Alike("lun", "ready") /\ Alike("ready", "buffer") /\ {"lun", "ready"} \cap Inquiring = {}
    BY DEF Alike, Using, Inquiring
  <2> QED BY <1>5, <2>1, ControlKeeps, RequestKeeps DEF AskDisk
<1>6. CASE Request("reset", "enable", 1)
  <2>1. Alike("reset", "enable") /\ "reset" \notin Inquiring
    BY DEF Alike, NoSlot, Inquiring
  <2> QED BY <1>6, <2>1, RequestKeeps
<1> QED BY <1>1, <1>2, <1>3, <1>4, <1>5, <1>6

LEMMA WalkKeeps == OwnedInv /\ WalkDescriptors => OwnedInv'
<1> SUFFICES ASSUME OwnedInv, WalkDescriptors PROVE OwnedInv'
  OBVIOUS
<1>1. /\ thread.at = "walk" /\ thread.at # "port" /\ thread.at \notin Inquiring
      /\ Quiet /\ SlotsStay /\ UNCHANGED todo
      /\ Alike(thread.at, "walk") /\ Alike(thread.at, "setconf")
  BY SameSlots DEF WalkDescriptors, Quiet, world, memory, tables, OwnedInv, Alike, Addressing, Inquiring
<1>2. CASE thread.pos \in DOMAIN Here.conf.DATA
  <2>1. Onward("walk")
    <3>1. thread' = [thread EXCEPT !.pos = @ + Step(Here.conf.DATA[thread.pos])] /\ UNCHANGED answer
      BY <1>2 DEF WalkDescriptors
    <3>2. Step(Here.conf.DATA[thread.pos]) \in Nat
      BY DEF Step
    <3>3. thread \in [at : Positions, port : Nat, slot : Nat, pos : Nat]
      BY DEF OwnedInv, ThreadTypes
    <3>4. thread'.pos = thread.pos + Step(Here.conf.DATA[thread.pos])
      BY <3>1, <3>3
    <3>5. thread'.pos \in Nat
      BY <3>2, <3>3, <3>4
    <3>6. thread' = [[thread EXCEPT !.at = "walk"] EXCEPT !.pos = thread'.pos]
      BY <1>1, <3>1, <3>3, <3>4
    <3> QED BY <1>1, <3>1, <3>5, <3>6 DEF Onward
  <2> QED BY <1>1, <2>1, QuietOnward
<1>3. CASE Go("setconf") /\ UNCHANGED answer
  BY <1>1, <1>3, GoIsOnward, QuietOnward
<1>4. CASE Answer(10)
  BY <1>1, <1>4, QuietEnded DEF Ended
<1> QED BY <1>2, <1>3, <1>4 DEF WalkDescriptors

LEMMA ListenKeeps == OwnedInv /\ ListenForKeys => OwnedInv'
<1> SUFFICES ASSUME OwnedInv, ListenForKeys PROVE OwnedInv'
  OBVIOUS
<1>1. thread.at \notin Inquiring /\ Quiet /\ SlotsStay /\ Ended(0)
  BY SameSlots DEF ListenForKeys, Quiet, world, memory, tables, OwnedInv, Inquiring, Ended
<1> QED BY <1>1, QuietEnded

LEMMA NextPortKeeps == OwnedInv /\ NextPort => OwnedInv'
<1> SUFFICES ASSUME OwnedInv, NextPort PROVE OwnedInv'
  OBVIOUS
<1>1. /\ Quiet /\ SlotsStay /\ UNCHANGED answer
      /\ thread.at = "port" /\ thread.port + 1 \in Ports
      /\ thread' = [at |-> thread'.at, port |-> thread.port + 1, slot |-> 0, pos |-> 1]
      /\ thread'.at \in {"port", "reset"}
  BY SameSlots DEF NextPort, Quiet, world, memory, tables, OwnedInv
<1>2. ThreadTypes'
  BY <1>1 DEF OwnedInv, ThreadTypes, Positions, NoSlot
<1>3. PortsAhead'
  BY <1>1, EnumerationAssumption DEF OwnedInv, PortsAhead, ThreadTypes
<1>4. SlotsHold'
  BY <1>1 DEF OwnedInv, SlotsHold, SlotsStay, Quiet, NoSlot, Begun, Addressing, Configuring, Using, Inquiring
<1>5. RingsAhead'
  BY <1>1 DEF RingsAhead, Addressing, Configuring
<1>6. PageOfInquiry'
  BY <1>1 DEF OwnedInv, PageOfInquiry, Quiet, Inquiring
<1>7. FewLost'
  BY <1>1 DEF OwnedInv, FewLost, Answered, Quiet
<1> QED BY <1>1, <1>2, <1>3, <1>4, <1>5, <1>6, <1>7, QuietData DEF OwnedInv, SlotsStay

LEMMA ChooseClassKeeps == OwnedInv /\ ChooseClass => OwnedInv'
<1> SUFFICES ASSUME OwnedInv, ChooseClass PROVE OwnedInv'
  OBVIOUS
<1>1. /\ thread.at = "class" /\ thread.at # "port" /\ thread.at \notin Inquiring
      /\ Quiet /\ SlotsStay /\ thread.port \in Ports /\ DataTypes
  BY SameSlots DEF ChooseClass, Quiet, world, memory, tables, OwnedInv, PortsAhead, Inquiring
<1>2. ASSUME NEW code \in Int, Answer(code) PROVE OwnedInv'
  BY <1>1, <1>2, QuietEnded DEF Ended
<1>3. ASSUME NEW next \in {"protocol", "configure"}, Go(next), UNCHANGED answer, RingsAhead' PROVE OwnedInv'
  <2>1. next \in Positions /\ Onward(next)
    BY <1>1, <1>3, GoIsOnward DEF Positions, Configuring
  <2>2. /\ ThreadTypes' /\ PortsAhead' /\ thread'.at = next /\ This' = This /\ FewLost'
    BY <1>1, <2>1, OnwardKeeps, QuietData DEF OwnedInv
  <2>3. SlotsHold'
    BY <1>1, <1>3, <2>2 DEF OwnedInv, SlotsHold, SlotsStay, Quiet, NoSlot, Begun, Addressing, Configuring, Using, Inquiring
  <2>4. PageOfInquiry'
    BY <1>1, <1>3, <2>2 DEF OwnedInv, PageOfInquiry, Quiet, Inquiring
  <2> QED BY <1>1, <1>3, <2>2, <2>3, <2>4, QuietData DEF OwnedInv, SlotsStay
<1>4. ASSUME NEW next \in {"protocol", "configure"}, Go(next)
      PROVE  thread'.at = next /\ Record' = Record /\ DOMAIN Record.transfer = {1}
  BY <1>1, <1>4 DEF Go, OwnedInv, ThreadTypes, Record, Quiet, RingsAhead, Addressing
<1>5. CASE /\ Keyboard /\ KeyEndpoint # <<>>
           /\ todo' = <<[endpoint |-> KeyEndpoint[1], fails |-> 1]>>
           /\ Go("protocol") /\ UNCHANGED answer
  <2> DEFINE a == [endpoint |-> KeyEndpoint[1], fails |-> 1]
  <2>1. EndpointId(KeyEndpoint[1]) \in Nat \ {1}
    BY <1>1, <1>5, SearchFinds DEF KeyEndpoint
  <2>2. EndpointId(a.endpoint) \in Nat \ {1}
    BY <2>1
  <2> HIDE DEF a
  <2>3. todo' = <<a>>
    BY <1>5 DEF a
  <2>4. RingsAhead'
    BY <1>4, <1>5, <2>2, <2>3 DEF RingsAhead, ToDo, Addressing, Configuring
  <2> QED BY <1>3, <1>5, <2>4
<1>6. CASE /\ Disk /\ DiskIn # <<>> /\ DiskOut # <<>>
           /\ todo' = <<[endpoint |-> DiskIn[1], fails |-> 3], [endpoint |-> DiskOut[1], fails |-> 4]>>
           /\ Go("configure") /\ UNCHANGED answer
  <2> DEFINE a == [endpoint |-> DiskIn[1], fails |-> 3]
             b == [endpoint |-> DiskOut[1], fails |-> 4]
  <2>1. EndpointId(DiskIn[1]) \in Nat \ {1} /\ EndpointId(DiskIn[1]) % 2 = 1
    BY <1>1, <1>6, SearchFinds DEF DiskIn
  <2>2. EndpointId(DiskOut[1]) \in Nat \ {1} /\ ~(EndpointId(DiskOut[1]) % 2 = 1)
    BY <1>1, <1>6, SearchFinds DEF DiskOut, In, Out
  <2>3. /\ EndpointId(a.endpoint) \in Nat \ {1} /\ EndpointId(b.endpoint) \in Nat \ {1}
        /\ EndpointId(a.endpoint) # EndpointId(b.endpoint)
    BY <2>1, <2>2
  <2>4. todo' = <<a, b>>
    BY <1>6
  <2> HIDE DEF a, b
  <2>5. DOMAIN todo' = {1, 2} /\ todo'[1] = a /\ todo'[2] = b
    BY <2>4
  <2>6. RingsAhead'
    BY <1>4, <1>6, <2>3, <2>4, <2>5 DEF RingsAhead, ToDo, Addressing, Configuring
  <2> QED BY <1>3, <1>6, <2>6
<1>7. CASE \E code \in Int : Answer(code)
  BY <1>2, <1>7
<1> QED BY <1>5, <1>6, <1>7 DEF ChooseClass

-----------------------------------------------------------------------------
(* A slot comes and goes.                                                   *)
LEMMA NoRings == [e \in {} |-> 0] \in Rings /\ DOMAIN [e \in {} |-> 0] = {}
<1>1. [e \in {} |-> 0] \in [{} -> Nat]
  OBVIOUS
<1>2. [{} -> Nat] \in {[ids -> Nat] : ids \in SUBSET Nat}
  OBVIOUS
<1>3. DOMAIN [e \in {} |-> 0] = {}
  OBVIOUS
<1> QED BY <1>1, <1>2, <1>3 DEF Rings

LEMMA EnableSlotKeeps == OwnedInv /\ EnableSlot => OwnedInv'
<1> SUFFICES ASSUME OwnedInv, EnableSlot PROVE OwnedInv'
  OBVIOUS
<1>0. thread.at = "enable" /\ UNCHANGED <<world, unit, memory, dcbaa, todo, page, input>>
  BY Zenon DEF EnableSlot
<1>1. /\ thread.at = "enable" /\ thread.at # "port" /\ thread.at \notin Inquiring
      /\ UNCHANGED <<usb, owned, free, lost, dcbaa, page, todo>>
  BY <1>0 DEF world, memory, Inquiring
<1>2. CASE Answer(2) /\ UNCHANGED <<slot, device>>
  BY <1>1, <1>2, SameSlots, QuietEnded DEF Ended, Quiet, OwnedInv
<1>3. ASSUME NEW s \in Slots, slot[s].state = "off",
             slot' = [slot EXCEPT ![s] = Obeyed(@, EnableSlotTrb)],
             device' = [device EXCEPT ![s] = NoDevice],
             thread' = [thread EXCEPT !.at = "setup", !.slot = s],
             UNCHANGED answer
      PROVE  OwnedInv'
  <2>1. s \in Nat /\ dcbaa[s] = 0
    BY <1>3, EnumerationAssumption DEF OwnedInv, SlotsHold
  <2>2. /\ device \in [Slots -> RecordType] /\ SlotTypes
        /\ thread \in [at : Positions, port : Nat, slot : Nat, pos : Nat]
    BY DEF OwnedInv, DataTypes, ThreadTypes
  <2>3. /\ NoDevice.transfer \in Rings /\ DOMAIN NoDevice.transfer = {}
    BY NoRings DEF NoDevice
  <2>4. NoDevice \in RecordType
    <3>1. NoPort \in Int /\ "none" \in Speeds /\ [e \in {} |-> 0] \in Rings
      BY <2>3 DEF NoPort, Speeds, NoDevice
    <3> QED BY <3>1 DEF NoDevice, RecordType
  <2>5. device' \in [Slots -> RecordType] /\ device'[s] = NoDevice /\ \A t \in Slots \ {s} : device'[t] = device[t]
    BY <1>3, <2>2, <2>4
  <2>6. DataTypes'
    BY <1>1, <2>5 DEF OwnedInv, DataTypes
  <2>7. Obeyed(slot[s], EnableSlotTrb) = [SlotOff EXCEPT !.state = "enabled"]
    BY DEF Obeyed, EnableSlotTrb
  <2>8. SlotTypes' /\ slot'[s].state = "enabled" /\ \A t \in Slots \ {s} : slot'[t] = slot[t]
    <3>1. \A t \in Slots : slot'[t] = IF t = s THEN [SlotOff EXCEPT !.state = "enabled"] ELSE slot[t]
      BY <1>3, <2>2, <2>7 DEF SlotTypes
    <3>2. slot' = [t \in Slots |-> slot'[t]]
      BY <1>3, <2>2 DEF SlotTypes
    <3>3. DOMAIN [SlotOff EXCEPT !.state = "enabled"] = SlotFields /\ [SlotOff EXCEPT !.state = "enabled"].state = "enabled"
      BY DEF SlotOff, SlotFields
    <3>4. \A t \in Slots : DOMAIN slot'[t] = SlotFields
      BY <2>2, <3>1, <3>3 DEF SlotTypes
    <3> QED BY <3>1, <3>2, <3>3, <3>4 DEF SlotTypes
  <2>9. /\ thread' \in [at : Positions, port : Nat, slot : Nat, pos : Nat]
        /\ thread'.at = "setup" /\ thread'.slot = s /\ thread'.port = thread.port
    BY <1>3, <2>1, <2>2 DEF Positions, Begun
  <2>10. ThreadTypes' /\ PortsAhead' /\ FewLost'
    BY <1>1, <1>3, <2>9 DEF OwnedInv, ThreadTypes, PortsAhead, FewLost, Answered
  <2>11. SlotsHold'
    BY <1>1, <2>1, <2>8, <2>9 DEF OwnedInv, SlotsHold, This, NoSlot, Begun, Addressing, Configuring, Using, Inquiring
  <2>12. RingsAhead'
    BY <2>3, <2>5, <2>9 DEF RingsAhead, Record, Addressing, Configuring
  <2>13. PageOfInquiry'
    BY <1>1, <2>9 DEF OwnedInv, PageOfInquiry, Inquiring
  <2>14. Stays
    <3>1. ASSUME NEW t, NEW e, NEW q PROVE UseOf(t, e, q)' <=> UseOf(t, e, q)
      BY <1>1, <2>1, <2>5 DEF UseOf
    <3> QED BY <1>1, <3>1 DEF Stays, Use
  <2> QED BY <2>6, <2>8, <2>10, <2>11, <2>12, <2>13, <2>14, StaysKeep DEF OwnedInv
<1> QED BY <1>2, <1>3, Zenon DEF EnableSlot

LEMMA TooFewPagesKeeps == OwnedInv /\ TooFewPages => OwnedInv'
<1> SUFFICES ASSUME OwnedInv, TooFewPages PROVE OwnedInv'
  OBVIOUS
<1>1. /\ thread.at = "setup" /\ thread.at # "port" /\ Onward("disable")
      /\ UNCHANGED <<usb, owned, free, lost, dcbaa, slot, page, todo>>
      /\ device' = [device EXCEPT ![This].context = Input]
  BY GoIsOnward DEF TooFewPages, world, memory, This
<1>2. This \in Slots /\ dcbaa[This] = 0
  BY <1>1 DEF OwnedInv, SlotsHold, NoSlot, Begun
<1>3. /\ ThreadTypes' /\ PortsAhead' /\ thread'.at = "disable" /\ This' = This /\ FewLost'
  BY <1>1, OnwardKeeps DEF OwnedInv, Positions, Begun
<1>4. device \in [Slots -> RecordType] /\ free \subseteq Nat \ {0}
  BY DEF OwnedInv, DataTypes
<1>5. Input \in Nat
  <2>1. free \ {Output} \in SUBSET Nat
    BY <1>4
  <2> QED BY <2>1, LowestIn DEF Input
<1>6. device' \in [Slots -> RecordType] /\ \A t \in Slots \ {This} : device'[t] = device[t]
  BY <1>1, <1>2, <1>4, <1>5 DEF RecordType
<1>7. DataTypes'
  BY <1>1, <1>6 DEF OwnedInv, DataTypes
<1>8. SlotsHold' /\ RingsAhead' /\ PageOfInquiry'
  BY <1>1, <1>2, <1>3 DEF OwnedInv, SlotsHold, RingsAhead, PageOfInquiry, NoSlot, Begun, Addressing, Configuring, Using, Inquiring
<1>9. Stays
  <2>1. ASSUME NEW t, NEW e, NEW q PROVE UseOf(t, e, q)' <=> UseOf(t, e, q)
    BY <1>1, <1>2, <1>6 DEF UseOf
  <2> QED BY <1>1, <2>1 DEF Stays, Use
<1> QED BY <1>1, <1>3, <1>7, <1>8, <1>9, StaysKeep, SameSlots DEF OwnedInv, SlotsStay

LEMMA DisableSlotKeeps == OwnedInv /\ DisableSlot => OwnedInv'
<1> SUFFICES ASSUME OwnedInv, DisableSlot PROVE OwnedInv'
  OBVIOUS
<1>1. /\ thread.at = "disable" /\ thread.at # "port" /\ Ended(3)
      /\ UNCHANGED <<usb, owned, lost, device, page, todo>>
  BY DEF DisableSlot, world, Ended
<1>2. This \in Slots /\ dcbaa[This] = 0
  BY <1>1 DEF OwnedInv, SlotsHold, NoSlot, Begun
<1>3. free' = free /\ dcbaa' = dcbaa
  BY <1>2 DEF DisableSlot, This, OwnedInv, DataTypes
<1>4. /\ ThreadTypes' /\ PortsAhead' /\ thread'.at = "port" /\ This' = This /\ FewLost'
  BY <1>1, EndedKeeps DEF OwnedInv, DataTypes
<1>5. SlotTypes' /\ \A t \in Slots \ {This} : slot'[t] = slot[t]
  <2>1. Obeyed(slot[This], DisableSlotTrb(This)) = SlotOff
    BY DEF Obeyed, DisableSlotTrb
  <2>2. DOMAIN SlotOff = SlotFields
    BY DEF SlotOff, SlotFields
  <2>3. CASE UNCHANGED slot
    BY <2>3 DEF OwnedInv, SlotTypes
  <2>4. CASE slot' = [slot EXCEPT ![This] = SlotOff]
    <3>1. \A t \in Slots : slot'[t] = IF t = This THEN SlotOff ELSE slot[t]
      BY <2>4 DEF OwnedInv, SlotTypes
    <3>2. slot' = [t \in Slots |-> slot'[t]]
      BY <2>4 DEF OwnedInv, SlotTypes
    <3> QED BY <2>2, <3>1, <3>2 DEF OwnedInv, SlotTypes
  <2> QED BY <2>1, <2>3, <2>4 DEF DisableSlot, This
<1>6. SlotsHold' /\ RingsAhead' /\ PageOfInquiry'
  BY <1>1, <1>2, <1>3, <1>4, <1>5 DEF OwnedInv, SlotsHold, RingsAhead, PageOfInquiry, NoSlot, Begun, Addressing, Configuring, Using, Inquiring
<1>7. DataTypes' /\ Quiet
  BY <1>1, <1>3 DEF OwnedInv, DataTypes, Quiet
<1> QED BY <1>4, <1>5, <1>6, <1>7, QuietData DEF OwnedInv

-----------------------------------------------------------------------------
(* Pages are taken and given back.                                          *)
LEMMA WithRingType ==
  ASSUME NEW rings \in Rings, NEW epid \in Nat, NEW pg \in Nat
  PROVE  /\ WithRing(rings, epid, pg) \in Rings
         /\ DOMAIN WithRing(rings, epid, pg) = DOMAIN rings \cup {epid}
         /\ WithRing(rings, epid, pg)[epid] = pg
         /\ \A e \in DOMAIN rings : e # epid => WithRing(rings, epid, pg)[e] = rings[e]
<1> DEFINE ids == DOMAIN rings
<1>1. ids \in SUBSET Nat /\ \A e \in ids : rings[e] \in Nat
  <2>1. PICK S \in {[i -> Nat] : i \in SUBSET Nat} : rings \in S
    BY DEF Rings
  <2>2. PICK i \in SUBSET Nat : rings \in [i -> Nat]
    BY <2>1
  <2> QED BY <2>2
<1> HIDE DEF ids
<1>2. WithRing(rings, epid, pg) = [e \in ids \cup {epid} |-> IF e = epid THEN pg ELSE rings[e]]
  BY DEF WithRing, ids
<1>3. WithRing(rings, epid, pg) \in [ids \cup {epid} -> Nat]
  BY <1>1, <1>2
<1>4. ids \cup {epid} \in SUBSET Nat
  BY <1>1
<1>5. WithRing(rings, epid, pg) \in Rings
  BY <1>3, <1>4 DEF Rings
<1> QED BY <1>2, <1>5 DEF ids

(* One slot's record and output context change.                             *)
RecordTo(s, out, record) ==
  /\ s \in Slots /\ out \in Nat /\ record \in RecordType
  /\ dcbaa' = [dcbaa EXCEPT ![s] = out] /\ device' = [device EXCEPT ![s] = record]
  /\ free' \subseteq free /\ UNCHANGED <<usb, lost, page>>

LEMMA RecordChanges ==
  ASSUME DataTypes, NEW s, NEW out, NEW record, RecordTo(s, out, record)
  PROVE  /\ DataTypes' /\ dcbaa'[s] = out /\ device'[s] = record
         /\ \A t \in Slots : t # s => dcbaa'[t] = dcbaa[t] /\ device'[t] = device[t]
         /\ \A t, e, q : t # s => (UseOf(t, e, q)' <=> UseOf(t, e, q))
<1>1. /\ dcbaa' \in [Slots -> Nat] /\ device' \in [Slots -> RecordType]
      /\ dcbaa'[s] = out /\ device'[s] = record
      /\ \A t \in Slots : t # s => dcbaa'[t] = dcbaa[t] /\ device'[t] = device[t]
  BY DEF DataTypes, RecordTo
<1>2. DataTypes'
  BY <1>1 DEF DataTypes, RecordTo
<1>3. ASSUME NEW t, NEW e, NEW q, t # s PROVE UseOf(t, e, q)' <=> UseOf(t, e, q)
  BY <1>1, <1>3 DEF UseOf, RecordTo
<1> QED BY <1>1, <1>2, <1>3

LEMMA SetUpKeeps == OwnedInv /\ SetUp => OwnedInv'
<1> SUFFICES ASSUME OwnedInv, SetUp PROVE OwnedInv'
  OBVIOUS
<1>0. /\ thread.at = "setup" /\ This \in Slots /\ dcbaa[This] = 0 /\ slot[This].state # "off"
      /\ DOMAIN device[This].transfer = {}
  BY DEF SetUp, OwnedInv, SlotsHold, RingsAhead, Record, This, NoSlot, Begun
<1> PICK me \in Slots : me = This
  BY <1>0
<1> DEFINE o == Output
           i == Input
           d == Persistent
           c == Control
           N == {<<me, -1, o>>, <<me, -2, i>>, <<me, -3, d>>, <<me, 1, c>>}
           rings == WithRing(device[me].transfer, 1, c)
           record == [context |-> i, persistent |-> d, transfer |-> rings,
                      port |-> thread.port - 1, speed |-> Here.speed]
<1>1. /\ thread.at = "setup" /\ thread.at # "port" /\ Onward("address")
      /\ UNCHANGED <<usb, owned, lost, slot, page, todo>>
      /\ dcbaa' = [dcbaa EXCEPT ![me] = o]
      /\ free' = free \ {o, i, d, c}
  BY GoIsOnward DEF SetUp, world, This
<1>2. device' = [device EXCEPT ![me] = record]
  BY DEF SetUp, This
<1>3. me \in Slots /\ dcbaa[me] = 0
  BY <1>0
<1>4. /\ device \in [Slots -> RecordType] /\ free \subseteq Nat \ {0} /\ page \in Nat
      /\ thread.port \in Ports /\ thread.port \in Nat /\ Here \in Devices /\ DataTypes
  BY <1>1 DEF OwnedInv, DataTypes, PortsAhead, ThreadTypes, Here
<1>5. /\ {o, i, d, c} \subseteq free /\ {o, i, d, c} \subseteq Nat \ {0}
      /\ o # i /\ o # d /\ o # c /\ i # d /\ i # c /\ d # c
  <2>1. 0 \notin {o, i, d, c}
    BY DEF SetUp
  <2>2. free \in SUBSET Nat /\ free \ {o} \in SUBSET Nat /\ free \ {o, i} \in SUBSET Nat /\ free \ {o, i, d} \in SUBSET Nat
    BY <1>4
  <2>3. /\ o = Lowest(free) /\ i = Lowest(free \ {o}) /\ d = Lowest(free \ {o, i}) /\ c = Lowest(free \ {o, i, d})
    BY DEF Output, Input, Persistent, Control
  <2> HIDE DEF o, i, d, c
  <2>4. o \in free
    BY <2>1, <2>2, <2>3, LowestIn
  <2>5. i \in free \ {o}
    BY <2>1, <2>2, <2>3, LowestIn
  <2>6. d \in free \ {o, i}
    BY <2>1, <2>2, <2>3, LowestIn
  <2>7. c \in free \ {o, i, d}
    BY <2>1, <2>2, <2>3, LowestIn
  <2> QED BY <1>4, <2>4, <2>5, <2>6, <2>7
<1> HIDE DEF o, i, d, c
<1>6. DOMAIN device[me].transfer = {}
  BY <1>0
<1>7. device[me].transfer \in Rings
  BY <1>3, <1>4 DEF RecordType
<1>8. rings \in Rings /\ DOMAIN rings = {1} /\ rings[1] = c
  <2>1. c \in Nat /\ 1 \in Nat
    BY <1>5
  <2>2. DOMAIN rings = DOMAIN device[me].transfer \cup {1}
    BY DEF WithRing
  <2>3. rings \in Rings /\ rings[1] = c
    BY <1>7, <2>1, WithRingType, ZenonT(40)
  <2> QED BY <1>6, <2>2, <2>3
<1> HIDE DEF rings
<1>9. record \in RecordType
  BY <1>4, <1>5, <1>8, EnumerationAssumption DEF RecordType
<1>10. /\ record.context = i /\ record.persistent = d /\ record.transfer = rings
  OBVIOUS
<1> HIDE DEF record
<1>11. /\ DataTypes' /\ dcbaa'[me] = o /\ device'[me] = record
       /\ \A t \in Slots : t # me => dcbaa'[t] = dcbaa[t] /\ device'[t] = device[t]
       /\ \A t, e, q : t # me => (UseOf(t, e, q)' <=> UseOf(t, e, q))
  <2>1. o \in Nat /\ free' \subseteq free
    BY <1>1, <1>5
  <2>2. RecordTo(me, o, record)
    BY <1>1, <1>2, <1>9, <2>1 DEF RecordTo
  <2> QED BY <1>4, <2>2, RecordChanges
<1>12. ASSUME NEW e, NEW q PROVE UseOf(me, e, q)' <=> <<me, e, q>> \in N
  <2>1. UseOf(me, e, q)' <=> \/ e = -1 /\ q = o
                             \/ e = -2 /\ q = i
                             \/ e = -3 /\ q = d
                             \/ e = 1 /\ q = c
    BY <1>3, <1>5, <1>8, <1>10, <1>11 DEF UseOf
  <2> QED BY <2>1
<1>13. Gains(N)
  <2>1. ASSUME NEW s, NEW e, NEW q PROVE Use(s, e, q)' <=> Use(s, e, q) \/ <<s, e, q>> \in N
    <3>1. CASE s = me
      <4>1. ~UseOf(s, e, q)
        BY <1>3, <3>1 DEF UseOf
      <4>2. UseOf(s, e, q)' <=> <<s, e, q>> \in N
        BY <1>12, <3>1
      <4>3. <<s, e, q>> \in N => q # 0
        BY <1>5
      <4> QED BY <1>1, <4>1, <4>2, <4>3 DEF Use
    <3>2. CASE s # me
      <4>1. UseOf(s, e, q)' <=> UseOf(s, e, q)
        BY <1>11, <3>2
      <4>2. <<s, e, q>> \notin N
        BY <3>2
      <4> QED BY <1>1, <4>1, <4>2 DEF Use
    <3> QED BY <3>1, <3>2
  <2>2. ASSUME NEW q PROVE (\E s, e : <<s, e, q>> \in N) <=> q \in {o, i, d, c}
    <3>1. <<me, -1, o>> \in N /\ <<me, -2, i>> \in N /\ <<me, -3, d>> \in N /\ <<me, 1, c>> \in N
      OBVIOUS
    <3>2. ASSUME NEW s, NEW e, <<s, e, q>> \in N PROVE q \in {o, i, d, c}
      BY <3>2
    <3> QED BY <3>1, <3>2
  <2>3. \A s, e, t, f, q : <<s, e, q>> \in N /\ <<t, f, q>> \in N => s = t /\ e = f
    BY <1>5
  <2> HIDE DEF N
  <2> QED BY <1>1, <1>5, <2>1, <2>2, <2>3 DEF Gains
<1> HIDE DEF N
<1>14. OneUse' /\ LostForGood'
  BY <1>13, GainsKeep DEF OwnedInv
<1>15. /\ ThreadTypes' /\ PortsAhead' /\ thread'.at = "address" /\ This' = This /\ FewLost'
  BY <1>1, OnwardKeeps DEF OwnedInv, Positions, Addressing
<1>16. SlotsHold' /\ PageOfInquiry'
  <2>1. slot'[me].state # "off" /\ o # 0 /\ This' = me
    BY <1>0, <1>1, <1>5, <1>15
  <2> QED BY <1>0, <1>1, <1>11, <1>15, <2>1 DEF OwnedInv, SlotsHold, PageOfInquiry, NoSlot, Begun, Addressing, Configuring, Using, Inquiring
<1>17. RingsAhead'
  BY <1>0, <1>8, <1>10, <1>11, <1>15 DEF RingsAhead, Record, This, Addressing, Configuring
<1> QED BY <1>1, <1>11, <1>14, <1>15, <1>16, <1>17, SameSlots DEF OwnedInv, SlotsStay

LEMMA ConfigureEndpointKeeps == OwnedInv /\ ConfigureEndpoint => OwnedInv'
<1> SUFFICES ASSUME OwnedInv, ConfigureEndpoint PROVE OwnedInv'
  OBVIOUS
<1>0. /\ thread.at = "configure" /\ free # {} /\ This \in Slots /\ dcbaa[This] # 0
      /\ slot[This].state # "off" /\ DataTypes
  BY DEF ConfigureEndpoint, OwnedInv, SlotsHold, NoSlot, Configuring
<1> PICK me \in Slots : me = This
  BY <1>0
<1> PICK a \in ToDo, b \in ToDo : todo \in {<<a>>, <<a, b>>}
  BY <1>0 DEF OwnedInv, RingsAhead, Configuring
<1> DEFINE id == EndpointId(a.endpoint)
           q == Lowest(free)
           rings == WithRing(device[me].transfer, id, q)
           record == [device[me] EXCEPT !.transfer = rings]
           N == {<<me, id, q>>}
<1>1. /\ todo[1] = a /\ 1 \in DOMAIN todo /\ Endpoint = a.endpoint
      /\ Len(todo) > 1 => todo = <<a, b>> /\ todo[2] = b /\ DOMAIN todo = {1, 2} /\ Tail(todo) = <<b>>
  <2>1. CASE todo = <<a>>
    BY <2>1 DEF Endpoint
  <2>2. CASE todo = <<a, b>>
    BY <2>2 DEF Endpoint
  <2> QED BY <2>1, <2>2
<1>2. /\ id \in Nat \ DOMAIN device[me].transfer
      /\ Len(todo) > 1 => EndpointId(b.endpoint) \in Nat \ DOMAIN device[me].transfer /\ EndpointId(b.endpoint) # id
      /\ Len(todo) > 1 => b.fails \in Int
  BY <1>0, <1>1 DEF OwnedInv, RingsAhead, Record, This, Configuring
<1>3. q \in free /\ q \in Nat \ {0} /\ free' = free \ {q}
  BY <1>0, LowestIn DEF DataTypes, ConfigureEndpoint
<1> HIDE DEF q
<1>4. /\ device[me] \in RecordType /\ device[me].transfer \in Rings
      /\ device[me].context = record.context /\ device[me].persistent = record.persistent
  BY <1>0 DEF DataTypes, RecordType
<1>5. rings \in Rings /\ rings[id] = q /\ \A e \in DOMAIN device[me].transfer : rings[e] = device[me].transfer[e]
  <2> DEFINE old == device[me].transfer
  <2> HIDE DEF old, id
  <2>1. old \in Rings /\ id \in Nat /\ id \notin DOMAIN old /\ q \in Nat
    BY <1>2, <1>3, <1>4 DEF old, id
  <2>2. WithRing(old, id, q) \in Rings /\ WithRing(old, id, q)[id] = q
    BY <2>1, WithRingType, ZenonT(40)
  <2>3. \A e \in DOMAIN old : e # id => WithRing(old, id, q)[e] = old[e]
    BY <2>1, WithRingType
  <2> QED BY <2>1, <2>2, <2>3 DEF old, id
<1>6. DOMAIN rings = DOMAIN device[me].transfer \cup {id}
  BY DEF WithRing
<1>7. device' = [device EXCEPT ![me] = record]
  <2>1. device' = [device EXCEPT ![me].transfer = WithRing(@, id, q)]
    BY <1>1 DEF ConfigureEndpoint, This, q
  <2> QED BY <2>1, <1>0 DEF DataTypes
<1> HIDE DEF rings
<1>8. record \in RecordType /\ record.transfer = rings
  BY <1>4, <1>5 DEF RecordType
<1> HIDE DEF record
<1>9. UNCHANGED <<usb, owned, lost, dcbaa, page>>
  BY DEF ConfigureEndpoint, world
<1>10. /\ DataTypes' /\ dcbaa'[me] = dcbaa[me] /\ device'[me] = record
       /\ \A t, e, p : t # me => (UseOf(t, e, p)' <=> UseOf(t, e, p))
  <2>1. dcbaa' = [dcbaa EXCEPT ![me] = dcbaa[me]] /\ dcbaa[me] \in Nat
    BY <1>0, <1>9 DEF DataTypes
  <2>2. RecordTo(me, dcbaa[me], record)
    BY <1>3, <1>7, <1>8, <1>9, <2>1 DEF RecordTo
  <2> QED BY <1>0, <2>2, RecordChanges
<1>11. Gains(N)
  <2>1. ASSUME NEW s, NEW e, NEW p PROVE Use(s, e, p)' <=> Use(s, e, p) \/ <<s, e, p>> \in N
    <3>1. CASE s = me
      <4>1. UseOf(s, e, p)' <=> UseOf(s, e, p) \/ (e = id /\ p = q)
        BY <1>0, <1>2, <1>4, <1>5, <1>6, <1>8, <1>9, <1>10, <3>1 DEF UseOf
      <4>2. <<s, e, p>> \in N <=> e = id /\ p = q
        BY <3>1
      <4> HIDE DEF N
      <4> QED BY <1>3, <1>9, <4>1, <4>2 DEF Use
    <3>2. CASE s # me
      <4>1. UseOf(s, e, p)' <=> UseOf(s, e, p)
        BY <1>10, <3>2
      <4>2. <<s, e, p>> \notin N
        BY <3>2
      <4> QED BY <1>9, <4>1, <4>2 DEF Use
    <3> QED BY <3>1, <3>2
  <2>2. \A p : (\E s, e : <<s, e, p>> \in N) <=> p = q
    <3>1. <<me, id, q>> \in N
      OBVIOUS
    <3>2. \A s, e, p : <<s, e, p>> \in N => p = q
      OBVIOUS
    <3> QED BY <3>1, <3>2
  <2>3. \A s, e, t, f, p : <<s, e, p>> \in N /\ <<t, f, p>> \in N => s = t /\ e = f
    OBVIOUS
  <2>4. \A s, e, p : <<s, e, p>> \in N => p \in free
    BY <1>3
  <2> HIDE DEF N
  <2>5. \A p : p \in free' <=> p \in free /\ ~ \E s, e : <<s, e, p>> \in N
    BY <1>3, <2>2
  <2> QED BY <1>9, <2>1, <2>3, <2>4, <2>5, Zenon DEF Gains
<1>12. OneUse' /\ LostForGood'
  BY <1>11, GainsKeep DEF OwnedInv
<1> DEFINE trb == ConfigureEndpointTrb(thread.slot, InputContext(device'[thread.slot], Endpoint))
<1>13. trb.type = "configure_endpoint"
  BY DEF ConfigureEndpointTrb
<1>14. /\ Command(trb, AfterConfigured, Head(todo).fails)
       /\ todo' = IF thread'.at = "port" THEN todo ELSE Tail(todo)
  BY DEF ConfigureEndpoint, Configure
<1> HIDE DEF trb
<1>15. CASE slot' = [slot EXCEPT ![thread.slot] = Obeyed(@, trb)] /\ Go(AfterConfigured) /\ UNCHANGED answer
  <2>1. SlotsStay
    BY <1>0, <1>13, <1>15, ObeyedStays DEF Obeys, OwnedInv, This
  <2>2. AfterConfigured \in {"configure", "listen", "lun"} /\ (AfterConfigured = "configure" <=> Len(todo) > 1)
    BY DEF AfterConfigured
  <2>3. AfterConfigured \in Positions /\ Onward(AfterConfigured)
    BY <1>0, <1>15, <2>2, GoIsOnward DEF Positions, Configuring, Using
  <2>4. /\ ThreadTypes' /\ PortsAhead' /\ thread'.at = AfterConfigured /\ This' = This /\ FewLost'
    BY <1>9, <2>3, OnwardKeeps DEF OwnedInv
  <2>5. SlotsHold'
    BY <1>0, <1>9, <2>1, <2>2, <2>4 DEF OwnedInv, SlotsHold, SlotsStay, NoSlot, Begun, Addressing, Configuring, Using, Inquiring
  <2>6. PageOfInquiry'
    BY <1>0, <1>9, <2>2, <2>4 DEF OwnedInv, PageOfInquiry, Inquiring
  <2>7. RingsAhead'
    <3>1. CASE AfterConfigured = "configure"
      <4>1. todo' = <<b>> /\ DOMAIN todo' = {1} /\ todo'[1] = b
        BY <1>1, <1>14, <2>2, <2>4, <3>1
      <4>2. Record' = record
        BY <1>10, <2>4 DEF Record, This
      <4>3. EndpointId(b.endpoint) \in Nat \ DOMAIN record.transfer /\ b.fails \in Int
        BY <1>2, <1>6, <1>8, <2>2, <3>1
      <4> QED BY <2>4, <3>1, <4>1, <4>2, <4>3 DEF RingsAhead, ToDo, Addressing, Configuring
    <3>2. CASE AfterConfigured # "configure"
      BY <2>2, <2>4, <3>2 DEF RingsAhead, Addressing, Configuring
    <3> QED BY <3>1, <3>2
  <2> QED BY <1>10, <1>12, <2>1, <2>4, <2>5, <2>6, <2>7 DEF OwnedInv, SlotsStay
<1>16. CASE Answer(Head(todo).fails) /\ UNCHANGED slot
  <2>0. Head(todo).fails \in Int
    BY <1>0, <1>1 DEF OwnedInv, RingsAhead, Configuring
  <2>1. Ended(Head(todo).fails) /\ SlotsStay
    BY <1>0, <1>16, <2>0, SameSlots DEF Ended, OwnedInv
  <2>2. /\ ThreadTypes' /\ PortsAhead' /\ thread'.at = "port" /\ This' = This /\ FewLost'
    BY <1>0, <1>9, <2>1, EndedKeeps DEF OwnedInv, DataTypes
  <2>3. SlotsHold' /\ RingsAhead' /\ PageOfInquiry'
    BY <1>0, <1>9, <1>16, <2>2 DEF OwnedInv, SlotsHold, RingsAhead, PageOfInquiry, NoSlot, Begun, Addressing, Configuring, Using, Inquiring
  <2> QED BY <1>10, <1>12, <2>1, <2>2, <2>3 DEF OwnedInv, SlotsStay
<1> QED BY <1>14, <1>15, <1>16 DEF Command

LEMMA GetBufferKeeps == OwnedInv /\ GetBuffer => OwnedInv'
<1> SUFFICES ASSUME OwnedInv, GetBuffer PROVE OwnedInv'
  OBVIOUS
<1> DEFINE q == Lowest(free)
           N == {<<0, -4, q>>}
<1>1. /\ thread.at = "buffer" /\ thread.at # "port" /\ Onward("inquiry")
      /\ UNCHANGED <<usb, owned, lost, dcbaa, device, slot, todo>>
      /\ page' = q /\ free' = free \ {q}
  BY GoIsOnward DEF GetBuffer, world, tables
<1>2. page = 0
  BY <1>1 DEF OwnedInv, PageOfInquiry, Inquiring
<1>3. q \in free /\ q \in Nat \ {0}
  BY LowestIn DEF GetBuffer, OwnedInv, DataTypes
<1> HIDE DEF q
<1>4. DataTypes'
  BY <1>1, <1>3 DEF OwnedInv, DataTypes
<1>5. Gains(N)
  <2>1. ASSUME NEW s, NEW e, NEW p PROVE Use(s, e, p)' <=> Use(s, e, p) \/ <<s, e, p>> \in N
    <3>1. UseOf(s, e, p)' <=> UseOf(s, e, p)
      BY <1>1 DEF UseOf
    <3>2. <<s, e, p>> \in N <=> s = 0 /\ e = -4 /\ p = q
      OBVIOUS
    <3> HIDE DEF N
    <3> QED BY <1>1, <1>2, <1>3, <3>1, <3>2 DEF Use
  <2>2. \A p : (\E s, e : <<s, e, p>> \in N) <=> p = q
    <3>1. <<0, -4, q>> \in N
      OBVIOUS
    <3>2. \A s, e, p : <<s, e, p>> \in N => p = q
      OBVIOUS
    <3> QED BY <3>1, <3>2
  <2>3. \A s, e, t, f, p : <<s, e, p>> \in N /\ <<t, f, p>> \in N => s = t /\ e = f
    OBVIOUS
  <2>4. \A s, e, p : <<s, e, p>> \in N => p \in free
    BY <1>3
  <2> HIDE DEF N
  <2>5. \A p : p \in free' <=> p \in free /\ ~ \E s, e : <<s, e, p>> \in N
    BY <1>1, <1>3, <2>2
  <2> QED BY <1>1, <2>1, <2>3, <2>4, <2>5, Zenon DEF Gains
<1>6. OneUse' /\ LostForGood'
  BY <1>5, GainsKeep DEF OwnedInv
<1>7. /\ ThreadTypes' /\ PortsAhead' /\ thread'.at = "inquiry" /\ This' = This /\ FewLost'
  BY <1>1, OnwardKeeps DEF OwnedInv, Positions, Using, Inquiring
<1>8. SlotsHold' /\ RingsAhead' /\ PageOfInquiry'
  BY <1>1, <1>3, <1>7 DEF OwnedInv, SlotsHold, RingsAhead, PageOfInquiry, NoSlot, Begun, Addressing, Configuring, Using, Inquiring
<1> QED BY <1>1, <1>4, <1>6, <1>7, <1>8, SameSlots DEF OwnedInv, SlotsStay

(* The page of the inquiry goes, with the answer for the port.              *)
LEMMA ReturnKeeps ==
  ASSUME OwnedInv, Returns, NEW code \in Int, Ended(code), UNCHANGED <<usb, slot>>,
         UNCHANGED lost \/ code \in {7, 8}
  PROVE  OwnedInv'
<1>1. OneUse' /\ LostForGood'
  BY ReturnsKeep DEF OwnedInv
<1>2. UNCHANGED <<dcbaa, device>> /\ page' = 0
  BY DEF Returns, tables
<1>3. DataTypes'
  <2>1. IsFiniteSet(lost \cup {page})
    BY FS_AddElement DEF OwnedInv, DataTypes
  <2>2. IsFiniteSet(lost')
    BY <2>1 DEF Returns, OwnedInv, DataTypes
  <2>3. page \in Nat \ {0}
    BY DEF Returns, OwnedInv, DataTypes
  <2>4. free' \subseteq Nat \ {0}
    BY <2>3 DEF Returns, OwnedInv, DataTypes
  <2> QED BY <1>2, <2>2, <2>4 DEF OwnedInv, DataTypes
<1>4. UNCHANGED lost \/ (code \in {7, 8} /\ \E q : lost' = lost \cup {q})
  BY DEF Returns
<1>5. /\ ThreadTypes' /\ PortsAhead' /\ thread'.at = "port" /\ This' = This /\ FewLost'
  BY <1>4, EndedKeeps DEF OwnedInv, DataTypes
<1>6. SlotsHold' /\ RingsAhead' /\ PageOfInquiry'
  BY <1>2, <1>5 DEF OwnedInv, SlotsHold, RingsAhead, PageOfInquiry, NoSlot, Begun, Addressing, Configuring, Using, Inquiring
<1> QED BY <1>1, <1>3, <1>5, <1>6, SameSlots DEF OwnedInv, SlotsStay

LEMMA InquireKeeps ==
  ASSUME OwnedInv, NEW at \in Inquiring, NEW next \in Inquiring, NEW code \in {7, 8}, Inquire(at, next, code)
  PROVE  OwnedInv'
<1>1. /\ thread.at = at /\ at # "port" /\ page # 0 /\ Alike(at, next)
      /\ UNCHANGED <<usb, owned, free, dcbaa, device, slot, todo>>
  BY DEF Inquire, world, tables, OwnedInv, PageOfInquiry, Inquiring, Alike
<1>2. CASE Go(next) /\ UNCHANGED <<answer, page, lost>>
  BY <1>1, <1>2, GoIsOnward, SameSlots, QuietOnward DEF Quiet, OwnedInv
<1>3. CASE Answer(code) /\ lost' = lost \cup {page} /\ page' = 0
  <2>1. Ended(code) /\ Returns /\ code \in Int
    BY <1>1, <1>3 DEF Ended, Returns, tables
  <2> QED BY <1>1, <2>1, ReturnKeeps
<1> QED BY <1>2, <1>3 DEF Inquire

LEMMA InsertDiskKeeps == OwnedInv /\ InsertDisk => OwnedInv'
<1> SUFFICES ASSUME OwnedInv, InsertDisk PROVE OwnedInv'
  OBVIOUS
<1>1. Ended(0) /\ Returns /\ UNCHANGED <<usb, slot, lost>>
  BY DEF InsertDisk, world, tables, OwnedInv, PageOfInquiry, Inquiring, Ended, Returns
<1> QED BY <1>1, ReturnKeeps

-----------------------------------------------------------------------------
LEMMA OwnedInit == Init => OwnedInv
<1> SUFFICES ASSUME Init PROVE OwnedInv
  OBVIOUS
<1>1. PICK n \in 0 .. Cardinality(Pages) : free = 1 .. n
  BY DEF Init
<1>2. Cardinality(Pages) \in Nat
  BY FS_CardinalityType, EnumerationAssumption
<1>3. free \subseteq Nat \ {0} /\ IsFiniteSet({}) /\ Cardinality({}) = 0
  BY <1>1, <1>2, FS_EmptySet
<1>4. NoDevice \in RecordType
  <2>1. NoPort \in Int /\ "none" \in Speeds
    BY DEF NoPort, Speeds
  <2> QED BY <2>1, NoRings DEF NoDevice, RecordType
<1>5. DataTypes
  BY <1>3, <1>4 DEF Init, DataTypes
<1>6. SlotTypes
  BY DEF Init, SlotTypes, SlotOff, SlotFields
<1>7. ThreadTypes /\ PortsAhead
  BY EnumerationAssumption DEF Init, ThreadTypes, PortsAhead, Positions, NoSlot, NotAsked, NoPort
<1>8. SlotsHold /\ RingsAhead /\ PageOfInquiry /\ LostForGood
  BY DEF Init, SlotsHold, RingsAhead, PageOfInquiry, LostForGood, NoSlot, Begun, Addressing, Configuring, Using, Inquiring
<1>9. OneUse
  <2>1. ASSUME NEW s, NEW e, NEW p PROVE ~Use(s, e, p)
    BY DEF Init, Use, UseOf
  <2> QED BY <2>1 DEF Init, OneUse
<1>10. FewLost
  <2>1. IsFiniteSet(Answered)
    BY FS_Subset, EnumerationAssumption DEF Answered
  <2>2. Cardinality(Answered) \in Nat
    BY <2>1, FS_CardinalityType
  <2> QED BY <1>3, <2>2 DEF Init, FewLost
<1> QED BY <1>5, <1>6, <1>7, <1>8, <1>9, <1>10 DEF OwnedInv

LEMMA OwnedStep == OwnedInv /\ [Next]_vars => OwnedInv'
<1> SUFFICES ASSUME OwnedInv, [Next]_vars PROVE OwnedInv'
  OBVIOUS
<1>1. CASE UNCHANGED vars
  <2>1. Quiet /\ UNCHANGED <<slot, thread, todo, answer>>
    BY <1>1 DEF vars, world, memory, tables, Quiet
  <2>2. /\ SlotTypes' /\ ThreadTypes' /\ PortsAhead' /\ SlotsHold' /\ RingsAhead'
        /\ PageOfInquiry' /\ FewLost'
    BY <2>1 DEF OwnedInv, SlotTypes, ThreadTypes, PortsAhead, SlotsHold, RingsAhead, ToDo, PageOfInquiry,
                FewLost, Answered, Quiet, This, Record
  <2> QED BY <2>1, <2>2, QuietData DEF OwnedInv
<1>2. CASE NextPort \/ EnableSlot \/ SetUp \/ TooFewPages \/ DisableSlot
  BY <1>2, NextPortKeeps, EnableSlotKeeps, SetUpKeeps, TooFewPagesKeeps, DisableSlotKeeps
<1>3. CASE NoControlRing \/ NoEndpointRing \/ NoBuffer
  BY <1>3, PanicKeeps DEF NoControlRing, NoEndpointRing, NoBuffer, Begun, Configuring, Using, Inquiring
<1>4. CASE AddressDevice \/ EvaluateContext
  BY <1>4, AddressDeviceKeeps, EvaluateContextKeeps
<1>5. CASE FirstDescriptor \/ Descriptors \/ SetConfiguration \/ BootProtocol \/ AskDisk \/ Request("reset", "enable", 1)
  BY <1>5, TransfersKeep
<1>6. CASE WalkDescriptors \/ ChooseClass \/ ConfigureEndpoint \/ ListenForKeys
  BY <1>6, WalkKeeps, ChooseClassKeeps, ConfigureEndpointKeeps, ListenKeeps
<1>7. CASE GetBuffer \/ InsertDisk
  BY <1>7, GetBufferKeeps, InsertDiskKeeps
<1>8. CASE Inquire("inquiry", "capacity", 7) \/ Inquire("capacity", "insert", 8)
  BY <1>8, InquireKeeps DEF Inquiring
<1> QED BY <1>1, <1>2, <1>3, <1>4, <1>5, <1>6, <1>7, <1>8 DEF Next

(* No page of the enumeration has two uses, or one while it is free, and    *)
(* none gets lost but the one of an inquiry that failed, for any number of  *)
(* ports, slots and pages, and any devices.                                 *)
THEOREM PagesStayOwned == Spec => []PagesOwned
<1>1. OwnedInv => PagesOwned
  BY OwnedIs DEF OwnedInv
<1> QED BY <1>1, OwnedInit, OwnedStep, PTL DEF Spec

-----------------------------------------------------------------------------
(* The contexts.  What the driver, the controller and the device have of a  *)
(* slot, wherever the thread is.                                            *)
ContextFields == {"type", "interval", "mps", "average", "ring"}

Described(s, e) ==
  \E i \in DOMAIN Behind(s).conf.DATA :
    LET d == Behind(s).conf.DATA[i] c == Given(s)[e]
    IN  /\ d.TYPE = "endpoint" /\ EndpointId(d) = e /\ c.mps = d.MPSZ
        /\ XferType(d) = InterruptType =>
             /\ 2 ^ c.interval <= Period(Behind(s).speed, d)
             /\ Period(Behind(s).speed, d) < 2 * 2 ^ c.interval

(* A slot the controller knows is at a port the thread has come to, with    *)
(* the rings of its record, and with the endpoints of its device.           *)
SlotKnown(s) ==
  /\ slot[s].state \in {"off", "enabled", "addressed", "configured"}
  /\ Given(s) = [e \in DOMAIN Given(s) |-> Given(s)[e]]
  /\ s \notin Known => DOMAIN Given(s) = {}
  /\ s \in Known => /\ 1 \in DOMAIN Given(s) /\ slot[s].root \in Present
                    /\ slot[s].root <= thread.port /\ slot[s].speed = Behind(s).speed
  /\ slot[s].state = "addressed" => DOMAIN Given(s) = {1}
  /\ slot[s].state = "configured" => Given(s)[1].mps = Reported(Behind(s))
  /\ \A e \in DOMAIN Given(s) :
       /\ DOMAIN Given(s)[e] = ContextFields
       /\ e \in DOMAIN device[s].transfer /\ Given(s)[e].ring = device[s].transfer[e]
       /\ e # 1 => Described(s, e)

(* The slot the thread works on is the only one at its port.                *)
Told == (Addressing \ {"address"}) \cup Configuring \cup Using
Sized == Told \ {"desc8", "evaluate"}
Chosen == Configuring \cup Using

RootsApart ==
  /\ \A s, r \in Known : slot[s].root = slot[r].root => s = r
  /\ \A s \in Known : slot[s].root = thread.port /\ thread.at # "port" =>
       s = This /\ thread.at \in Told \cup {"panic"}

SlotAtHand ==
  /\ thread.at # "port" => thread.port \in Present
  /\ thread.at \in Begun \cup {"address"} => slot[This].state = "enabled"
  /\ thread.at \in Told => This \in Known /\ slot[This].root = thread.port
  /\ thread.at \in Addressing \ {"address"} => slot[This].state = "addressed"
  /\ thread.at \in Addressing \cup Chosen => Record.port = thread.port - 1 /\ Record.speed = Here.speed
  /\ thread.at = "desc8" => Given(This)[1].mps = InitialMps(Here.speed)
  /\ thread.at \in Sized => Given(This)[1].mps = Reported(Here)

(* What the device was asked, and which endpoints there are to configure.   *)
UnitsTyped ==
  /\ unit = [p \in Ports |-> unit[p]]
  /\ \A p \in Ports : unit[p] = [addressed |-> unit[p].addressed, configuration |-> unit[p].configuration,
                                 booting |-> unit[p].booting]

Has(s, d) == EndpointId(d) \in DOMAIN Given(s)
Boots(s) == Interface(Behind(s))[1].IFCN \in unit[slot[s].root].booting
HasDisk(s) == \A dir \in {In, Out} : Has(s, UsbSearchEndpoint(Behind(s).conf, BulkType, dir)[1])
HasKeys(s) == \E e \in DOMAIN Given(s) : Given(s)[e].type = 7

DeviceAtHand ==
  /\ thread.at \in {"class"} \cup Chosen => unit[thread.port].configuration = Here.conf.CNFV
  /\ thread.at \in Configuring =>
       \/ /\ Keyboard /\ KeyEndpoint # <<>>
          /\ todo = <<[endpoint |-> KeyEndpoint[1], fails |-> 1]>>
          /\ thread.at # "protocol" => Boots(This)
       \/ /\ thread.at = "configure" /\ ~Keyboard /\ DiskIn # <<>> /\ DiskOut # <<>>
          /\ \/ todo = <<[endpoint |-> DiskIn[1], fails |-> 3], [endpoint |-> DiskOut[1], fails |-> 4]>>
             \/ todo = <<[endpoint |-> DiskOut[1], fails |-> 4]>> /\ Has(This, DiskIn[1])
  /\ thread.at = "listen" => Boots(This) /\ HasKeys(This)
  /\ thread.at \in Using \ {"listen"} => HasDisk(This)

(* The keyboard and the disks in use have all they need, and the thread is  *)
(* done with them.                                                          *)
InUse(s) ==
  /\ s \in Known /\ (slot[s].root = thread.port => thread.at = "port")
  /\ unit[slot[s].root].configuration = Behind(s).conf.CNFV

UsersKnown ==
  /\ \A s \in input.disks : InUse(s) /\ HasDisk(s)
  /\ \A s \in {input.keyboard} \ {0} : InUse(s) /\ HasKeys(s) /\ Boots(s)

AgreeInv ==
  /\ \A s \in Slots : SlotKnown(s)
  /\ RootsApart /\ SlotAtHand /\ UnitsTyped /\ DeviceAtHand /\ UsersKnown

-----------------------------------------------------------------------------
(* How often an endpoint is polled.                                         *)
Power(n) == 2 ^ n

LEMMA Powers ==
  /\ Power(0) = 1 /\ Power(1) = 2 /\ Power(2) = 4 /\ Power(3) = 8 /\ Power(4) = 16 /\ Power(5) = 32
  /\ Power(6) = 64 /\ Power(7) = 128 /\ Power(8) = 256 /\ Power(9) = 512 /\ Power(10) = 1024
  /\ Power(11) = 2048 /\ Power(12) = 4096 /\ Power(13) = 8192 /\ Power(14) = 16384 /\ Power(15) = 32768
BY DEF Power

Periods == 8 .. 2047
Fits(n, v) == n \in 3 .. 10 /\ Power(n) <= v /\ v < 2 * Power(n)

LEMMA ExponentOf ==
  ASSUME NEW v \in Periods
  PROVE  Fits(Exponent(v), v)
<1> DEFINE P(n) == Power(n) <= v /\ v < Power(n + 1)
<1>0. v \in Nat /\ 8 <= v /\ v <= 2047
  BY DEF Periods
<1>1. \E n \in 0 .. 11 : P(n)
  <2>1. CASE v < 16
    <3>1. 3 \in 0 .. 11 /\ P(3)
      BY <1>0, <2>1, Powers
    <3> QED BY <3>1
  <2>2. CASE v >= 16 /\ v < 32
    <3>1. 4 \in 0 .. 11 /\ P(4)
      BY <1>0, <2>2, Powers
    <3> QED BY <3>1
  <2>3. CASE v >= 32 /\ v < 64
    <3>1. 5 \in 0 .. 11 /\ P(5)
      BY <1>0, <2>3, Powers
    <3> QED BY <3>1
  <2>4. CASE v >= 64 /\ v < 128
    <3>1. 6 \in 0 .. 11 /\ P(6)
      BY <1>0, <2>4, Powers
    <3> QED BY <3>1
  <2>5. CASE v >= 128 /\ v < 256
    <3>1. 7 \in 0 .. 11 /\ P(7)
      BY <1>0, <2>5, Powers
    <3> QED BY <3>1
  <2>6. CASE v >= 256 /\ v < 512
    <3>1. 8 \in 0 .. 11 /\ P(8)
      BY <1>0, <2>6, Powers
    <3> QED BY <3>1
  <2>7. CASE v >= 512 /\ v < 1024
    <3>1. 9 \in 0 .. 11 /\ P(9)
      BY <1>0, <2>7, Powers
    <3> QED BY <3>1
  <2>8. CASE v >= 1024
    <3>1. 10 \in 0 .. 11 /\ P(10)
      BY <1>0, <2>8, Powers
    <3> QED BY <3>1
  <2> HIDE DEF P
  <2> QED BY <1>0, <2>1, <2>2, <2>3, <2>4, <2>5, <2>6, <2>7, <2>8
<1>2. Exponent(v) = CHOOSE n \in 0 .. 11 : P(n)
  BY DEF Exponent, Power
<1>3. Exponent(v) \in 0 .. 11 /\ P(Exponent(v))
  <2> HIDE DEF P
  <2> QED BY <1>1, <1>2
<1>4. ASSUME NEW n \in 0 .. 11, P(n)
      PROVE  Fits(n, v)
  <2>1. n \notin {0, 1, 2, 11}
    <3>1. n = 0 => v < 2
      BY <1>4, Powers
    <3>2. n = 1 => v < 4
      BY <1>4, Powers
    <3>3. n = 2 => v < 8
      BY <1>4, Powers
    <3>4. n = 11 => v >= 2048
      BY <1>4, Powers
    <3> HIDE DEF P
    <3> QED BY <1>0, <3>1, <3>2, <3>3, <3>4
  <2>2. n = 3 \/ n = 4 \/ n = 5 \/ n = 6 \/ n = 7 \/ n = 8 \/ n = 9 \/ n = 10
    BY <2>1
  <2>3. Power(n + 1) = 2 * Power(n)
    BY <2>2, Powers
  <2> QED BY <1>4, <2>2, <2>3 DEF Fits
<1> HIDE DEF P
<1> QED BY <1>3, <1>4

(* The interval in the context is the longest one within the period that    *)
(* the descriptor asks for.                                                 *)
LEMMA PolledInTime ==
  ASSUME NEW speed, NEW d, d.ITVL \in 1 .. IF Slow(speed) THEN 255 ELSE 16
  PROVE  2 ^ Interval(speed, d) <= Period(speed, d) /\ Period(speed, d) < 2 * 2 ^ Interval(speed, d)
<1> DEFINE t == d.ITVL
<1>1. CASE Slow(speed)
  <2>1. t \in 1 .. 255
    BY <1>1
  <2>2. 8 * t \in 8 .. 2047 /\ t # 0
    <3> HIDE DEF t
    <3> QED BY <2>1
  <2> DEFINE v == 8 * t
             e == Exponent(v)
  <2>3. Period(speed, d) = v
    BY <1>1 DEF Period
  <2>4. Interval(speed, d) = IF e < 3 THEN 3 ELSE IF e > 10 THEN 10 ELSE e
    BY <1>1, <2>2 DEF Interval
  <2>5. e \in 3 .. 10 /\ Power(e) <= v /\ v < 2 * Power(e)
    <3>1. v \in Periods
      BY <2>2 DEF Periods
    <3>2. Fits(e, v)
      <4> HIDE DEF v
      <4> QED BY <3>1, ExponentOf
    <3> HIDE DEF e, v
    <3> QED BY <3>2 DEF Fits
  <2>6. Interval(speed, d) = e
    <3> HIDE DEF e
    <3> QED BY <2>4, <2>5
  <2> HIDE DEF e, v
  <2> QED BY <2>3, <2>5, <2>6 DEF Power
<1>2. CASE ~Slow(speed)
  <2>1. t \in 1 .. 16
    BY <1>2
  <2>2. t # 0
    BY <2>1
  <2>3. Period(speed, d) = Power(t - 1) /\ Interval(speed, d) = t - 1
    BY <1>2, <2>2 DEF Period, Interval, Power
  <2>4. ASSUME NEW n \in 0 .. 15 PROVE Power(n) \in Nat \ {0}
    <3>1. n = 0 \/ n = 1 \/ n = 2 \/ n = 3 \/ n = 4 \/ n = 5 \/ n = 6 \/ n = 7 \/ n = 8 \/ n = 9 \/ n = 10
          \/ n = 11 \/ n = 12 \/ n = 13 \/ n = 14 \/ n = 15
      OBVIOUS
    <3> QED BY <3>1, Powers
  <2>5. t - 1 \in 0 .. 15
    <3> HIDE DEF t
    <3> QED BY <2>1
  <2>6. Power(t - 1) \in Nat \ {0}
    BY <2>4, <2>5
  <2>7. ASSUME NEW x \in Nat \ {0} PROVE x <= x /\ x < 2 * x
    OBVIOUS
  <2>8. Power(t - 1) <= Power(t - 1) /\ Power(t - 1) < 2 * Power(t - 1)
    BY <2>6, <2>7
  <2> QED BY <2>3, <2>8 DEF Power
<1> QED BY <1>1, <1>2

-----------------------------------------------------------------------------
(* A slot the step does not change, whose record loses no ring.             *)
SlotStays(s) ==
  /\ slot'[s] = slot[s] /\ usb' = usb
  /\ thread'.port \in Nat /\ thread.port <= thread'.port
  /\ \A e \in DOMAIN device[s].transfer :
       e \in DOMAIN device'[s].transfer /\ device'[s].transfer[e] = device[s].transfer[e]

LEMMA SlotStaysKnown ==
  ASSUME NEW s \in Slots, SlotKnown(s), SlotStays(s), thread.port \in Nat
  PROVE  SlotKnown(s)' /\ (s \in Known <=> s \in Known')
<1>1. slot'[s] = slot[s] /\ usb' = usb
  BY DEF SlotStays
<1>2. (s \in Known <=> s \in Known') /\ Given(s)' = Given(s) /\ Behind(s)' = Behind(s) /\ Present' = Present
  BY <1>1 DEF Known, Given, Behind, Present
<1>3. s \in Known => slot'[s].root <= thread'.port
  <2> SUFFICES ASSUME s \in Known PROVE slot'[s].root <= thread'.port
    OBVIOUS
  <2> DEFINE r == slot[s].root
             p == thread.port
  <2>1. r \in Nat /\ r <= p /\ p \in Nat
    BY EnumerationAssumption DEF SlotKnown, Present
  <2>2. ASSUME NEW q, q \in Nat, p <= q PROVE r <= q
    <3> HIDE DEF r, p
    <3> QED BY <2>1, <2>2
  <2> QED BY <1>1, <2>2 DEF SlotStays
<1>4. \A e : Described(s, e) => Described(s, e)'
  BY <1>2 DEF Described
<1>5. \A e \in DOMAIN Given(s)' :
        /\ DOMAIN Given(s)'[e] = ContextFields
        /\ e \in DOMAIN device'[s].transfer /\ Given(s)'[e].ring = device'[s].transfer[e]
        /\ e # 1 => Described(s, e)'
  BY <1>2, <1>4 DEF SlotKnown, SlotStays
<1> QED BY <1>1, <1>2, <1>3, <1>5 DEF SlotKnown

LEMMA SlotsStayKnown ==
  ASSUME \A s \in Slots : SlotKnown(s), \A s \in Slots : SlotStays(s), thread.port \in Nat
  PROVE  /\ \A s \in Slots : SlotKnown(s)'
         /\ Known' = Known
         /\ \A s \in Known : slot'[s] = slot[s] /\ Given(s)' = Given(s) /\ Behind(s)' = Behind(s)
<1>1. \A s \in Slots : SlotKnown(s)' /\ (s \in Known <=> s \in Known')
  BY SlotStaysKnown
<1>2. Known' = Known
  BY <1>1 DEF Known
<1>3. \A s \in Known : slot'[s] = slot[s] /\ usb' = usb
  BY DEF Known, SlotStays
<1> QED BY <1>1, <1>2, <1>3 DEF Given, Behind

(* The step concerns the port the thread is at, and no device in use.       *)
OneUnit ==
  /\ UnitsTyped' /\ \A p \in Ports \ {thread.port} : unit'[p] = unit[p]

LEMMA UsersStay ==
  ASSUME \A s \in Slots : SlotKnown(s), UsersKnown, OneUnit, thread.at # "port", UNCHANGED <<usb, input>>,
         thread'.port = thread.port,
         \A s \in Known : slot[s].root # thread.port => slot'[s] = slot[s]
  PROVE  UsersKnown'
<1>1. ASSUME NEW s, InUse(s)
      PROVE  /\ InUse(s)' /\ (HasDisk(s) => HasDisk(s)') /\ (HasKeys(s) => HasKeys(s)')
             /\ slot'[s].root = slot[s].root /\ (Boots(s) => Boots(s)')
  <2>1. s \in Known /\ slot[s].root # thread.port /\ slot[s].root \in Ports
    BY <1>1 DEF InUse, Known, SlotKnown, Present
  <2>2. slot'[s] = slot[s] /\ usb' = usb /\ unit'[slot[s].root] = unit[slot[s].root]
    BY <2>1 DEF OneUnit
  <2>3. s \in Known' /\ Given(s)' = Given(s) /\ Behind(s)' = Behind(s)
    BY <2>1, <2>2 DEF Known, Given, Behind
  <2>4. InUse(s)'
    BY <1>1, <2>1, <2>2, <2>3 DEF InUse
  <2>5. (HasDisk(s) => HasDisk(s)') /\ (HasKeys(s) => HasKeys(s)')
    BY <2>3 DEF HasDisk, HasKeys, Has
  <2> QED BY <2>2, <2>3, <2>4, <2>5 DEF Boots
<1>2. \A s \in input'.disks : InUse(s)' /\ HasDisk(s)'
  BY <1>1 DEF UsersKnown
<1>3. \A s \in {input'.keyboard} \ {0} : InUse(s)' /\ HasKeys(s)' /\ Boots(s)'
  BY <1>1 DEF UsersKnown
<1> QED BY <1>2, <1>3 DEF UsersKnown

(* The thread is done with a port, ...                                      *)
LEMMA AtPort ==
  ASSUME thread'.at = "port", UnitsTyped'
  PROVE  SlotAtHand' /\ DeviceAtHand'
BY DEF SlotAtHand, DeviceAtHand, Told, Sized, Chosen, Begun, Addressing, Configuring, Using, Inquiring

LEMMA EndedAgrees ==
  ASSUME ThreadTypes, AgreeInv, \A s \in Slots : SlotStays(s), OneUnit, thread.at # "port", UNCHANGED input,
         thread'.at = "port", thread'.port = thread.port, usb' = usb
  PROVE  AgreeInv'
<1>1. /\ \A s \in Slots : SlotKnown(s)'
      /\ Known' = Known
      /\ \A s \in Known : slot'[s] = slot[s]
  BY SlotsStayKnown DEF AgreeInv, ThreadTypes
<1>2. UsersKnown'
  BY <1>1, UsersStay DEF AgreeInv
<1>3. RootsApart'
  BY <1>1 DEF AgreeInv, RootsApart
<1> QED BY <1>1, <1>2, <1>3, AtPort DEF AgreeInv, OneUnit

(* ... or goes on with it.                                                  *)
LEMMA OnwardAgrees ==
  ASSUME ThreadTypes, AgreeInv, \A s \in Slots : SlotStays(s), OneUnit, thread.at # "port", UNCHANGED input,
         thread'.port = thread.port, usb' = usb, thread'.slot = thread.slot,
         thread.at \in Told \cup {"panic"} => thread'.at \in Told \cup {"panic"},
         SlotAtHand', DeviceAtHand'
  PROVE  AgreeInv'
<1>1. /\ \A s \in Slots : SlotKnown(s)'
      /\ Known' = Known
      /\ \A s \in Known : slot'[s] = slot[s]
  BY SlotsStayKnown DEF AgreeInv, ThreadTypes
<1>2. UsersKnown'
  BY <1>1, UsersStay DEF AgreeInv
<1>3. RootsApart'
  BY <1>1 DEF AgreeInv, RootsApart, This
<1> QED BY <1>1, <1>2, <1>3 DEF AgreeInv, OneUnit

(* From one request or transfer to the next.                                *)
LEMMA ToldOn ==
  ASSUME SlotAtHand, thread.at \in Told, thread'.at \in Told \ {"desc8"},
         thread'.port = thread.port, thread'.slot = thread.slot, UNCHANGED <<usb, slot, device>>,
         thread'.at \in Addressing => thread.at \in Addressing,
         thread'.at \in Sized => thread.at \in Sized \/ Given(This)[1].mps = Reported(Here)
  PROVE  SlotAtHand'
<1>1. /\ This' = This /\ Here' = Here /\ Record' = Record /\ Known' = Known /\ Given(This)' = Given(This)
      /\ Present' = Present
  BY DEF This, Here, Record, Known, Given, Present
<1>2. thread.at # "port" /\ thread'.at \notin Begun \cup {"address"} /\ thread.at # "address"
  BY DEF Told, Begun, Addressing, Configuring, Using, Inquiring
<1>3. thread'.at \in Addressing \ {"address"} => thread.at \in Addressing \ {"address"}
  BY <1>2
<1>4. thread.at \in Addressing \cup Chosen
  BY DEF Told, Chosen
<1> QED BY <1>1, <1>2, <1>3, <1>4 DEF SlotAtHand

(* What a request on the control endpoint of the slot at hand changes.      *)
LEMMA ServeChanges ==
  ASSUME SlotAtHand, PortsAhead, UnitsTyped, thread.at \in Told, NEW setup, Serve(setup)
  PROVE  OneUnit /\ unit'[thread.port] = Served(unit[thread.port], setup)
<1>1. slot[thread.slot].root = thread.port /\ thread.port \in Ports
  BY DEF SlotAtHand, Told, Addressing, Configuring, Using, Inquiring, This, PortsAhead
<1>2. unit' = [unit EXCEPT ![thread.port] = Served(unit[thread.port], setup)]
  BY <1>1 DEF Serve
<1>3. /\ \A p \in Ports \ {thread.port} : unit'[p] = unit[p]
      /\ unit'[thread.port] = Served(unit[thread.port], setup)
      /\ unit' = [p \in Ports |-> unit'[p]]
  BY <1>1, <1>2 DEF UnitsTyped
<1>4. ASSUME NEW u, u = [addressed |-> u.addressed, configuration |-> u.configuration, booting |-> u.booting],
             NEW v, v = Served(u, setup)
      PROVE  v = [addressed |-> v.addressed, configuration |-> v.configuration, booting |-> v.booting]
  <2>1. CASE setup.REQU = "set_configuration"
    BY <1>4, <2>1 DEF Served
  <2>2. CASE setup.REQU = "set_protocol"
    BY <1>4, <2>2 DEF Served
  <2>3. CASE setup.REQU \notin {"set_configuration", "set_protocol"}
    BY <1>4, <2>3 DEF Served
  <2> QED BY <2>1, <2>2, <2>3
<1>5. \A p \in Ports : unit'[p] = [addressed |-> unit'[p].addressed, configuration |-> unit'[p].configuration,
                                   booting |-> unit'[p].booting]
  BY <1>1, <1>3, <1>4 DEF UnitsTyped
<1>6. UnitsTyped'
  BY <1>3, <1>5 DEF UnitsTyped
<1> QED BY <1>3, <1>6 DEF OneUnit

(* The slot at hand is another one to the controller, or has another record.*)
LEMMA ChangedAgrees ==
  ASSUME ThreadTypes, AgreeInv, thread.at # "port", thread'.port = thread.port, UNCHANGED <<usb, input>>, OneUnit,
         NEW me \in Slots, \A s \in Slots \ {me} : SlotStays(s), SlotKnown(me)',
         me \in Known => slot[me].root = thread.port,
         RootsApart', SlotAtHand', DeviceAtHand'
  PROVE  AgreeInv'
<1>1. \A s \in Slots : SlotKnown(s)'
  BY SlotStaysKnown DEF AgreeInv, ThreadTypes
<1>2. \A s \in Known : slot[s].root # thread.port => slot'[s] = slot[s]
  BY DEF Known, SlotStays
<1>3. UsersKnown'
  BY <1>2, UsersStay DEF AgreeInv
<1> QED BY <1>1, <1>3 DEF AgreeInv, OneUnit

(* Before it is told of the device, ...                                     *)
LEMMA RootsBegun ==
  ASSUME ThreadTypes, AgreeInv, thread.at \notin Told \cup {"panic", "port"}, thread'.port = thread.port,
         NEW me \in Slots, \A s \in Slots \ {me} : SlotStays(s), me \notin Known'
  PROVE  RootsApart'
<1>1. \A s \in Known' : s \in Known /\ slot'[s] = slot[s] /\ s \in Slots
  BY SlotStaysKnown DEF AgreeInv, ThreadTypes, Known, SlotStays
<1>2. \A s \in Known' : slot'[s].root # thread.port
  BY <1>1 DEF AgreeInv, RootsApart
<1> QED BY <1>1, <1>2 DEF AgreeInv, RootsApart

(* ... and after.                                                           *)
LEMMA RootsTold ==
  ASSUME ThreadTypes, AgreeInv, thread.at # "port", thread'.port = thread.port, thread'.slot = thread.slot,
         NEW me \in Slots, me = This, \A s \in Slots \ {me} : SlotStays(s),
         slot'[me].root = thread.port, thread'.at \in Told \cup {"port"}
  PROVE  RootsApart'
<1>1. \A s \in Known' \ {me} : s \in Known /\ slot'[s] = slot[s] /\ s \in Slots
  BY SlotStaysKnown DEF AgreeInv, ThreadTypes, Known, SlotStays
<1>2. \A s \in Known' \ {me} : slot'[s].root # thread.port
  BY <1>1 DEF AgreeInv, RootsApart
<1>3. This' = me
  BY DEF This
<1> QED BY <1>1, <1>2, <1>3 DEF AgreeInv, RootsApart

LEMMA Unserved ==
  ASSUME AgreeInv, UNCHANGED unit
  PROVE  OneUnit
BY DEF AgreeInv, UnitsTyped, OneUnit

LEMMA AllStay ==
  ASSUME ThreadTypes, UNCHANGED <<usb, slot, device>>, thread'.port = thread.port
  PROVE  \A s \in Slots : SlotStays(s)
BY DEF SlotStays, ThreadTypes

(* Where the thread is after Go and after an answer.                        *)
LEMMA Goes ==
  ASSUME ThreadTypes, NEW next, Go(next)
  PROVE  thread'.at = next /\ thread'.port = thread.port /\ thread'.slot = thread.slot
BY DEF Go, ThreadTypes

LEMMA AnswerAgrees ==
  ASSUME OwnedInv, AgreeInv, thread.at # "port", NEW code, Answer(code), OneUnit, UNCHANGED <<usb, slot, device, input>>
  PROVE  AgreeInv'
<1>1. thread'.at = "port" /\ thread'.port = thread.port
  BY Goes DEF Answer, OwnedInv
<1> QED BY <1>1, AllStay, EndedAgrees DEF OwnedInv

(* On from a request or a transfer.                                         *)
LEMMA NextAgrees ==
  ASSUME OwnedInv, AgreeInv, OneUnit, UNCHANGED <<usb, slot, device, input>>,
         thread.at \in Told, thread'.at \in Told \ {"desc8"},
         thread'.port = thread.port, thread'.slot = thread.slot,
         thread'.at \in Addressing => thread.at \in Addressing,
         thread'.at \in Sized => thread.at \in Sized \/ Given(This)[1].mps = Reported(Here),
         DeviceAtHand'
  PROVE  AgreeInv'
<1>1. SlotAtHand'
  BY ToldOn DEF AgreeInv
<1>2. thread.at # "port"
  BY DEF Told, Addressing, Configuring, Using, Inquiring
<1> QED BY <1>1, <1>2, AllStay, OnwardAgrees DEF OwnedInv

LEMMA ControlAgrees ==
  ASSUME OwnedInv, AgreeInv, NEW at, NEW setup, NEW next, NEW code, ControlTransfer(at, setup, next, code),
         at \in Told, next \in Told \ {"desc8"},
         next \in Addressing => at \in Addressing,
         next \in Sized => at \in Sized \/ Given(This)[1].mps = Reported(Here),
         Go(next) /\ unit'[thread.port] = Served(unit[thread.port], setup) => DeviceAtHand'
  PROVE  AgreeInv'
<1>1. thread.at = at /\ at # "port" /\ UNCHANGED <<usb, slot, device, input>>
  BY DEF ControlTransfer, world, tables, Told, Addressing, Configuring, Using, Inquiring
<1>2. Serve(setup) => OneUnit /\ unit'[thread.port] = Served(unit[thread.port], setup)
  BY <1>1, ServeChanges DEF AgreeInv, OwnedInv
<1>3. CASE Go(next) /\ Serve(setup) /\ UNCHANGED answer
  <2>1. thread'.at = next /\ thread'.port = thread.port /\ thread'.slot = thread.slot
    BY <1>3, Goes DEF OwnedInv
  <2> QED BY <1>1, <1>2, <1>3, <2>1, NextAgrees
<1>4. CASE Answer(code) /\ (Serve(setup) \/ UNCHANGED unit)
  BY <1>1, <1>2, <1>4, Unserved, AnswerAgrees
<1> QED BY <1>3, <1>4 DEF ControlTransfer

(* What the device was asked stays, and so do the endpoints to configure.   *)
LEMMA HandStays ==
  ASSUME OwnedInv, AgreeInv, UNCHANGED <<usb, slot, todo>>, thread.at \in Told,
         thread'.port = thread.port, thread'.slot = thread.slot
  PROVE  /\ Here' = Here /\ Face' = Face /\ KeyEndpoint' = KeyEndpoint /\ DiskIn' = DiskIn /\ DiskOut' = DiskOut
         /\ (Keyboard <=> Keyboard') /\ This' = This /\ Behind(This) = Here /\ Given(This)' = Given(This)
         /\ HasDisk(This) => HasDisk(This)'
         /\ HasKeys(This) => HasKeys(This)'
         /\ unit'[thread.port].booting = unit[thread.port].booting /\ Boots(This) => Boots(This)'
<1>1. Here' = Here /\ This' = This /\ slot'[This] = slot[This] /\ usb' = usb
  BY DEF Here, This
<1>2. Face' = Face /\ KeyEndpoint' = KeyEndpoint /\ DiskIn' = DiskIn /\ DiskOut' = DiskOut
  BY <1>1 DEF Face, KeyEndpoint, DiskIn, DiskOut
<1>3. Keyboard <=> Keyboard'
  BY <1>2 DEF Keyboard
<1>4. slot[This].root = thread.port /\ Behind(This) = Here
  BY DEF AgreeInv, SlotAtHand, Behind, Here
<1>5. Given(This)' = Given(This) /\ Behind(This)' = Behind(This)
  BY <1>1 DEF Given, Behind
<1>6. HasDisk(This) => HasDisk(This)'
  BY <1>5 DEF HasDisk, Has
<1>7. HasKeys(This) => HasKeys(This)'
  BY <1>5 DEF HasKeys
<1>8. unit'[thread.port].booting = unit[thread.port].booting /\ Boots(This) => Boots(This)'
  BY <1>1, <1>4, <1>5 DEF Boots
<1> QED BY <1>1, <1>2, <1>3, <1>4, <1>5, <1>6, <1>7, <1>8

LEMMA AgreeInit == Init => AgreeInv
<1> SUFFICES ASSUME Init PROVE AgreeInv
  OBVIOUS
<1>1. ASSUME NEW s \in Slots PROVE slot[s].state = "off" /\ DOMAIN Given(s) = {} /\ Given(s) = [e \in {} |-> 0]
  BY DEF Init, SlotOff, Given
<1>2. Known = {}
  BY <1>1 DEF Known
<1>3. \A s \in Slots : SlotKnown(s)
  BY <1>1, <1>2 DEF SlotKnown
<1>4. thread.at = "port" /\ input.disks = {} /\ input.keyboard = 0
  BY DEF Init
<1>5. RootsApart /\ UsersKnown
  BY <1>2, <1>4 DEF RootsApart, UsersKnown
<1>6. SlotAtHand /\ DeviceAtHand
  BY <1>4 DEF SlotAtHand, DeviceAtHand, Told, Sized, Chosen, Begun, Addressing, Configuring, Using, Inquiring
<1>7. UnitsTyped
  BY DEF Init, UnitsTyped, AfterReset
<1> QED BY <1>3, <1>5, <1>6, <1>7 DEF AgreeInv

LEMMA AgreeStutters ==
  ASSUME AgreeInv, UNCHANGED vars
  PROVE  AgreeInv'
<1>1. UNCHANGED <<usb, unit, device, slot, thread, todo, input>>
  BY DEF vars, world, tables
<1>2. /\ Known' = Known /\ Present' = Present /\ This' = This /\ Here' = Here /\ Record' = Record
      /\ \A s : Given(s)' = Given(s) /\ Behind(s)' = Behind(s)
  BY <1>1 DEF Known, Present, This, Here, Record, Given, Behind
<1>3. \A s, e : Described(s, e) => Described(s, e)'
  BY <1>2 DEF Described
<1>4. \A s \in Slots : SlotKnown(s)'
  BY <1>1, <1>2, <1>3 DEF AgreeInv, SlotKnown
<1>5. RootsApart' /\ SlotAtHand' /\ UnitsTyped'
  BY <1>1, <1>2 DEF AgreeInv, RootsApart, SlotAtHand, UnitsTyped
<1>6. \A s : (HasDisk(s) => HasDisk(s)') /\ (HasKeys(s) => HasKeys(s)') /\ (Boots(s) => Boots(s)')
             /\ (InUse(s) => InUse(s)')
  BY <1>1, <1>2 DEF HasDisk, HasKeys, Has, Boots, InUse
<1>7. UsersKnown'
  BY <1>1, <1>6 DEF AgreeInv, UsersKnown
<1>8. Face' = Face /\ KeyEndpoint' = KeyEndpoint /\ DiskIn' = DiskIn /\ DiskOut' = DiskOut
  BY <1>2 DEF Face, KeyEndpoint, DiskIn, DiskOut
<1>9. (Keyboard <=> Keyboard') /\ \A d : Has(This, d) => Has(This, d)'
  BY <1>2, <1>8 DEF Keyboard, Has
<1>10. DeviceAtHand'
  BY <1>1, <1>2, <1>6, <1>8, <1>9 DEF AgreeInv, DeviceAtHand
<1> QED BY <1>4, <1>5, <1>7, <1>10 DEF AgreeInv

LEMMA PanicAgrees ==
  ASSUME OwnedInv, AgreeInv, thread.at # "port", Panic
  PROVE  AgreeInv'
<1>1. UNCHANGED <<usb, unit, slot, device, input>> /\ Go("panic")
  BY DEF Panic, world, tables
<1>2. thread'.at = "panic" /\ thread'.port = thread.port /\ thread'.slot = thread.slot /\ Present' = Present
  BY <1>1, Goes DEF OwnedInv, Present
<1>3. SlotAtHand' /\ DeviceAtHand'
  BY <1>2 DEF AgreeInv, SlotAtHand, DeviceAtHand, Told, Sized, Chosen, Begun, Addressing, Configuring, Using, Inquiring
<1> QED BY <1>1, <1>2, <1>3, Unserved, AllStay, OnwardAgrees DEF OwnedInv

LEMMA ResetAgrees ==
  ASSUME OwnedInv, AgreeInv, Request("reset", "enable", 1)
  PROVE  AgreeInv'
<1>1. thread.at = "reset" /\ UNCHANGED <<usb, unit, slot, device, input>>
  BY DEF Request, world, tables
<1>2. CASE Go("enable") /\ UNCHANGED answer
  <2>1. thread'.at = "enable" /\ thread'.port = thread.port /\ thread'.slot = thread.slot /\ Present' = Present
    BY <1>1, <1>2, Goes DEF OwnedInv, Present
  <2>2. SlotAtHand' /\ DeviceAtHand'
    BY <1>1, <2>1 DEF AgreeInv, SlotAtHand, DeviceAtHand, Told, Sized, Chosen, Begun, Addressing, Configuring, Using, Inquiring
  <2>3. thread.at \notin Told \cup {"panic"}
    BY <1>1 DEF Told, Addressing, Configuring, Using, Inquiring
  <2> QED BY <1>1, <2>1, <2>2, <2>3, Unserved, AllStay, OnwardAgrees DEF OwnedInv
<1>3. CASE Answer(1)
  BY <1>1, <1>3, Unserved, AnswerAgrees
<1> QED BY <1>2, <1>3 DEF Request

LEMMA FirstDescriptorAgrees == OwnedInv /\ AgreeInv /\ FirstDescriptor => AgreeInv'
<1> SUFFICES ASSUME OwnedInv, AgreeInv, FirstDescriptor PROVE AgreeInv'
  OBVIOUS
<1> DEFINE next == IF Reported(Here) = InitialMps(Record.speed) THEN "desc18" ELSE "evaluate"
<1>1. ControlTransfer("desc8", GetDeviceDescriptor, next, 5) /\ thread.at = "desc8"
  BY DEF FirstDescriptor, ControlTransfer
<1>2. Given(This)[1].mps = InitialMps(Here.speed) /\ Record.speed = Here.speed
  BY <1>1 DEF AgreeInv, SlotAtHand, Addressing
<1>3. /\ "desc8" \in Told \cap Addressing /\ next \in Told \ {"desc8"}
      /\ next \in Sized => Given(This)[1].mps = Reported(Here)
  BY <1>2 DEF Told, Sized, Addressing
<1>4. Go(next) => DeviceAtHand'
  <2> SUFFICES ASSUME Go(next) PROVE DeviceAtHand'
    OBVIOUS
  <2>1. thread'.at \in {"desc18", "evaluate"}
    BY Goes DEF OwnedInv
  <2> QED BY <2>1 DEF DeviceAtHand, Chosen, Configuring, Using, Inquiring
<1> HIDE DEF next
<1> QED BY <1>1, <1>3, <1>4, ControlAgrees

LEMMA DescriptorsAgree == OwnedInv /\ AgreeInv /\ Descriptors => AgreeInv'
<1> SUFFICES ASSUME OwnedInv, AgreeInv, Descriptors PROVE AgreeInv'
  OBVIOUS
<1>1. /\ {"desc18", "configuration9", "configuration", "walk"} \subseteq Addressing
      /\ {"desc18", "configuration9", "configuration", "walk"} \subseteq Sized
      /\ {"desc18", "configuration9", "configuration", "walk"} \subseteq Told \ {"desc8"}
  BY DEF Told, Sized, Addressing
<1>2. ASSUME NEW next \in {"configuration9", "configuration", "walk"}, Go(next) PROVE DeviceAtHand'
  <2>1. thread'.at \in {"configuration9", "configuration", "walk"}
    BY <1>2, Goes DEF OwnedInv
  <2> QED BY <2>1 DEF DeviceAtHand, Chosen, Configuring, Using, Inquiring
<1>3. CASE ControlTransfer("desc18", GetDeviceDescriptor, "configuration9", 7)
  BY <1>1, <1>2, <1>3, ControlAgrees
<1>4. CASE ControlTransfer("configuration9", GetConfigDescriptor, "configuration", 8)
  BY <1>1, <1>2, <1>4, ControlAgrees
<1>5. CASE ControlTransfer("configuration", GetConfigDescriptor, "walk", 9)
  BY <1>1, <1>2, <1>5, ControlAgrees
<1> QED BY <1>3, <1>4, <1>5 DEF Descriptors

LEMMA SetConfigurationAgrees == OwnedInv /\ AgreeInv /\ SetConfiguration => AgreeInv'
<1> SUFFICES ASSUME OwnedInv, AgreeInv, SetConfiguration PROVE AgreeInv'
  OBVIOUS
<1> DEFINE setup == SetConfigurationRequest(Here.conf.CNFV)
<1>1. ControlTransfer("setconf", setup, "class", 11) /\ thread.at = "setconf"
  BY DEF SetConfiguration, ControlTransfer
<1>2. {"setconf", "class"} \subseteq Addressing \cap Sized /\ {"setconf", "class"} \subseteq Told \ {"desc8"}
  BY DEF Told, Sized, Addressing
<1>3. ASSUME Go("class"), unit'[thread.port] = Served(unit[thread.port], setup) PROVE DeviceAtHand'
  <2>1. thread'.at = "class" /\ thread'.port = thread.port
    BY <1>3, Goes DEF OwnedInv
  <2>2. Here' = Here
    BY <1>1, <2>1 DEF Here, ControlTransfer, world
  <2>3. Served(unit[thread.port], setup).configuration = Here.conf.CNFV
    <3>1. thread.port \in Ports
      BY <1>1 DEF OwnedInv, PortsAhead
    <3>2. unit[thread.port] = [addressed |-> unit[thread.port].addressed,
                               configuration |-> unit[thread.port].configuration,
                               booting |-> unit[thread.port].booting]
      BY <3>1 DEF AgreeInv, UnitsTyped
    <3>3. setup.REQU = "set_configuration" /\ setup.VALU = Here.conf.CNFV
      BY DEF SetConfigurationRequest, Setup
    <3> HIDE DEF setup
    <3> QED BY <3>2, <3>3 DEF Served
  <2> QED BY <1>3, <2>1, <2>2, <2>3 DEF DeviceAtHand, Chosen, Configuring, Using, Inquiring
<1> HIDE DEF setup
<1> QED BY <1>1, <1>2, <1>3, ControlAgrees

LEMMA WalkAgrees == OwnedInv /\ AgreeInv /\ WalkDescriptors => AgreeInv'
<1> SUFFICES ASSUME OwnedInv, AgreeInv, WalkDescriptors PROVE AgreeInv'
  OBVIOUS
<1>1. thread.at = "walk" /\ UNCHANGED <<usb, unit, slot, device, input>>
  BY DEF WalkDescriptors, world, tables
<1>2. ASSUME thread'.at \in {"walk", "setconf"}, thread'.port = thread.port, thread'.slot = thread.slot
      PROVE  AgreeInv'
  <2>1. {"walk", "setconf"} \subseteq Addressing \cap Sized /\ {"walk", "setconf"} \subseteq Told \ {"desc8"}
    BY DEF Told, Sized, Addressing
  <2>2. DeviceAtHand'
    BY <1>2 DEF DeviceAtHand, Chosen, Configuring, Using, Inquiring
  <2> QED BY <1>1, <1>2, <2>1, <2>2, Unserved, NextAgrees
<1>3. CASE thread.pos \in DOMAIN Here.conf.DATA
  <2>1. thread' = [thread EXCEPT !.pos = @ + Step(Here.conf.DATA[thread.pos])]
    BY <1>3 DEF WalkDescriptors
  <2>2. thread'.at = "walk" /\ thread'.port = thread.port /\ thread'.slot = thread.slot
    BY <1>1, <2>1 DEF OwnedInv, ThreadTypes
  <2> QED BY <1>2, <2>2
<1>4. CASE Go("setconf")
  BY <1>2, <1>4, Goes DEF OwnedInv
<1>5. CASE Answer(10)
  BY <1>1, <1>5, Unserved, AnswerAgrees
<1> QED BY <1>3, <1>4, <1>5 DEF WalkDescriptors

LEMMA BootProtocolAgrees == OwnedInv /\ AgreeInv /\ BootProtocol => AgreeInv'
<1> SUFFICES ASSUME OwnedInv, AgreeInv, BootProtocol PROVE AgreeInv'
  OBVIOUS
<1>1. /\ {"protocol", "idle", "configure"} \subseteq Configuring \cap Sized
      /\ {"protocol", "idle", "configure"} \subseteq Told \ ({"desc8"} \cup Addressing)
  BY DEF Told, Sized, Addressing, Configuring
<1>2. thread.at \in {"protocol", "idle"} /\ UNCHANGED <<usb, slot, todo>>
  BY DEF BootProtocol, ControlTransfer, world
<1>3. /\ Keyboard /\ KeyEndpoint # <<>> /\ todo = <<[endpoint |-> KeyEndpoint[1], fails |-> 1]>>
      /\ unit[thread.port].configuration = Here.conf.CNFV
      /\ thread.at # "protocol" => Boots(This)
  BY <1>1, <1>2 DEF AgreeInv, DeviceAtHand, Chosen
<1>4. thread.port \in Ports
  BY <1>2 DEF OwnedInv, PortsAhead
<1>5. unit[thread.port] = [addressed |-> unit[thread.port].addressed,
                           configuration |-> unit[thread.port].configuration,
                           booting |-> unit[thread.port].booting]
  BY <1>4 DEF AgreeInv, UnitsTyped
<1>6. ASSUME NEW next \in {"idle", "configure"}, Go(next),
             unit'[thread.port].configuration = unit[thread.port].configuration, Boots(This)'
      PROVE  DeviceAtHand'
  <2>1. thread'.at = next /\ thread'.port = thread.port /\ thread'.slot = thread.slot
    BY <1>6, Goes DEF OwnedInv
  <2>2. Here' = Here /\ Keyboard' /\ KeyEndpoint' = KeyEndpoint
    BY <1>1, <1>2, <1>3, <2>1, HandStays
  <2> QED BY <1>2, <1>3, <1>6, <2>1, <2>2 DEF DeviceAtHand, Chosen, Configuring, Using, Inquiring
<1>7. CASE ControlTransfer("protocol", SetProtocolRequest(Face.IFCN), "idle", 128)
  <2> DEFINE setup == SetProtocolRequest(Face.IFCN)
  <2>1. setup.REQU = "set_protocol" /\ setup.VALU = 0 /\ setup.INDX = Face.IFCN
    BY DEF SetProtocolRequest, Setup
  <2> HIDE DEF setup
  <2>2. ASSUME Go("idle"), unit'[thread.port] = Served(unit[thread.port], setup) PROVE DeviceAtHand'
    <3>1. Served(unit[thread.port], setup) = [unit[thread.port] EXCEPT !.booting = @ \cup {Face.IFCN}]
      BY <2>1 DEF Served
    <3>2. /\ unit'[thread.port].configuration = unit[thread.port].configuration
          /\ unit'[thread.port].booting = unit[thread.port].booting \cup {Face.IFCN}
      BY <1>5, <2>2, <3>1
    <3>3. slot[This].root = thread.port /\ This' = This
      BY <1>1, <1>2, <2>2, Goes DEF AgreeInv, SlotAtHand, This, OwnedInv
    <3>4. Boots(This)'
      BY <1>2, <3>2, <3>3 DEF Boots, Behind, Face, Here
    <3> QED BY <1>6, <2>2, <3>2, <3>4
  <2>3. ControlTransfer("protocol", setup, "idle", 128)
    BY <1>7 DEF setup
  <2> QED BY <1>1, <2>2, <2>3, ControlAgrees
<1>8. CASE ControlTransfer("idle", SetIdleRequest, "configure", 128)
  <2> DEFINE setup == SetIdleRequest
  <2>1. setup.REQU = "set_idle"
    BY DEF SetIdleRequest, Setup
  <2> HIDE DEF setup
  <2>2. ASSUME Go("configure"), unit'[thread.port] = Served(unit[thread.port], setup) PROVE DeviceAtHand'
    <3>1. unit'[thread.port] = unit[thread.port]
      BY <2>1, <2>2 DEF Served
    <3>2. Boots(This)
      BY <1>3, <1>8 DEF ControlTransfer
    <3>3. Boots(This)'
      BY <1>1, <1>2, <2>2, <3>1, <3>2, Goes, HandStays DEF OwnedInv
    <3> QED BY <1>6, <2>2, <3>1, <3>3
  <2>3. ControlTransfer("idle", setup, "configure", 128)
    BY <1>8 DEF setup
  <2> QED BY <1>1, <2>2, <2>3, ControlAgrees
<1> QED BY <1>7, <1>8 DEF BootProtocol

LEMMA NextPortAgrees == OwnedInv /\ AgreeInv /\ NextPort => AgreeInv'
<1> SUFFICES ASSUME OwnedInv, AgreeInv, NextPort PROVE AgreeInv'
  OBVIOUS
<1>1. /\ thread'.port = thread.port + 1 /\ thread.port \in Nat
      /\ thread'.at = IF thread.port + 1 \in Present THEN "reset" ELSE "port"
      /\ UNCHANGED <<usb, unit, device, slot, input>>
  BY DEF NextPort, world, tables, OwnedInv, ThreadTypes
<1> DEFINE p == thread.port
<1>2. p \in Nat /\ p <= p + 1 /\ thread'.port = p + 1 /\ \A r \in Nat : r <= p => r # p + 1
  BY <1>1
<1>3. \A s \in Slots : SlotStays(s)
  <2> HIDE DEF p
  <2>1. thread'.port \in Nat /\ p <= thread'.port
    BY <1>2
  <2> QED BY <1>1, <2>1 DEF SlotStays, p
<1>4. /\ \A s \in Slots : SlotKnown(s)'
      /\ Known' = Known
      /\ \A s \in Known : slot'[s] = slot[s] /\ Given(s)' = Given(s) /\ Behind(s)' = Behind(s)
  BY <1>1, <1>3, SlotsStayKnown DEF AgreeInv
<1>5. \A s \in Known : slot[s].root # thread'.port
  <2>1. \A s \in Known : slot[s].root \in Nat /\ slot[s].root <= p
    BY EnumerationAssumption DEF AgreeInv, SlotKnown, Known, Present
  <2> HIDE DEF p
  <2> QED BY <1>2, <2>1
<1>6. RootsApart'
  BY <1>4, <1>5 DEF AgreeInv, RootsApart
<1>7. \A s : (InUse(s) => InUse(s)') /\ (InUse(s) /\ HasDisk(s) => HasDisk(s)')
             /\ (InUse(s) /\ HasKeys(s) => HasKeys(s)') /\ (InUse(s) /\ Boots(s) => Boots(s)')
  BY <1>1, <1>4, <1>5 DEF InUse, HasDisk, HasKeys, Has, Boots
<1>8. UsersKnown'
  BY <1>1, <1>7 DEF AgreeInv, UsersKnown
<1>9. Present' = Present /\ thread'.at \in {"reset", "port"}
  BY <1>1 DEF Present
<1>10. SlotAtHand' /\ DeviceAtHand'
  BY <1>1, <1>9 DEF SlotAtHand, DeviceAtHand, Told, Sized, Chosen, Begun, Addressing, Configuring, Using, Inquiring
<1>11. UnitsTyped'
  BY <1>1 DEF AgreeInv, UnitsTyped
<1> QED BY <1>4, <1>6, <1>8, <1>10, <1>11 DEF AgreeInv

(* A slot that has nothing of a device yet, ...                             *)
LEMMA EmptyKnown ==
  ASSUME NEW s, slot'[s].state \in {"off", "enabled"}, slot'[s].endpoint = [e \in {} |-> 0]
  PROVE  SlotKnown(s)' /\ s \notin Known'
<1>1. s \notin Known' /\ DOMAIN Given(s)' = {} /\ Given(s)' = [e \in DOMAIN Given(s)' |-> Given(s)'[e]]
  BY DEF Known, Given
<1> QED BY <1>1 DEF SlotKnown

(* ... and none has been given to a slot the controller has only enabled.   *)
LEMMA EnableSlotAgrees == OwnedInv /\ AgreeInv /\ EnableSlot => AgreeInv'
<1> SUFFICES ASSUME OwnedInv, AgreeInv, EnableSlot PROVE AgreeInv'
  OBVIOUS
<1>0. thread.at = "enable" /\ UNCHANGED <<world, unit, input>>
  BY Zenon DEF EnableSlot
<1>1. /\ thread.at = "enable" /\ thread.at \notin Told \cup {"panic", "port"}
      /\ UNCHANGED <<usb, unit, input>> /\ ThreadTypes
  BY <1>0 DEF world, OwnedInv, Told, Addressing, Configuring, Using, Inquiring
<1>2. CASE Answer(2) /\ UNCHANGED <<slot, device>>
  BY <1>1, <1>2, Unserved, AnswerAgrees
<1>3. ASSUME NEW s \in Slots, slot[s].state = "off",
             slot' = [slot EXCEPT ![s] = Obeyed(@, EnableSlotTrb)],
             device' = [device EXCEPT ![s] = NoDevice],
             thread' = [thread EXCEPT !.at = "setup", !.slot = s]
      PROVE  AgreeInv'
  <2>1. /\ s \in Nat /\ device \in [Slots -> RecordType] /\ SlotTypes
    BY EnumerationAssumption DEF OwnedInv, DataTypes
  <2>2. Obeyed(slot[s], EnableSlotTrb) = [SlotOff EXCEPT !.state = "enabled"]
    BY DEF Obeyed, EnableSlotTrb
  <2>3. /\ slot'[s] = [SlotOff EXCEPT !.state = "enabled"]
        /\ \A t \in Slots \ {s} : slot'[t] = slot[t] /\ device'[t] = device[t]
    BY <1>3, <2>1, <2>2 DEF SlotTypes
  <2>4. slot'[s].state = "enabled" /\ slot'[s].endpoint = [e \in {} |-> 0]
    BY <2>3 DEF SlotOff
  <2>5. thread'.at = "setup" /\ thread'.slot = s /\ thread'.port = thread.port /\ thread.port \in Nat
    BY <1>1, <1>3 DEF ThreadTypes
  <2>6. \A t \in Slots \ {s} : SlotStays(t)
    BY <1>1, <2>3, <2>5 DEF SlotStays
  <2>7. SlotKnown(s)' /\ s \notin Known'
    BY <2>4, EmptyKnown
  <2>8. RootsApart'
    BY <1>1, <2>5, <2>6, <2>7, RootsBegun
  <2>9. s \notin Known
    BY <1>3 DEF Known
  <2>10. SlotAtHand'
    BY <1>1, <2>4, <2>5 DEF AgreeInv, SlotAtHand, Present, This, Told, Sized, Chosen, Begun, Addressing, Configuring, Using, Inquiring
  <2>11. DeviceAtHand'
    BY <2>5 DEF DeviceAtHand, Chosen, Configuring, Using, Inquiring
  <2> QED BY <1>1, <2>5, <2>6, <2>7, <2>8, <2>9, <2>10, <2>11, Unserved, ChangedAgrees
<1> QED BY <1>2, <1>3, Zenon DEF EnableSlot

LEMMA AtSetUp ==
  ASSUME OwnedInv, AgreeInv, thread.at \in Begun
  PROVE  /\ This \in Slots /\ slot[This].state = "enabled" /\ This \notin Known /\ thread.at # "port"
         /\ thread.at \notin Told \cup {"panic", "port"} /\ ThreadTypes /\ thread.port \in Nat
         /\ slot[This].endpoint = [e \in {} |-> slot[This].endpoint[e]]
<1>1. thread.at \notin Told \cup {"panic", "port"} /\ thread.at \notin NoSlot
  BY DEF Begun, NoSlot, Told, Addressing, Configuring, Using, Inquiring
<1>2. This \in Slots /\ slot[This].state = "enabled" /\ This \notin Known
  BY <1>1 DEF OwnedInv, SlotsHold, AgreeInv, SlotAtHand, Known
<1>3. slot[This].endpoint = [e \in {} |-> slot[This].endpoint[e]]
  BY <1>2 DEF AgreeInv, SlotKnown, Given
<1> QED BY <1>1, <1>2, <1>3 DEF OwnedInv, ThreadTypes

LEMMA SetUpAgrees == OwnedInv /\ AgreeInv /\ SetUp => AgreeInv'
<1> SUFFICES ASSUME OwnedInv, AgreeInv, SetUp PROVE AgreeInv'
  OBVIOUS
<1>1. /\ thread.at = "setup" /\ thread.at \in Begun /\ UNCHANGED <<usb, unit, slot, input>> /\ Go("address")
  BY DEF SetUp, world, Begun
<1>2. thread'.at = "address" /\ thread'.port = thread.port /\ thread'.slot = thread.slot
  BY <1>1, Goes DEF OwnedInv
<1> PICK me \in Slots : me = This
  BY <1>1, AtSetUp
<1> DEFINE record == [context |-> Input, persistent |-> Persistent,
                      transfer |-> WithRing(device[me].transfer, 1, Control),
                      port |-> thread.port - 1, speed |-> Here.speed]
<1>3. device' = [device EXCEPT ![me] = record]
  BY DEF SetUp, This
<1>4. device \in [Slots -> RecordType] /\ DOMAIN device[me].transfer = {}
  BY <1>1 DEF OwnedInv, DataTypes, RingsAhead, Record, This
<1>5. device'[me] = record /\ \A t \in Slots \ {me} : device'[t] = device[t]
  BY <1>3, <1>4
<1>6. record.port = thread.port - 1 /\ record.speed = Here.speed
  OBVIOUS
<1> HIDE DEF record
<1>7. \A t \in Slots : SlotStays(t)
  BY <1>1, <1>2, <1>4, <1>5, AtSetUp DEF SlotStays
<1>8. SlotAtHand'
  <2>1. Here' = Here /\ Record' = record /\ Present' = Present /\ This' = me
    BY <1>1, <1>2, <1>5 DEF Here, Record, Present, This
  <2> QED BY <1>1, <1>2, <1>6, <2>1, AtSetUp
          DEF AgreeInv, SlotAtHand, Told, Sized, Chosen, Begun, Addressing, Configuring, Using, Inquiring
<1>9. DeviceAtHand'
  BY <1>2 DEF DeviceAtHand, Chosen, Configuring, Using, Inquiring
<1> QED BY <1>1, <1>2, <1>7, <1>8, <1>9, AtSetUp, Unserved, OnwardAgrees

LEMMA TooFewPagesAgrees == OwnedInv /\ AgreeInv /\ TooFewPages => AgreeInv'
<1> SUFFICES ASSUME OwnedInv, AgreeInv, TooFewPages PROVE AgreeInv'
  OBVIOUS
<1>1. /\ thread.at = "setup" /\ thread.at \in Begun /\ UNCHANGED <<usb, unit, slot, input>> /\ Go("disable")
      /\ device' = [device EXCEPT ![This].context = Input]
  BY DEF TooFewPages, world, Begun, This
<1>2. thread'.at = "disable" /\ thread'.port = thread.port /\ thread'.slot = thread.slot
  BY <1>1, Goes DEF OwnedInv
<1>3. device \in [Slots -> RecordType]
  BY DEF OwnedInv, DataTypes
<1>4. \A t \in Slots : device'[t].transfer = device[t].transfer
  BY <1>1, <1>3 DEF RecordType
<1>5. \A t \in Slots : SlotStays(t)
  BY <1>1, <1>2, <1>4, AtSetUp DEF SlotStays
<1>6. SlotAtHand'
  BY <1>1, <1>2, AtSetUp
     DEF AgreeInv, SlotAtHand, Present, This, Told, Sized, Chosen, Begun, Addressing, Configuring, Using, Inquiring
<1>7. DeviceAtHand'
  BY <1>2 DEF DeviceAtHand, Chosen, Configuring, Using, Inquiring
<1> QED BY <1>1, <1>2, <1>5, <1>6, <1>7, AtSetUp, Unserved, OnwardAgrees

LEMMA DisableSlotAgrees == OwnedInv /\ AgreeInv /\ DisableSlot => AgreeInv'
<1> SUFFICES ASSUME OwnedInv, AgreeInv, DisableSlot PROVE AgreeInv'
  OBVIOUS
<1>1. /\ thread.at = "disable" /\ thread.at \in Begun /\ UNCHANGED <<usb, unit, device, input>> /\ Answer(3)
  BY DEF DisableSlot, world, Begun
<1>2. thread'.at = "port" /\ thread'.port = thread.port /\ thread'.slot = thread.slot
  BY <1>1, Goes DEF OwnedInv, Answer
<1> PICK me \in Slots : me = This
  BY <1>1, AtSetUp
<1>3. CASE UNCHANGED slot
  BY <1>1, <1>3, AtSetUp, Unserved, AnswerAgrees
<1>4. CASE slot' = [slot EXCEPT ![me] = SlotOff]
  <2>1. slot'[me] = SlotOff /\ \A t \in Slots \ {me} : slot'[t] = slot[t]
    BY <1>4 DEF OwnedInv, SlotTypes
  <2>2. \A t \in Slots \ {me} : SlotStays(t)
    BY <1>1, <1>2, <2>1, AtSetUp DEF SlotStays
  <2>3. SlotKnown(me)' /\ me \notin Known'
    BY <2>1, EmptyKnown DEF SlotOff
  <2>4. RootsApart'
    BY <1>1, <1>2, <2>2, <2>3, AtSetUp, RootsBegun
  <2>5. SlotAtHand' /\ DeviceAtHand'
    BY <1>1, <1>2, Unserved, AtPort DEF OneUnit
  <2> QED BY <1>1, <1>2, <2>2, <2>3, <2>4, <2>5, AtSetUp, Unserved, ChangedAgrees
<1>5. Obeyed(slot[me], DisableSlotTrb(me)) = SlotOff
  BY DEF Obeyed, DisableSlotTrb
<1> QED BY <1>3, <1>4, <1>5 DEF DisableSlot, This

LEMMA ChooseClassAgrees == OwnedInv /\ AgreeInv /\ ChooseClass => AgreeInv'
<1> SUFFICES ASSUME OwnedInv, AgreeInv, ChooseClass PROVE AgreeInv'
  OBVIOUS
<1>1. thread.at = "class" /\ UNCHANGED <<usb, unit, slot, device, input>>
  BY DEF ChooseClass, world, tables
<1>2. ASSUME NEW next \in {"protocol", "configure"}, Go(next), DeviceAtHand' PROVE AgreeInv'
  <2>1. thread'.at = next /\ thread'.port = thread.port /\ thread'.slot = thread.slot
    BY <1>2, Goes DEF OwnedInv
  <2>2. "class" \in Told \cap Sized /\ next \in Told \ ({"desc8"} \cup Addressing)
    BY DEF Told, Sized, Addressing, Configuring
  <2> QED BY <1>1, <1>2, <2>1, <2>2, Unserved, NextAgrees
<1>3. ASSUME NEW next \in {"protocol", "configure"}, Go(next)
      PROVE  /\ thread'.at = next /\ thread'.port = thread.port /\ unit'[thread'.port].configuration = Here'.conf.CNFV
             /\ KeyEndpoint' = KeyEndpoint /\ DiskIn' = DiskIn /\ DiskOut' = DiskOut /\ (Keyboard <=> Keyboard')
  <2>1. thread'.at = next /\ thread'.port = thread.port
    BY <1>3, Goes DEF OwnedInv
  <2>2. Here' = Here
    BY <1>1, <2>1 DEF Here
  <2>3. Face' = Face /\ KeyEndpoint' = KeyEndpoint /\ DiskIn' = DiskIn /\ DiskOut' = DiskOut
    BY <2>2 DEF Face, KeyEndpoint, DiskIn, DiskOut
  <2> QED BY <1>1, <2>1, <2>2, <2>3 DEF Keyboard, AgreeInv, DeviceAtHand
<1>4. CASE /\ Keyboard /\ KeyEndpoint # <<>>
           /\ todo' = <<[endpoint |-> KeyEndpoint[1], fails |-> 1]>>
           /\ Go("protocol")
  <2>1. DeviceAtHand'
    BY <1>3, <1>4 DEF DeviceAtHand, Chosen, Configuring, Using, Inquiring
  <2> QED BY <1>2, <1>4, <2>1
<1>5. CASE /\ Disk /\ DiskIn # <<>> /\ DiskOut # <<>>
           /\ todo' = <<[endpoint |-> DiskIn[1], fails |-> 3], [endpoint |-> DiskOut[1], fails |-> 4]>>
           /\ Go("configure")
  <2>1. ~Keyboard
    BY <1>5 DEF Disk, Keyboard, Hid, MassStorage
  <2>2. DeviceAtHand'
    BY <1>3, <1>5, <2>1 DEF DeviceAtHand, Chosen, Configuring, Using, Inquiring
  <2> QED BY <1>2, <1>5, <2>2
<1>6. CASE \E code \in Int : Answer(code)
  BY <1>1, <1>6, Unserved, AnswerAgrees
<1> QED BY <1>4, <1>5, <1>6 DEF ChooseClass

(* The requests to a disk.                                                  *)
LEMMA DiskStays ==
  ASSUME OwnedInv, AgreeInv, thread.at \in Using \ {"listen"}, UNCHANGED <<usb, slot, todo>>,
         NEW next \in Using \ {"listen"}, Go(next), unit'[thread.port].configuration = unit[thread.port].configuration
  PROVE  DeviceAtHand'
<1>1. thread'.at = next /\ thread'.port = thread.port /\ thread'.slot = thread.slot
  BY Goes DEF OwnedInv
<1>2. thread.at \in Told /\ thread.at \in Chosen
  BY DEF Told, Chosen
<1>3. Here' = Here /\ (HasDisk(This) => HasDisk(This)')
  BY <1>1, <1>2, HandStays
<1>4. unit[thread.port].configuration = Here.conf.CNFV /\ HasDisk(This)
  BY <1>2 DEF AgreeInv, DeviceAtHand
<1> QED BY <1>1, <1>3, <1>4 DEF DeviceAtHand, Chosen, Configuring, Using, Inquiring

LEMMA DiskPlaces ==
  ASSUME NEW at \in Using
  PROVE  at \in Told \ ({"desc8"} \cup Addressing) /\ at \in Sized /\ at \notin {"port", "panic"}
BY DEF Told, Sized, Addressing, Configuring, Using, Inquiring

LEMMA QuietDiskAgrees ==
  ASSUME OwnedInv, AgreeInv, thread.at \in Using \ {"listen"}, UNCHANGED <<usb, unit, slot, device, todo, input>>,
         NEW next \in Using \ {"listen"}, NEW code, Go(next) \/ Answer(code)
  PROVE  AgreeInv'
<1>1. CASE Go(next)
  <2>1. thread'.at = next /\ thread'.port = thread.port /\ thread'.slot = thread.slot
    BY <1>1, Goes DEF OwnedInv
  <2> QED BY <1>1, <2>1, DiskStays, DiskPlaces, Unserved, NextAgrees
<1>2. CASE Answer(code)
  BY <1>2, DiskPlaces, Unserved, AnswerAgrees
<1> QED BY <1>1, <1>2

LEMMA AskDiskAgrees == OwnedInv /\ AgreeInv /\ AskDisk => AgreeInv'
<1> SUFFICES ASSUME OwnedInv, AgreeInv, AskDisk PROVE AgreeInv'
  OBVIOUS
<1>0. {"lun", "ready", "buffer"} \subseteq Using \ {"listen"}
  BY DEF Using
<1>1. CASE ControlTransfer("lun", GetMaxLunRequest(Face.IFCN), "ready", 5)
  <2> DEFINE setup == GetMaxLunRequest(Face.IFCN)
  <2>1. setup.REQU = "get_max_lun"
    BY DEF GetMaxLunRequest, Setup
  <2> HIDE DEF setup
  <2>2. ASSUME Go("ready"), unit'[thread.port] = Served(unit[thread.port], setup) PROVE DeviceAtHand'
    <3>1. unit'[thread.port] = unit[thread.port]
      BY <2>1, <2>2 DEF Served
    <3> QED BY <1>0, <1>1, <2>2, <3>1, DiskStays DEF ControlTransfer, world
  <2>3. ControlTransfer("lun", setup, "ready", 5)
    BY <1>1 DEF setup
  <2> QED BY <1>0, <2>2, <2>3, DiskPlaces, ControlAgrees
<1>2. CASE Request("ready", "buffer", 6)
  <2>1. thread.at = "ready" /\ UNCHANGED <<usb, unit, slot, device, todo, input>> /\ (Go("buffer") \/ Answer(6))
    BY <1>2 DEF Request, world, tables
  <2> QED BY <1>0, <2>1, QuietDiskAgrees
<1> QED BY <1>1, <1>2 DEF AskDisk

LEMMA GetBufferAgrees == OwnedInv /\ AgreeInv /\ GetBuffer => AgreeInv'
<1> SUFFICES ASSUME OwnedInv, AgreeInv, GetBuffer PROVE AgreeInv'
  OBVIOUS
<1>1. thread.at = "buffer" /\ UNCHANGED <<usb, unit, slot, device, todo, input>> /\ Go("inquiry")
  BY DEF GetBuffer, world, tables
<1> QED BY <1>1, QuietDiskAgrees DEF Using, Inquiring

LEMMA InquireAgrees ==
  ASSUME OwnedInv, AgreeInv, NEW at \in Inquiring, NEW next \in Inquiring, NEW code, Inquire(at, next, code)
  PROVE  AgreeInv'
<1>1. thread.at = at /\ UNCHANGED <<usb, unit, slot, device, todo, input>> /\ (Go(next) \/ Answer(code))
  BY DEF Inquire, world, tables
<1>2. {at, next} \subseteq Using \ {"listen"}
  BY DEF Using, Inquiring
<1> QED BY <1>1, <1>2, QuietDiskAgrees

(* The device at hand is set up for input, or inserted.                     *)
LEMMA UserSetUp ==
  ASSUME OwnedInv, AgreeInv, thread.at \in Using, NEW code, Answer(code), UNCHANGED <<usb, unit, slot, device>>
  PROVE  /\ UsersKnown' => AgreeInv'
         /\ InUse(This)' /\ (HasDisk(This) => HasDisk(This)') /\ (HasKeys(This) => HasKeys(This)')
         /\ (Boots(This) => Boots(This)') /\ This' = This
         /\ \A s : InUse(s) => InUse(s)'
         /\ \A s : (HasDisk(s) => HasDisk(s)') /\ (HasKeys(s) => HasKeys(s)') /\ (Boots(s) => Boots(s)')
<1>1. thread'.at = "port" /\ thread'.port = thread.port /\ thread'.slot = thread.slot /\ thread.at # "port"
  BY Goes, DiskPlaces DEF OwnedInv, Answer
<1>2. This' = This /\ Known' = Known /\ \A s : Given(s)' = Given(s) /\ Behind(s)' = Behind(s)
  BY <1>1 DEF This, Known, Given, Behind
<1>3. \A s : (HasDisk(s) => HasDisk(s)') /\ (HasKeys(s) => HasKeys(s)') /\ (Boots(s) => Boots(s)')
  BY <1>2 DEF HasDisk, HasKeys, Has, Boots
<1>4. \A s : InUse(s) => InUse(s)'
  BY <1>1, <1>2 DEF InUse
<1>5. This \in Known /\ slot[This].root = thread.port /\ unit[thread.port].configuration = Here.conf.CNFV
  BY DiskPlaces DEF AgreeInv, SlotAtHand, DeviceAtHand, Chosen
<1>6. InUse(This)'
  BY <1>1, <1>2, <1>5 DEF InUse, Behind, Here
<1>7. /\ \A s \in Slots : SlotKnown(s)'
      /\ \A s \in Known : slot'[s] = slot[s]
  BY <1>1, AllStay, SlotsStayKnown DEF AgreeInv, OwnedInv, ThreadTypes
<1>8. RootsApart'
  BY <1>1, <1>2, <1>7 DEF AgreeInv, RootsApart
<1>9. UnitsTyped'
  BY Unserved DEF OneUnit
<1>10. SlotAtHand' /\ DeviceAtHand'
  BY <1>1, <1>9, AtPort
<1> QED BY <1>2, <1>3, <1>4, <1>6, <1>7, <1>8, <1>9, <1>10 DEF AgreeInv

LEMMA ListenAgrees == OwnedInv /\ AgreeInv /\ ListenForKeys => AgreeInv'
<1> SUFFICES ASSUME OwnedInv, AgreeInv, ListenForKeys PROVE AgreeInv'
  OBVIOUS
<1>1. /\ thread.at = "listen" /\ UNCHANGED <<usb, unit, slot, device>> /\ Answer(0)
      /\ input' = [input EXCEPT !.keyboard = This]
  BY DEF ListenForKeys, world, tables, This
<1>2. thread.at \in Using
  BY <1>1 DEF Using
<1>3. InUse(This)' /\ HasKeys(This)' /\ Boots(This)'
  BY <1>1, <1>2, UserSetUp DEF AgreeInv, DeviceAtHand
<1>4. input'.keyboard \in {This, input.keyboard} /\ input'.disks = input.disks
  BY <1>1
<1>5. \A s \in input'.disks : InUse(s)' /\ HasDisk(s)'
  BY <1>1, <1>2, <1>4, UserSetUp DEF AgreeInv, UsersKnown
<1>6. ASSUME NEW s \in {input'.keyboard} \ {0} PROVE InUse(s)' /\ HasKeys(s)' /\ Boots(s)'
  <2>1. CASE s \in {input.keyboard} \ {0}
    BY <1>1, <1>2, <2>1, UserSetUp DEF AgreeInv, UsersKnown
  <2>2. CASE s = This
    <3>1. InUse(s)'
      BY <1>1, <1>2, <1>3, <2>2, UserSetUp DEF InUse, This
    <3> QED BY <1>1, <1>2, <1>3, <2>2, <3>1, UserSetUp DEF HasKeys, Boots, Given, Behind, This
  <2> QED BY <1>4, <2>1, <2>2
<1> QED BY <1>1, <1>2, <1>5, <1>6, UserSetUp DEF UsersKnown

LEMMA InsertDiskAgrees == OwnedInv /\ AgreeInv /\ InsertDisk => AgreeInv'
<1> SUFFICES ASSUME OwnedInv, AgreeInv, InsertDisk PROVE AgreeInv'
  OBVIOUS
<1>1. /\ thread.at = "insert" /\ UNCHANGED <<usb, unit, slot, device>> /\ Answer(0)
      /\ input' = [input EXCEPT !.disks = @ \cup {This}]
  BY DEF InsertDisk, world, tables, This
<1>2. thread.at \in Using \ {"listen"}
  BY <1>1 DEF Using, Inquiring
<1>3. InUse(This)' /\ HasDisk(This)'
  BY <1>1, <1>2, UserSetUp DEF AgreeInv, DeviceAtHand
<1>4. input'.disks \subseteq input.disks \cup {This} /\ input'.keyboard = input.keyboard
  BY <1>1
<1>5. \A s \in {input'.keyboard} \ {0} : InUse(s)' /\ HasKeys(s)' /\ Boots(s)'
  BY <1>1, <1>2, <1>4, UserSetUp DEF AgreeInv, UsersKnown
<1>6. ASSUME NEW s \in input'.disks PROVE InUse(s)' /\ HasDisk(s)'
  <2>1. CASE s \in input.disks
    BY <1>1, <1>2, <2>1, UserSetUp DEF AgreeInv, UsersKnown
  <2>2. CASE s = This
    <3>1. InUse(s)'
      BY <1>1, <1>2, <1>3, <2>2, UserSetUp DEF InUse, This
    <3> QED BY <1>1, <1>2, <1>3, <2>2, <3>1, UserSetUp DEF HasDisk, Has, Given, Behind, This
  <2> QED BY <1>4, <2>1, <2>2
<1> QED BY <1>1, <1>2, <1>5, <1>6, UserSetUp DEF UsersKnown

-----------------------------------------------------------------------------
(* What a command hands over.                                               *)
LEMMA NumberOf ==
  ASSUME NEW d, d.ADDR \in (1 .. 15) \cup (129 .. 143)
  PROVE  EndpointId(d) \in Nat \ {0, 1}
<1> DEFINE a == d.ADDR
<1> HIDE DEF a
<1>1. a \in Int /\ ((1 <= a /\ a <= 15) \/ (129 <= a /\ a <= 143))
  BY DEF a
<1>2. CASE 1 <= a /\ a <= 15
  <2>1. a \div 128 = 0 /\ (2 * a) % 32 = 2 * a
    BY <1>1, <1>2
  <2>2. (2 * a + a \div 128) % 32 \in Nat \ {0, 1}
    BY <1>1, <1>2, <2>1
  <2> QED BY <2>2 DEF EndpointId, a
<1>3. CASE 129 <= a /\ a <= 143
  <2>1. a \div 128 = 1 /\ (2 * a + 1) % 32 = 2 * (a - 128) + 1
    BY <1>1, <1>3
  <2>2. (2 * a + a \div 128) % 32 \in Nat \ {0, 1}
    BY <1>1, <1>3, <2>1
  <2> QED BY <2>2 DEF EndpointId, a
<1> QED BY <1>1, <1>2, <1>3

LEMMA EndpointOf ==
  ASSUME NEW u \in Devices, NEW i \in DOMAIN u.conf.DATA, u.conf.DATA[i].TYPE = "endpoint"
  PROVE  EndpointId(u.conf.DATA[i]) \in Nat \ {0, 1}
<1>1. u.conf.DATA[i].ADDR \in (1 .. 15) \cup (129 .. 143)
  BY EnumerationAssumption DEF In, Out
<1> QED BY <1>1, NumberOf

LEMMA NoContextZero ==
  ASSUME OwnedInv, AgreeInv, NEW s \in Slots
  PROVE  0 \notin DOMAIN Given(s)
<1> SUFFICES ASSUME 0 \in DOMAIN Given(s) PROVE FALSE
  OBVIOUS
<1>1. s \in Known /\ Described(s, 0) /\ slot[s].root \in Present
  BY DEF AgreeInv, SlotKnown
<1>2. Behind(s) \in Devices
  BY <1>1 DEF Behind, Present, OwnedInv, DataTypes
<1>3. PICK i \in DOMAIN Behind(s).conf.DATA :
        Behind(s).conf.DATA[i].TYPE = "endpoint" /\ EndpointId(Behind(s).conf.DATA[i]) = 0
  BY <1>1, Zenon DEF Described
<1> QED BY <1>2, <1>3, EndpointOf

WithContext(old, id, c) == [e \in DOMAIN old \cup {id} |-> IF e = id THEN c ELSE old[e]]

HandsOver(rec, ep, id, old) ==
  LET c == EndpointContext(rec.speed, ep, rec.transfer[id])
  IN  /\ InputContext(rec, ep).slot = SlotContext(rec.speed, id, rec.port)
      /\ InputContext(rec, ep).endpoint[id] = c
      /\ WithEndpoints(old, InputContext(rec, ep)) = WithContext(old.endpoint, id, c)

LEMMA HandedOver ==
  ASSUME NEW rec, NEW ep, EndpointId(ep) # 0, NEW old, 0 \notin DOMAIN old.endpoint
  PROVE  HandsOver(rec, ep, EndpointId(ep), old)
<1> DEFINE id == EndpointId(ep)
           c == EndpointContext(rec.speed, ep, rec.transfer[id])
           context == InputContext(rec, ep)
<1>1. /\ context.control.add = {0, id} /\ context.slot = SlotContext(rec.speed, id, rec.port)
      /\ context.endpoint = [e \in {id} |-> c] /\ id # 0
  BY DEF InputContext, InputControl
<1> HIDE DEF c, context, id
<1>2. context.endpoint[id] = c
  BY <1>1
<1>3. DOMAIN old.endpoint \cup (context.control.add \ {0}) = DOMAIN old.endpoint \cup {id}
  BY <1>1
<1>4. ASSUME NEW e \in DOMAIN old.endpoint \cup {id}
      PROVE  (IF e \in context.control.add THEN context.endpoint[e] ELSE old.endpoint[e])
             = (IF e = id THEN c ELSE old.endpoint[e])
  BY <1>1, <1>2, <1>4
<1>5. WithEndpoints(old, context) = WithContext(old.endpoint, id, c)
  BY <1>3, <1>4 DEF WithEndpoints, WithContext
<1> QED BY <1>1, <1>2, <1>5 DEF c, context, id, HandsOver

LEMMA ContextIs ==
  ASSUME NEW speed, NEW ep, NEW r, NEW c, c = EndpointContext(speed, ep, r)
  PROVE  /\ DOMAIN c = ContextFields /\ c.ring = r /\ c.mps = ep.MPSZ /\ c.type = ContextType(ep)
         /\ XferType(ep) = InterruptType => c.interval = Interval(speed, ep)
BY DEF EndpointContext, ContextFields

(* The packet size of the control endpoint is the one assumed, ...          *)
LEMMA ControlIs ==
  ASSUME NEW mps
  PROVE  EndpointId(ControlEndpoint(mps)) = 1 /\ ControlEndpoint(mps).MPSZ = mps
<1>1. ControlEndpoint(mps).ADDR = 128 /\ ControlEndpoint(mps).MPSZ = mps
  BY DEF ControlEndpoint, EndpointDescriptor, In
<1>2. (2 * 128 + 128 \div 128) % 32 = 1
  OBVIOUS
<1> QED BY <1>1, <1>2 DEF EndpointId

LEMMA AddressDeviceAgrees == OwnedInv /\ AgreeInv /\ AddressDevice => AgreeInv'
<1> SUFFICES ASSUME OwnedInv, AgreeInv, AddressDevice PROVE AgreeInv'
  OBVIOUS
<1> DEFINE ep == ControlEndpoint(InitialMps(Record.speed))
           context == InputContext(Record, ep)
           trb == AddressDeviceTrb(thread.slot, context)
<1>1. thread.at = "address" /\ Command(trb, "desc8", 4) /\ UNCHANGED <<usb, unit, device, input>>
  BY DEF AddressDevice, world, tables
<1>2. /\ thread.at \notin Told \cup {"panic", "port"} /\ thread.at \notin NoSlot /\ thread.at \in Addressing
  BY <1>1 DEF NoSlot, Told, Addressing, Configuring, Using, Inquiring
<1>3. CASE Answer(4) /\ UNCHANGED slot
  BY <1>1, <1>2, <1>3, Unserved, AnswerAgrees
<1>4. CASE slot' = [slot EXCEPT ![thread.slot] = Obeyed(@, trb)] /\ Go("desc8")
  <2> PICK me \in Slots : me = This
    BY <1>2 DEF OwnedInv, SlotsHold
  <2>1. thread'.at = "desc8" /\ thread'.port = thread.port /\ thread'.slot = thread.slot
    BY <1>4, Goes DEF OwnedInv
  <2>2. /\ slot[me].state = "enabled" /\ Record.port = thread.port - 1 /\ Record.speed = Here.speed
        /\ thread.port \in Present /\ DOMAIN device[me].transfer = {1} /\ Record = device[me]
    BY <1>1, <1>2 DEF AgreeInv, SlotAtHand, OwnedInv, RingsAhead, Record, This
  <2>3. me \notin Known /\ DOMAIN Given(me) = {}
    BY <2>2 DEF AgreeInv, SlotKnown, Known
  <2> DEFINE c == EndpointContext(Record.speed, ep, Record.transfer[1])
  <2>4. EndpointId(ep) = 1 /\ ep.MPSZ = InitialMps(Record.speed)
    BY ControlIs
  <2> HIDE DEF ep
  <2>5. context.slot = SlotContext(Record.speed, 1, Record.port) /\ WithEndpoints(slot[me], context) = WithContext(Given(me), 1, c)
    <3>1. HandsOver(Record, ep, 1, slot[me])
      <4>1. EndpointId(ep) # 0 /\ 0 \notin DOMAIN slot[me].endpoint
        BY <2>3, <2>4 DEF Given
      <4>2. HandsOver(Record, ep, EndpointId(ep), slot[me])
        BY <4>1, HandedOver
      <4> QED BY <2>4, <4>2
    <3> QED BY <3>1 DEF HandsOver, Given
  <2>6. DOMAIN c = ContextFields /\ c.ring = Record.transfer[1] /\ c.mps = InitialMps(Record.speed)
    BY <2>4, ContextIs
  <2>7. trb.type = "address_device" /\ trb.context = context
    BY DEF AddressDeviceTrb
  <2> HIDE DEF c, context, trb
  <2>8. /\ Obeyed(slot[me], trb).state = "addressed" /\ Obeyed(slot[me], trb).speed = Record.speed
        /\ Obeyed(slot[me], trb).root = Record.port + 1
        /\ Obeyed(slot[me], trb).endpoint = WithContext(Given(me), 1, c)
    BY <2>5, <2>7 DEF Obeyed, SlotContext
  <2>9. slot'[me] = Obeyed(slot[me], trb) /\ \A t \in Slots \ {me} : slot'[t] = slot[t]
    BY <1>4 DEF OwnedInv, SlotTypes, This
  <2>10. thread.port \in Nat /\ Record.port + 1 = thread.port
    <3>1. thread.port \in Nat
      BY DEF OwnedInv, ThreadTypes
    <3>2. ASSUME NEW p \in Nat PROVE p - 1 + 1 = p
      OBVIOUS
    <3> QED BY <2>2, <3>1, <3>2
  <2>11. /\ slot'[me].state = "addressed" /\ slot'[me].speed = Here.speed /\ slot'[me].root = thread.port
         /\ DOMAIN Given(me)' = {1} /\ Given(me)'[1] = c /\ Given(me)' = [e \in DOMAIN Given(me)' |-> Given(me)'[e]]
    <3>1. Given(me)' = WithContext(Given(me), 1, c)
      BY <2>8, <2>9 DEF Given
    <3> PICK given, old : given = WithContext(Given(me), 1, c) /\ old = Given(me)
      OBVIOUS
    <3> given = [e \in DOMAIN old \cup {1} |-> IF e = 1 THEN c ELSE old[e]]
      BY DEF WithContext
    <3>2. DOMAIN given = {1} /\ given[1] = c /\ given = [e \in DOMAIN given |-> given[e]]
      BY <2>3
    <3>3. Given(me)' = given
      BY <3>1
    <3> QED BY <2>2, <2>3, <2>8, <2>9, <2>10, <3>2, <3>3
  <2>12. Behind(me)' = Here /\ Here' = Here /\ Present' = Present /\ Record' = Record /\ This' = me
    BY <1>1, <2>1, <2>11 DEF Behind, Here, Present, Record, This
  <2>13. me \in Known'
    BY <2>11 DEF Known
  <2>14. SlotKnown(me)'
    <3>1. \A e \in DOMAIN Given(me)' :
            /\ DOMAIN Given(me)'[e] = ContextFields
            /\ e \in DOMAIN device'[me].transfer /\ Given(me)'[e].ring = device'[me].transfer[e] /\ e = 1
      BY <1>1, <2>2, <2>6, <2>11
    <3>2. thread.port <= thread'.port
      BY <2>1, <2>10
    <3> QED BY <2>2, <2>11, <2>12, <2>13, <3>1, <3>2 DEF SlotKnown
  <2>15. \A t \in Slots \ {me} : SlotStays(t)
    BY <1>1, <2>1, <2>9, <2>10 DEF SlotStays
  <2>16. RootsApart'
    <3>1. thread'.at \in Told
      BY <2>1 DEF Told, Addressing
    <3> QED BY <1>2, <2>1, <2>11, <2>15, <3>1, RootsTold DEF OwnedInv
  <2>17. SlotAtHand'
    BY <2>1, <2>2, <2>6, <2>11, <2>12, <2>13
       DEF SlotAtHand, Told, Sized, Chosen, Begun, Addressing, Configuring, Using, Inquiring
  <2>18. DeviceAtHand'
    BY <2>1 DEF DeviceAtHand, Chosen, Configuring, Using, Inquiring
  <2> QED BY <1>1, <1>2, <2>1, <2>3, <2>14, <2>15, <2>16, <2>17, <2>18, Unserved, ChangedAgrees DEF OwnedInv
<1> HIDE DEF trb
<1> QED BY <1>1, <1>3, <1>4 DEF Command

(* ... or the one the device has reported.                                  *)
LEMMA EvaluateContextAgrees == OwnedInv /\ AgreeInv /\ EvaluateContext => AgreeInv'
<1> SUFFICES ASSUME OwnedInv, AgreeInv, EvaluateContext PROVE AgreeInv'
  OBVIOUS
<1> DEFINE ep == ControlEndpoint(Reported(Here))
           context == InputContext(Record, ep)
           trb == EvaluateContextTrb(thread.slot, context)
<1>1. thread.at = "evaluate" /\ Command(trb, "desc18", 6) /\ UNCHANGED <<usb, unit, device, input>>
  BY DEF EvaluateContext, world, tables
<1>2. thread.at \in Told /\ thread.at \notin {"panic", "port"} /\ thread.at \notin NoSlot /\ thread.at \in Addressing
  BY <1>1 DEF NoSlot, Told, Addressing, Configuring, Using, Inquiring
<1>3. CASE Answer(6) /\ UNCHANGED slot
  BY <1>1, <1>2, <1>3, Unserved, AnswerAgrees
<1>4. CASE slot' = [slot EXCEPT ![thread.slot] = Obeyed(@, trb)] /\ Go("desc18")
  <2> PICK me \in Slots : me = This
    BY <1>2 DEF OwnedInv, SlotsHold
  <2>1. thread'.at = "desc18" /\ thread'.port = thread.port /\ thread'.slot = thread.slot
    BY <1>4, Goes DEF OwnedInv
  <2>2. /\ me \in Known /\ slot[me].state = "addressed" /\ slot[me].root = thread.port
        /\ Record.port = thread.port - 1 /\ Record.speed = Here.speed
        /\ thread.port \in Present /\ thread.port \in Nat /\ Behind(me) = Here
    BY <1>1, <1>2 DEF AgreeInv, SlotAtHand, OwnedInv, ThreadTypes, Behind, Here
  <2>3. DOMAIN Given(me) = {1} /\ DOMAIN slot[me] = SlotFields /\ DOMAIN Given(me)[1] = ContextFields
    BY <2>2 DEF AgreeInv, SlotKnown, OwnedInv, SlotTypes
  <2>4. EndpointId(ep) = 1 /\ ep.MPSZ = Reported(Here)
    BY ControlIs
  <2> HIDE DEF ep
  <2> DEFINE m == context.endpoint[1].mps
  <2>5. m = Reported(Here)
    <3>1. context.endpoint[1] = EndpointContext(Record.speed, ep, Record.transfer[1])
      <4>1. EndpointId(ep) # 0 /\ 0 \notin DOMAIN slot[me].endpoint
        BY <2>4, NoContextZero DEF Given
      <4>2. HandsOver(Record, ep, EndpointId(ep), slot[me])
        BY <4>1, HandedOver
      <4> QED BY <2>4, <4>2 DEF HandsOver
    <3> QED BY <2>4, <3>1, ContextIs
  <2>6. trb.type = "evaluate_context" /\ trb.context = context
    BY DEF EvaluateContextTrb
  <2> HIDE DEF trb, context, m
  <2>7. Obeyed(slot[me], trb) = [slot[me] EXCEPT !.endpoint[1].mps = m]
    BY <2>6 DEF Obeyed, m
  <2>8. slot'[me] = [slot[me] EXCEPT !.endpoint[1].mps = m] /\ \A t \in Slots \ {me} : slot'[t] = slot[t]
    BY <1>4, <2>7 DEF OwnedInv, SlotTypes, This
  <2>9. /\ slot'[me].state = slot[me].state /\ slot'[me].root = slot[me].root /\ slot'[me].speed = slot[me].speed
        /\ Given(me)' = [Given(me) EXCEPT ![1].mps = m]
    BY <2>3, <2>8 DEF SlotFields, Given
  <2>10. /\ DOMAIN Given(me)' = {1} /\ Given(me)'[1] = [Given(me)[1] EXCEPT !.mps = m]
         /\ Given(me)' = [e \in DOMAIN Given(me)' |-> Given(me)'[e]]
    BY <2>3, <2>9
  <2>11. DOMAIN Given(me)'[1] = ContextFields /\ Given(me)'[1].mps = m /\ Given(me)'[1].ring = Given(me)[1].ring
    BY <2>3, <2>10 DEF ContextFields
  <2>12. Behind(me)' = Here /\ Here' = Here /\ Present' = Present /\ Record' = Record /\ This' = me
    BY <1>1, <2>1, <2>2, <2>9 DEF Behind, Here, Present, Record, This
  <2>13. me \in Known'
    BY <2>2, <2>9 DEF Known
  <2>14. SlotKnown(me)'
    <3>1. SlotKnown(me)
      BY DEF AgreeInv
    <3>2. \A e \in DOMAIN Given(me)' :
            /\ DOMAIN Given(me)'[e] = ContextFields
            /\ e \in DOMAIN device'[me].transfer /\ Given(me)'[e].ring = device'[me].transfer[e] /\ e = 1
      <4>1. 1 \in DOMAIN device[me].transfer /\ Given(me)[1].ring = device[me].transfer[1]
        BY <2>3, <3>1 DEF SlotKnown
      <4>2. \A e \in DOMAIN Given(me)' : e = 1
        BY <2>10
      <4>3. device' = device /\ DOMAIN Given(me)'[1] = ContextFields /\ Given(me)'[1].ring = device[me].transfer[1]
        BY <1>1, <2>11, <4>1
      <4> QED BY <4>1, <4>2, <4>3
    <3> QED BY <2>1, <2>2, <2>9, <2>10, <2>12, <2>13, <3>1, <3>2 DEF SlotKnown
  <2>15. \A t \in Slots \ {me} : SlotStays(t)
    BY <1>1, <2>1, <2>2, <2>8 DEF SlotStays
  <2>16. RootsApart'
    <3>1. thread'.at \in Told
      BY <2>1 DEF Told, Addressing
    <3> QED BY <1>2, <2>1, <2>2, <2>9, <2>15, <3>1, RootsTold DEF OwnedInv
  <2>17. SlotAtHand'
    BY <2>1, <2>2, <2>5, <2>9, <2>11, <2>12, <2>13
       DEF SlotAtHand, Told, Sized, Chosen, Begun, Addressing, Configuring, Using, Inquiring
  <2>18. DeviceAtHand'
    BY <2>1 DEF DeviceAtHand, Chosen, Configuring, Using, Inquiring
  <2> QED BY <1>1, <1>2, <2>1, <2>2, <2>14, <2>15, <2>16, <2>17, <2>18, Unserved, ChangedAgrees DEF OwnedInv
<1> HIDE DEF trb
<1> QED BY <1>1, <1>3, <1>4 DEF Command

(* What the search finds is among the descriptors, ...                      *)
LEMMA SearchIs ==
  ASSUME NEW u \in Devices, NEW type, NEW dir, UsbSearchEndpoint(u.conf, type, dir) # <<>>
  PROVE  \E i \in DOMAIN u.conf.DATA :
           UsbSearchEndpoint(u.conf, type, dir)[1] = u.conf.DATA[i] /\ IsEndpoint(u.conf.DATA[i], type, dir)
<1> DEFINE body == u.conf.DATA
           found == {i \in DOMAIN body : IsEndpoint(body[i], type, dir)}
<1>1. UsbSearchEndpoint(u.conf, type, dir) = FirstOf(body, found)
  BY DEF UsbSearchEndpoint
<1>2. found \in SUBSET Nat /\ found # {}
  BY <1>1, EnumerationAssumption DEF FirstOf
<1>3. \A i \in found : i \in DOMAIN body /\ IsEndpoint(body[i], type, dir)
  OBVIOUS
<1> HIDE DEF found, body
<1>4. PICK i \in found : FirstOf(body, found) = <<body[i]>>
  BY <1>2, FoundIn
<1>5. FirstOf(body, found)[1] = body[i]
  BY <1>4
<1> QED BY <1>1, <1>3, <1>5 DEF body

(* ... and the context made of it is as it says.                            *)
LEMMA AsDescribed ==
  ASSUME NEW u \in Devices, NEW i \in DOMAIN u.conf.DATA, NEW d, d = u.conf.DATA[i], d.TYPE = "endpoint",
         NEW r, NEW c, c = EndpointContext(u.speed, d, r)
  PROVE  /\ c.mps = d.MPSZ
         /\ XferType(d) = InterruptType =>
              2 ^ c.interval <= Period(u.speed, d) /\ Period(u.speed, d) < 2 * 2 ^ c.interval
<1>1. c.mps = d.MPSZ /\ (XferType(d) = InterruptType => c.interval = Interval(u.speed, d))
  BY ContextIs
<1>2. ASSUME XferType(d) = InterruptType
      PROVE  2 ^ c.interval <= Period(u.speed, d) /\ Period(u.speed, d) < 2 * 2 ^ c.interval
  <2>1. d.ITVL \in 1 .. IF Slow(u.speed) THEN 255 ELSE 16
    BY <1>2, EnumerationAssumption
  <2>2. 2 ^ Interval(u.speed, d) <= Period(u.speed, d) /\ Period(u.speed, d) < 2 * 2 ^ Interval(u.speed, d)
    BY <2>1, PolledInTime
  <2> HIDE DEF Period
  <2> QED BY <1>1, <1>2, <2>2, Zenon
<1> QED BY <1>1, <1>2

LEMMA EndpointGiven ==
  ASSUME OwnedInv, AgreeInv, thread.at = "configure", NEW next \in Chosen, Go(next), UNCHANGED <<usb, unit, input>>,
         NEW i \in DOMAIN Here.conf.DATA, NEW d, d = Here.conf.DATA[i], d.TYPE = "endpoint",
         NEW id, id = EndpointId(d), id \notin DOMAIN Record.transfer, NEW q,
         device' = [device EXCEPT ![This].transfer = WithRing(@, id, q)],
         slot' = [slot EXCEPT ![This] = Obeyed(@, ConfigureEndpointTrb(This, InputContext(device'[This], d)))]
  PROVE  /\ DeviceAtHand' => AgreeInv'
         /\ Given(This)' = WithContext(Given(This), id, EndpointContext(Here.speed, d, q))
         /\ slot'[This].root = thread.port
<1>1. /\ thread.at \in Told /\ thread.at \in Chosen /\ thread.at \in Sized /\ thread.at \notin {"panic", "port"}
      /\ thread.at \notin NoSlot
  BY DEF NoSlot, Told, Sized, Chosen, Addressing, Configuring, Using, Inquiring
<1> PICK me \in Slots : me = This
  BY <1>1 DEF OwnedInv, SlotsHold
<1>2. thread'.at = next /\ thread'.port = thread.port /\ thread'.slot = thread.slot
  BY Goes DEF OwnedInv
<1>3. /\ me \in Known /\ slot[me].root = thread.port
      /\ Record.port = thread.port - 1 /\ Record.speed = Here.speed /\ Given(me)[1].mps = Reported(Here)
      /\ thread.port \in Present /\ thread.port \in Nat /\ Behind(me) = Here /\ Here \in Devices /\ Record = device[me]
  BY <1>1 DEF AgreeInv, SlotAtHand, OwnedInv, ThreadTypes, DataTypes, Present, Behind, Here, Record, This
<1>4. SlotKnown(me) /\ 0 \notin DOMAIN Given(me) /\ id \in Nat \ {0, 1}
  BY <1>3, NoContextZero, EndpointOf DEF AgreeInv
<1> DEFINE new == device'[me]
<1>5. /\ new = [device[me] EXCEPT !.transfer = WithRing(@, id, q)] /\ \A t \in Slots \ {me} : device'[t] = device[t]
      /\ new.speed = Here.speed /\ new.transfer = WithRing(device[me].transfer, id, q)
  BY <1>3 DEF OwnedInv, DataTypes, RecordType
<1>6. /\ DOMAIN new.transfer = DOMAIN device[me].transfer \cup {id} /\ new.transfer[id] = q
      /\ \A e \in DOMAIN device[me].transfer : new.transfer[e] = device[me].transfer[e]
  BY <1>3, <1>5 DEF WithRing
<1> DEFINE c == EndpointContext(Here.speed, d, q)
           context == InputContext(new, d)
           trb == ConfigureEndpointTrb(me, context)
<1>7. WithEndpoints(slot[me], context) = WithContext(Given(me), id, c)
  <2>1. EndpointId(d) # 0 /\ 0 \notin DOMAIN slot[me].endpoint
    BY <1>4 DEF Given
  <2>2. HandsOver(new, d, EndpointId(d), slot[me])
    BY <2>1, HandedOver
  <2> QED BY <1>5, <1>6, <2>2 DEF HandsOver, Given
<1>8. DOMAIN c = ContextFields /\ c.ring = q
  BY ContextIs
<1>9. trb.type = "configure_endpoint" /\ trb.context = context
  BY DEF ConfigureEndpointTrb
<1>10. /\ slot'[me] = Obeyed(slot[me], trb) /\ \A t \in Slots \ {me} : slot'[t] = slot[t]
  BY DEF OwnedInv, SlotTypes
<1>11. /\ c.mps = d.MPSZ
       /\ XferType(d) = InterruptType =>
            2 ^ c.interval <= Period(Here.speed, d) /\ Period(Here.speed, d) < 2 * 2 ^ c.interval
  BY <1>3, AsDescribed
<1> HIDE DEF c, context, trb
<1>12. Obeyed(slot[me], trb) = [slot[me] EXCEPT !.state = "configured", !.entries = context.slot.entries,
                                                !.endpoint = WithContext(Given(me), id, c)]
  BY <1>7, <1>9 DEF Obeyed
<1>13. /\ slot'[me].state = "configured" /\ slot'[me].root = thread.port /\ slot'[me].speed = slot[me].speed
       /\ Given(me)' = WithContext(Given(me), id, c)
  <2>1. DOMAIN slot[me] = SlotFields
    BY DEF OwnedInv, SlotTypes
  <2> PICK was, is, with, n : was = slot[me] /\ is = slot'[me] /\ with = WithContext(Given(me), id, c)
                              /\ n = context.slot.entries
    OBVIOUS
  <2>2. is = [was EXCEPT !.state = "configured", !.entries = n, !.endpoint = with]
    BY <1>10, <1>12
  <2>3. is.state = "configured" /\ is.root = was.root /\ is.speed = was.speed /\ is.endpoint = with
    BY <2>1, <2>2 DEF SlotFields
  <2> QED BY <1>3, <2>3 DEF Given
<1> PICK given, old : given = Given(me)' /\ old = Given(me)
  OBVIOUS
<1>14. /\ DOMAIN given = DOMAIN old \cup {id} /\ given[id] = c /\ \A e \in DOMAIN old \ {id} : given[e] = old[e]
       /\ given = [e \in DOMAIN given |-> given[e]]
  BY <1>13 DEF WithContext
<1>15. id \notin DOMAIN old /\ 1 \in DOMAIN old
  BY <1>3, <1>4 DEF SlotKnown
<1>16. Behind(me)' = Here /\ Here' = Here /\ Present' = Present /\ Record' = new /\ This' = me /\ me \in Known'
  <2>1. Here' = Here /\ Present' = Present /\ This' = me
    BY <1>2 DEF Here, Present, This
  <2>2. Record' = new
    BY <2>1 DEF Record, This
  <2>3. Behind(me)' = Here
    BY <1>13 DEF Behind, Here
  <2>4. me \in Known'
    BY <1>13 DEF Known
  <2> QED BY <2>1, <2>2, <2>3, <2>4
<1>17. ASSUME NEW e \in DOMAIN given, e # 1 PROVE Described(me, e)'
  <2>1. CASE e = id
    <3>1. Given(me)'[e] = c
      BY <1>14, <2>1
    <3> QED BY <1>11, <1>16, <2>1, <3>1, Zenon DEF Described
  <2>2. CASE e # id
    <3>1. Given(me)'[e] = Given(me)[e] /\ Described(me, e)
      BY <1>4, <1>14, <1>17, <2>2 DEF SlotKnown
    <3>2. Behind(me)' = Behind(me)
      BY <1>3, <1>16
    <3> QED BY ONLY <3>1, <3>2, Zenon DEF Described
  <2> QED BY <2>1, <2>2
<1>18. SlotKnown(me)'
  <2>1. ASSUME NEW e \in DOMAIN given
        PROVE  DOMAIN given[e] = ContextFields /\ e \in DOMAIN new.transfer /\ given[e].ring = new.transfer[e]
    <3>1. CASE e = id
      BY <1>6, <1>8, <1>14, <3>1
    <3>2. CASE e # id
      <4>1. e \in DOMAIN old /\ given[e] = old[e]
        BY <1>14, <3>2
      <4>2. DOMAIN old[e] = ContextFields /\ e \in DOMAIN device[me].transfer /\ old[e].ring = device[me].transfer[e]
        BY <1>4, <4>1 DEF SlotKnown
      <4> QED BY <1>6, <4>1, <4>2
    <3> QED BY <3>1, <3>2
  <2>2. 1 \in DOMAIN given /\ given[1].mps = Reported(Here) /\ thread'.port = thread.port /\ slot'[me].speed = Here.speed
    BY <1>2, <1>3, <1>4, <1>13, <1>14, <1>15 DEF SlotKnown
  <2>3. thread.port <= thread'.port /\ thread.port \in Present'
    BY <1>2, <1>3, <1>16
  <2>4. slot'[me].state = "configured" /\ slot'[me].root = thread.port /\ me \in Known' /\ 1 \in DOMAIN given
    BY <1>13, <1>16, <2>2
  <2> HIDE DEF new
  <2>5. \A e \in DOMAIN given :
          /\ DOMAIN given[e] = ContextFields
          /\ e \in DOMAIN new.transfer /\ given[e].ring = new.transfer[e]
          /\ e # 1 => Described(me, e)'
    BY ONLY <1>17, <2>1
  <2>6. device'[me] = new
    BY DEF new
  <2>7. /\ given = Given(me)' /\ given = [e \in DOMAIN given |-> given[e]]
        /\ Behind(me)' = Here /\ given[1].mps = Reported(Here) /\ slot'[me].speed = Here.speed
    BY <1>14, <1>16, <2>2
  <2> HIDE DEF Given, Described
  <2> QED BY ONLY <2>3, <2>4, <2>5, <2>6, <2>7 DEF SlotKnown
<1>19. \A t \in Slots \ {me} : SlotStays(t)
  BY <1>2, <1>3, <1>5, <1>10 DEF SlotStays
<1>20. next \in Told /\ next \in Sized /\ next \notin Addressing \cup Begun \cup {"port"}
  BY DEF Told, Sized, Chosen, Begun, Addressing, Configuring, Using, Inquiring
<1>21. RootsApart'
  BY <1>1, <1>2, <1>13, <1>19, <1>20, RootsTold DEF OwnedInv
<1>22. SlotAtHand'
  <2>1. Given(me)'[1].mps = Reported(Here) /\ new.port = thread.port - 1
    BY <1>3, <1>5, <1>14, <1>15 DEF OwnedInv, DataTypes, RecordType
  <2>2. thread'.at \notin {"address", "desc8"} \cup Addressing \cup Begun
    BY <1>2, <1>20 DEF Addressing
  <2> HIDE DEF new
  <2> QED BY <1>2, <1>3, <1>5, <1>13, <1>16, <1>20, <2>1, <2>2 DEF SlotAtHand
<1>23. DeviceAtHand' => AgreeInv'
  BY <1>1, <1>2, <1>3, <1>18, <1>19, <1>21, <1>22, Unserved, ChangedAgrees DEF OwnedInv
<1>24. Given(This)' = Given(me)' /\ slot'[This] = slot'[me] /\ Given(This) = Given(me)
  BY <1>16 DEF Given
<1> HIDE DEF new
<1> QED BY <1>13, <1>23, <1>24 DEF c

(* An endpoint that fails has its ring, of which the controller was not told.*)
LEMMA UntoldAgrees ==
  ASSUME OwnedInv, AgreeInv, thread.at = "configure", NEW id, id \notin DOMAIN Record.transfer, NEW q,
         device' = [device EXCEPT ![This].transfer = WithRing(@, id, q)],
         NEW code, Answer(code), UNCHANGED <<usb, unit, slot, input>>
  PROVE  AgreeInv'
<1>1. thread'.at = "port" /\ thread'.port = thread.port /\ thread.port \in Nat /\ thread.at # "port"
  BY Goes DEF OwnedInv, Answer, ThreadTypes
<1>2. ASSUME NEW s \in Slots PROVE SlotStays(s)
  <2> DEFINE old == device[s].transfer
  <2>1. device'[s].transfer = IF s = This THEN WithRing(old, id, q) ELSE old
    BY DEF OwnedInv, DataTypes, RecordType
  <2>2. s = This => id \notin DOMAIN old
    BY DEF Record, This
  <2> HIDE DEF old
  <2>3. \A e \in DOMAIN old : e \in DOMAIN device'[s].transfer /\ device'[s].transfer[e] = old[e]
    BY <2>1, <2>2 DEF WithRing
  <2> QED BY <1>1, <2>3 DEF SlotStays, old
<1> QED BY <1>1, <1>2, Unserved, EndedAgrees DEF OwnedInv

LEMMA ConfigureEndpointAgrees == OwnedInv /\ AgreeInv /\ ConfigureEndpoint => AgreeInv'
<1> SUFFICES ASSUME OwnedInv, AgreeInv, ConfigureEndpoint PROVE AgreeInv'
  OBVIOUS
<1> DEFINE q == Lowest(free)
           next == AfterConfigured
           me == This
<1>1. /\ thread.at = "configure" /\ UNCHANGED <<usb, unit, input>>
      /\ device' = [device EXCEPT ![This].transfer = WithRing(@, EndpointId(Endpoint), q)]
      /\ Configure(device'[This])
  BY DEF ConfigureEndpoint, world, This
<1>2. /\ thread.at \in Configuring /\ thread.at \in Chosen /\ thread.at \in Told /\ thread.at # "protocol"
  BY <1>1 DEF Configuring, Chosen, Told
<1> HIDE DEF q
<1>3. /\ 1 \in DOMAIN todo /\ Endpoint = todo[1].endpoint /\ EndpointId(Endpoint) \notin DOMAIN Record.transfer
  <2>1. PICK a \in ToDo, b \in ToDo : todo \in {<<a>>, <<a, b>>}
    BY <1>2 DEF OwnedInv, RingsAhead
  <2>2. 1 \in DOMAIN todo /\ Endpoint = todo[1].endpoint
    BY <2>1 DEF Endpoint
  <2> QED BY <1>2, <2>2 DEF OwnedInv, RingsAhead
<1> DEFINE trb == ConfigureEndpointTrb(This, InputContext(device'[This], Endpoint))
<1>4. /\ Command(trb, next, Head(todo).fails)
      /\ todo' = IF thread'.at = "port" THEN todo ELSE Tail(todo)
  BY <1>1 DEF Configure, This
<1>5. CASE Answer(Head(todo).fails) /\ UNCHANGED slot
  BY <1>1, <1>3, <1>5, UntoldAgrees
<1>6. CASE slot' = [slot EXCEPT ![This] = Obeyed(@, trb)] /\ Go(next)
  <2>1. thread'.at = next /\ thread'.port = thread.port /\ thread'.slot = thread.slot
    BY <1>6, Goes DEF OwnedInv
  <2>2. next \in {"configure", "listen", "lun"} /\ next \in Chosen /\ next # "port"
    BY DEF AfterConfigured, Chosen, Configuring, Using
  <2>3. todo' = Tail(todo)
    BY <1>4, <2>1, <2>2
  <2>4. Here' = Here /\ Here \in Devices /\ slot[This].root = thread.port /\ This' = This /\ Given(This) = slot[This].endpoint
    BY <1>1, <1>2, <2>1 DEF Here, OwnedInv, DataTypes, AgreeInv, SlotAtHand, Present, This, Given
  <2>5. /\ KeyEndpoint' = KeyEndpoint /\ DiskIn' = DiskIn /\ DiskOut' = DiskOut /\ (Keyboard <=> Keyboard')
        /\ unit'[thread'.port].configuration = Here'.conf.CNFV
    <3>1. Face' = Face /\ KeyEndpoint' = KeyEndpoint /\ DiskIn' = DiskIn /\ DiskOut' = DiskOut
      BY <2>4 DEF Face, KeyEndpoint, DiskIn, DiskOut
    <3> QED BY <1>1, <1>2, <2>1, <2>4, <3>1 DEF Keyboard, AgreeInv, DeviceAtHand
  <2>6. ASSUME NEW type, NEW dir \in {In, Out}, UsbSearchEndpoint(Here.conf, type, dir) # <<>>,
               Endpoint = UsbSearchEndpoint(Here.conf, type, dir)[1]
        PROVE  /\ DeviceAtHand' => AgreeInv'
               /\ Behind(This)' = Here
               /\ \A e \in DOMAIN Given(This) : e \in DOMAIN Given(This)'
               /\ EndpointId(Endpoint) \in DOMAIN Given(This)'
               /\ Boots(This) => Boots(This)'
               /\ type = InterruptType /\ dir = In => HasKeys(This)'
    <3> PICK d : d = Endpoint
      OBVIOUS
    <3>1. PICK i \in DOMAIN Here.conf.DATA : d = Here.conf.DATA[i] /\ IsEndpoint(d, type, dir)
      BY <2>4, <2>6, SearchIs
    <3>2. d.TYPE = "endpoint" /\ XferType(d) = type /\ (d.ADDR \div 128) * 128 = dir
      BY <3>1 DEF IsEndpoint
    <3> DEFINE id == EndpointId(d)
               c == EndpointContext(Here.speed, d, q)
    <3>3. /\ DeviceAtHand' => AgreeInv'
          /\ Given(This)' = WithContext(Given(This), id, c)
          /\ slot'[This].root = thread.port
      BY <1>1, <1>3, <1>6, <2>2, <3>1, <3>2, EndpointGiven
    <3>4. Behind(This)' = Here
      BY <1>1, <2>4, <3>3 DEF Behind, Here
    <3>5. DOMAIN Given(This)' = DOMAIN Given(This) \cup {id} /\ Given(This)'[id] = c
      BY <3>3 DEF WithContext
    <3>6. Boots(This) => Boots(This)'
      BY <1>1, <2>4, <3>3, <3>4 DEF Boots, Behind, Here
    <3>7. ASSUME type = InterruptType, dir = In PROVE HasKeys(This)'
      <4> DEFINE a == d.ADDR
      <4>1. a \in (1 .. 15) \cup (129 .. 143) /\ (a \div 128) * 128 = 128
        BY <2>4, <3>1, <3>2, <3>7, EnumerationAssumption DEF In, Out
      <4>2. a >= 128
        <5> HIDE DEF a
        <5>1. a \in 1 .. 15 => a \div 128 = 0
          OBVIOUS
        <5> QED BY <4>1, <5>1
      <4>3. ContextType(d) = 7
        BY <3>2, <3>7, <4>2 DEF ContextType, InterruptType
      <4>4. c.type = 7
        BY <4>3, ContextIs
      <4> HIDE DEF c
      <4> QED BY <3>5, <4>4 DEF HasKeys
    <3> QED BY <3>3, <3>4, <3>5, <3>6, <3>7
  <2>7. CASE Keyboard /\ KeyEndpoint # <<>> /\ todo = <<[endpoint |-> KeyEndpoint[1], fails |-> 1]>>
    <3>1. Endpoint = KeyEndpoint[1] /\ Len(todo) = 1
      BY <1>3, <2>7
    <3>2. next = "listen"
      BY <2>7, <3>1 DEF AfterConfigured
    <3>3. Boots(This)
      BY <1>2, <2>7 DEF AgreeInv, DeviceAtHand
    <3>4. (DeviceAtHand' => AgreeInv') /\ Boots(This)' /\ HasKeys(This)'
      BY <2>6, <2>7, <3>1, <3>3 DEF KeyEndpoint
    <3>5. DeviceAtHand'
      BY <2>1, <2>5, <3>2, <3>4 DEF DeviceAtHand, Chosen, Configuring, Using, Inquiring
    <3> QED BY <3>4, <3>5
  <2>8. CASE /\ ~Keyboard /\ DiskIn # <<>> /\ DiskOut # <<>>
             /\ todo = <<[endpoint |-> DiskIn[1], fails |-> 3], [endpoint |-> DiskOut[1], fails |-> 4]>>
    <3>1. Endpoint = DiskIn[1] /\ Len(todo) = 2 /\ todo' = <<[endpoint |-> DiskOut[1], fails |-> 4]>>
      BY <1>3, <2>3, <2>8
    <3>2. next = "configure"
      BY <3>1 DEF AfterConfigured
    <3>3. (DeviceAtHand' => AgreeInv') /\ EndpointId(DiskIn[1]) \in DOMAIN Given(This)'
      BY <2>6, <2>8, <3>1 DEF DiskIn
    <3>4. Has(This, DiskIn[1])'
      BY <2>5, <3>3 DEF Has
    <3>5. DeviceAtHand'
      BY <2>1, <2>5, <2>8, <3>1, <3>2, <3>4 DEF DeviceAtHand, Chosen, Configuring, Using, Inquiring
    <3> QED BY <3>3, <3>5
  <2>9. CASE /\ ~Keyboard /\ DiskIn # <<>> /\ DiskOut # <<>>
             /\ todo = <<[endpoint |-> DiskOut[1], fails |-> 4]>> /\ Has(This, DiskIn[1])
    <3>1. Endpoint = DiskOut[1] /\ Len(todo) = 1
      BY <1>3, <2>9
    <3>2. next = "lun"
      BY <2>9, <3>1 DEF AfterConfigured
    <3>3. /\ DeviceAtHand' => AgreeInv'
          /\ Behind(This)' = Here
          /\ \A e \in DOMAIN Given(This) : e \in DOMAIN Given(This)'
          /\ EndpointId(DiskOut[1]) \in DOMAIN Given(This)'
      BY <2>6, <2>9, <3>1 DEF DiskOut
    <3>4. EndpointId(DiskIn[1]) \in DOMAIN Given(This)'
      BY <2>9, <3>3 DEF Has
    <3>5. HasDisk(This)'
      BY <3>3, <3>4 DEF HasDisk, Has, DiskIn, DiskOut
    <3>6. DeviceAtHand'
      BY <2>1, <2>5, <3>2, <3>5 DEF DeviceAtHand, Chosen, Configuring, Using, Inquiring
    <3> QED BY <3>3, <3>6
  <2> QED BY <1>1, <1>2, <2>7, <2>8, <2>9 DEF AgreeInv, DeviceAtHand
<1> HIDE DEF trb
<1> QED BY <1>4, <1>5, <1>6 DEF Command, This

-----------------------------------------------------------------------------
LEMMA AgreeStep == OwnedInv /\ AgreeInv /\ [Next]_vars => AgreeInv'
<1> SUFFICES ASSUME OwnedInv, AgreeInv, [Next]_vars PROVE AgreeInv'
  OBVIOUS
<1>1. CASE UNCHANGED vars
  BY <1>1, AgreeStutters
<1>2. CASE NextPort \/ Request("reset", "enable", 1) \/ EnableSlot \/ SetUp \/ TooFewPages \/ DisableSlot
  BY <1>2, NextPortAgrees, ResetAgrees, EnableSlotAgrees, SetUpAgrees, TooFewPagesAgrees, DisableSlotAgrees
<1>3. CASE NoControlRing \/ NoEndpointRing \/ NoBuffer
  BY <1>3, PanicAgrees DEF NoControlRing, NoEndpointRing, NoBuffer
<1>4. CASE AddressDevice \/ FirstDescriptor \/ EvaluateContext \/ Descriptors \/ WalkDescriptors \/ SetConfiguration
  BY <1>4, AddressDeviceAgrees, FirstDescriptorAgrees, EvaluateContextAgrees, DescriptorsAgree, WalkAgrees,
     SetConfigurationAgrees
<1>5. CASE ChooseClass \/ BootProtocol \/ ConfigureEndpoint \/ ListenForKeys
  BY <1>5, ChooseClassAgrees, BootProtocolAgrees, ConfigureEndpointAgrees, ListenAgrees
<1>6. CASE AskDisk \/ GetBuffer \/ InsertDisk
  BY <1>6, AskDiskAgrees, GetBufferAgrees, InsertDiskAgrees
<1>7. CASE Inquire("inquiry", "capacity", 7) \/ Inquire("capacity", "insert", 8)
  BY <1>7, InquireAgrees DEF Inquiring
<1> QED BY <1>1, <1>2, <1>3, <1>4, <1>5, <1>6, <1>7 DEF Next

LEMMA AgreeIs == OwnedInv /\ AgreeInv => SlotAgrees
<1> SUFFICES ASSUME OwnedInv, AgreeInv PROVE SlotAgrees
  OBVIOUS
<1>1. RingsAgree
  <2>1. \A s \in Slots : \A e \in DOMAIN Given(s) :
          e \in DOMAIN device[s].transfer /\ Given(s)[e].ring = device[s].transfer[e]
    BY DEF AgreeInv, SlotKnown
  <2>2. ASSUME NEW s \in input.disks, NEW dir \in {In, Out}
        PROVE  \E e \in DOMAIN Given(s) :
                 \E d \in {UsbSearchEndpoint(Behind(s).conf, BulkType, dir)[1]} : e = EndpointId(d)
    BY DEF AgreeInv, UsersKnown, HasDisk, Has
  <2>3. input.keyboard # 0 => \E e \in DOMAIN Given(input.keyboard) : Given(input.keyboard)[e].type = 7
    BY DEF AgreeInv, UsersKnown, HasKeys
  <2> QED BY <2>1, <2>2, <2>3 DEF RingsAgree
<1>2. RootsAgree
  BY DEF AgreeInv, SlotKnown, RootsApart, RootsAgree, Known
<1>3. MpsAgreed
  <2>1. ASSUME NEW s \in Slots, slot[s].state = "configured" PROVE Given(s)[1].mps = Reported(Behind(s))
    BY <2>1 DEF AgreeInv, SlotKnown
  <2>2. ASSUME NEW s \in Slots, thread.slot = s, thread.at \in {"desc18", "walk", "class"}
        PROVE  Given(s)[1].mps = Reported(Behind(s))
    <3>1. thread.at \in Told /\ thread.at \in Sized /\ s = This
      BY <2>2 DEF Told, Sized, Addressing, This
    <3> QED BY <3>1 DEF AgreeInv, SlotAtHand, Behind, Here
  <2> QED BY <2>1, <2>2 DEF MpsAgreed
<1>4. EndpointsAsDescribed
  <2>1. \A s \in Known : \A e \in DOMAIN Given(s) \ {1} : Described(s, e)
    BY DEF AgreeInv, SlotKnown, Known
  <2> QED BY <2>1, Zenon DEF EndpointsAsDescribed, Described
<1>5. DevicesConfigured
  <2>1. ASSUME NEW s \in input.disks \cup ({input.keyboard} \ {0})
        PROVE  unit[slot[s].root].configuration = Behind(s).conf.CNFV
    BY DEF AgreeInv, UsersKnown, InUse
  <2>2. ASSUME NEW s \in input.disks \cup ({input.keyboard} \ {0}), s = input.keyboard
        PROVE  Interface(Behind(s))[1].IFCN \in unit[slot[s].root].booting
    <3>1. s # 0
      <4>1. s \in Slots
        BY DEF AgreeInv, UsersKnown, InUse, Known
      <4> QED BY <4>1, EnumerationAssumption
    <3> QED BY <2>2, <3>1 DEF AgreeInv, UsersKnown, Boots
  <2> QED BY <2>1, <2>2 DEF DevicesConfigured
<1> QED BY <1>1, <1>2, <1>3, <1>4, <1>5 DEF SlotAgrees

(* Driver, controller and device agree on each slot in use: at which port   *)
(* it is, where its rings are, how long its packets are, how often it is    *)
(* polled, and which configuration and protocol it has (xhci_device.c:14 to *)
(* 165, 308 to 430, usb_keyboard.c:34 to 74).                               *)
THEOREM SlotsAgree == Spec => []SlotAgrees
<1>1. OwnedInv /\ AgreeInv /\ [Next]_vars => (OwnedInv /\ AgreeInv)'
  BY OwnedStep, AgreeStep
<1> QED BY <1>1, OwnedInit, AgreeInit, AgreeIs, PTL DEF Spec

-----------------------------------------------------------------------------
(* The reset of a port.                                                     *)
PortPlaces == {"clear", "check", "power", "acknowledge", "reset", "wait", "settle", "verify", "done"}

PortType == [usb3 : BOOLEAN, CCSS : BOOLEAN, POEN : BOOLEAN, PPWR : BOOLEAN,
             resetting : BOOLEAN, changes : SUBSET Changes]

PortTypes ==
  /\ port \in PortType
  /\ status \in [RST : BOOLEAN, ERR : BOOLEAN]
  /\ events \in Nat
  /\ handler \in {"off", "read", "acknowledge"}
  /\ reset \in PortPlaces
  /\ resetAnswer \in -1 .. 4
  /\ history \in [completed : BOOLEAN, raced : BOOLEAN]

(* Before the thread asks for it no reset goes on, and none has ended.      *)
NotBefore ==
  reset \in {"clear", "check", "power", "acknowledge", "reset"} =>
    ~port.resetting /\ ~history.completed

(* A reset that ended is what set a change bit of a reset, or the driver's  *)
(* own bit.                                                                 *)
Ends == "WRCH" \in port.changes \/ "PRCH" \in port.changes

EndsKnown == reset # "done" /\ (status.RST \/ Ends) => history.completed

(* Change bits are there only with an event posted or with the handler.     *)
ChangesReported == port.changes # {} => events > 0 \/ handler # "off"

(* An end that nobody raced for is known, or will be.                       *)
EndNotMissed ==
  reset = "wait" /\ history.completed /\ ~history.raced =>
    status.RST \/ (Ends /\ handler # "acknowledge")

PortInv ==
  /\ PortTypes /\ NotBefore /\ EndsKnown /\ ChangesReported /\ EndNotMissed
  /\ reset # "done" => resetAnswer = NoAnswer
  /\ ResetKnown

LEMMA PortInvInit == PortInit => PortInv
<1> SUFFICES ASSUME PortInit PROVE PortInv
  OBVIOUS
<1>1. port \in PortType /\ port.changes = {"CSCH"} /\ ~port.resetting
  BY DEF PortInit, PortType, Changes
<1> QED
  BY <1>1 DEF PortInit, PortInv, PortTypes, NotBefore, Ends, EndsKnown, ChangesReported,
              EndNotMissed, ResetKnown, PortPlaces, NoAnswer, NoStatus

(* What the port reports is added to its change bits, and there is an event *)
(* for it.                                                                  *)
LEMMA ReportAdds ==
  ASSUME PortInv, NEW changed \in PortType, changed.changes = port.changes,
         NEW changes \in SUBSET Changes, Report(changed, changes)
  PROVE  /\ port' \in PortType /\ events' \in Nat
         /\ port'.resetting = changed.resetting
         /\ port'.changes = port.changes \cup changes
         /\ ChangesReported'
BY DEF PortInv, PortTypes, ChangesReported, Report, PortType

LEMMA PortInvStep == PortInv /\ [PortNext]_portVars => PortInv'
<1> SUFFICES ASSUME PortInv, [PortNext]_portVars PROVE PortInv'
  OBVIOUS
<1> USE DEF PortInv, PortTypes, NotBefore, Ends, EndsKnown, ChangesReported, EndNotMissed,
            ResetKnown, PortPlaces, NoAnswer, NoStatus, Runs, Return
<1>1. CASE ClearStatus
  BY <1>1 DEF ClearStatus
<1>2. CASE CheckEnabled
  BY <1>2 DEF CheckEnabled
<1>3. CASE PowerOn
  <2>1. port' \in PortType /\ port'.changes = port.changes /\ port'.resetting = port.resetting
    BY <1>3 DEF PowerOn, PortType
  <2> QED BY <1>3, <2>1 DEF PowerOn
<1>4. CASE Acknowledge
  <2>1. port' \in PortType /\ port'.changes = {} /\ port'.resetting = port.resetting
    BY <1>4 DEF Acknowledge, PortType
  <2> QED BY <1>4, <2>1 DEF Acknowledge
<1>5. CASE StartReset
  <2>1. port' \in PortType /\ port'.changes = port.changes
    BY <1>5 DEF StartReset, PortType
  <2> QED BY <1>5, <2>1 DEF StartReset
<1>6. CASE WaitOver
  BY <1>6 DEF WaitOver
<1>7. CASE TimesOut
  BY <1>7 DEF TimesOut
<1>8. CASE CheckError
  BY <1>8 DEF CheckError
<1>9. CASE VerifyEnabled
  BY <1>9 DEF VerifyEnabled
<1>10. CASE TakeEvent
  BY <1>10 DEF TakeEvent
<1>11. CASE ReadChanges
  <2>1. status' \in [RST : BOOLEAN, ERR : BOOLEAN] /\ (status'.RST <=> status.RST \/ Ends)
    BY <1>11 DEF ReadChanges
  <2> QED BY <1>11, <2>1 DEF ReadChanges
<1>12. CASE AcknowledgeChanges
  <2>1. port' \in PortType /\ port'.changes = {} /\ port'.resetting = port.resetting
    BY <1>12 DEF AcknowledgeChanges, PortType
  <2> QED BY <1>12, <2>1 DEF AcknowledgeChanges
<1>13. CASE ResetDone
  <2> DEFINE changed == [port EXCEPT !.resetting = FALSE, !.POEN = TRUE]
             changes == IF port.usb3 THEN {"WRCH", "PRCH"} ELSE {"PRCH"}
  <2>1. changed \in PortType /\ changed.changes = port.changes /\ ~changed.resetting
    BY DEF PortType
  <2>2. changes \in SUBSET Changes /\ "PRCH" \in changes
    BY DEF Changes
  <2>3. Report(changed, changes) /\ UNCHANGED <<status, handler, reset, resetAnswer>>
    BY <1>13 DEF ResetDone, Report
  <2> HIDE DEF changed, changes
  <2>4. /\ port' \in PortType /\ events' \in Nat /\ ~port'.resetting
        /\ port'.changes = port.changes \cup changes /\ ChangesReported'
    BY <2>1, <2>2, <2>3, ReportAdds
  <2>5. IF reset = "done" THEN history' = history
        ELSE history' = [completed |-> TRUE, raced |-> handler = "acknowledge"]
    BY <1>13 DEF ResetDone
  <2>6. port.resetting
    BY <1>13 DEF ResetDone
  <2>7. "PRCH" \in port'.changes /\ reset \in {"wait", "settle", "verify", "done"}
    BY <2>2, <2>4, <2>6
  <2>8. CASE reset = "done"
    BY <2>3, <2>4, <2>5, <2>8
  <2>9. CASE reset # "done"
    <3>1. history' = [completed |-> TRUE, raced |-> handler = "acknowledge"]
      BY <2>5, <2>9
    <3>2. PortTypes' /\ NotBefore' /\ EndsKnown' /\ ChangesReported'
      BY <2>3, <2>4, <2>7, <3>1
    <3>3. /\ handler' = handler /\ reset' = reset /\ resetAnswer' = NoAnswer
          /\ history'.completed /\ (history'.raced <=> handler = "acknowledge")
      BY <2>3, <2>9, <3>1
    <3>4. EndNotMissed'
      BY <2>7, <3>3
    <3>5. ResetKnown'
      BY <3>3
    <3> QED BY <3>2, <3>3, <3>4, <3>5
  <2> QED BY <2>8, <2>9
<1>14. ASSUME NEW changed \in PortType, changed.changes = port.changes,
              changed.resetting = port.resetting,
              NEW changes \in SUBSET Changes, changes \cap {"WRCH", "PRCH"} = {},
              Report(changed, changes), UNCHANGED history
       PROVE  PortInv'
  <2>1. /\ port' \in PortType /\ events' \in Nat /\ port'.resetting = port.resetting
        /\ port'.changes = port.changes \cup changes /\ ChangesReported'
    BY <1>14, ReportAdds
  <2>2. UNCHANGED <<status, handler, reset, resetAnswer, history>>
    BY <1>14 DEF Report
  <2>3. Ends' <=> Ends
    BY <1>14, <2>1
  <2> QED BY <2>1, <2>2, <2>3
<1>15. CASE ConfigurationFails
  <2> DEFINE changed == [port EXCEPT !.POEN = FALSE]
  <2>1. /\ changed \in PortType /\ changed.changes = port.changes
        /\ changed.resetting = port.resetting
    BY DEF PortType
  <2>2. {"CECH"} \in SUBSET Changes /\ {"CECH"} \cap {"WRCH", "PRCH"} = {}
    BY DEF Changes
  <2>3. Report(changed, {"CECH"}) /\ UNCHANGED history
    BY <1>15 DEF ConfigurationFails
  <2> HIDE DEF changed
  <2> QED BY <1>14, <2>1, <2>2, <2>3
<1>16. CASE Disconnect
  <2> DEFINE changed == [port EXCEPT !.CCSS = FALSE, !.POEN = FALSE]
  <2>1. /\ changed \in PortType /\ changed.changes = port.changes
        /\ changed.resetting = port.resetting
    BY DEF PortType
  <2>2. {"CSCH"} \in SUBSET Changes /\ {"CSCH"} \cap {"WRCH", "PRCH"} = {}
    BY DEF Changes
  <2>3. Report(changed, {"CSCH"}) /\ UNCHANGED history
    BY <1>16 DEF Disconnect
  <2> HIDE DEF changed
  <2> QED BY <1>14, <2>1, <2>2, <2>3
<1>17. CASE Connect
  <2> DEFINE changed == [port EXCEPT !.CCSS = TRUE, !.POEN = port.usb3]
  <2>1. /\ changed \in PortType /\ changed.changes = port.changes
        /\ changed.resetting = port.resetting
    BY DEF PortType
  <2>2. {"CSCH"} \in SUBSET Changes /\ {"CSCH"} \cap {"WRCH", "PRCH"} = {}
    BY DEF Changes
  <2>3. Report(changed, {"CSCH"}) /\ UNCHANGED history
    BY <1>17 DEF Connect
  <2> HIDE DEF changed
  <2> QED BY <1>14, <2>1, <2>2, <2>3
<1>18. CASE UNCHANGED portVars
  BY <1>18 DEF portVars
<1> QED BY <1>1, <1>2, <1>3, <1>4, <1>5, <1>6, <1>7, <1>8, <1>9, <1>10, <1>11, <1>12,
           <1>13, <1>15, <1>16, <1>17, <1>18 DEF PortNext, PortReset, PortInterrupt

(* However the events of the port, the handler and the thread fall          *)
(* together: the driver goes on only after the end of its own reset, and    *)
(* gives up on one that ended only when nobody could see it.                *)
THEOREM ResetEndKnown == PortSpec => []ResetKnown
BY PortInvInit, PortInvStep, PTL DEF PortSpec, PortInv
=============================================================================
