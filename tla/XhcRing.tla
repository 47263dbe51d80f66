-------------------------------- MODULE XhcRing --------------------------------
(***************************************************************************)
(* The rings of driver/xhci/xhc_ring.c.  A ring is a page of TRBs shared   *)
(* by the driver and the controller.  Neither tells the other how far it   *)
(* has come: a TRB is new when its cycle bit is the one the reader expects *)
(* on this round, and both sides change their bit when they wrap around.   *)
(*                                                                         *)
(* ring.trb[i] is a TRB: what it asks for or reports, and its cycle bit.   *)
(* INDX and CYCL are the driver's place, a record [indx, cycl] is that of  *)
(* the controller.                                                         *)
(***************************************************************************)
EXTENDS Integers, Sequences

CONSTANTS
  Last,         \* index of the last TRB of a ring, 0xFF
  EventSize     \* values of the BYTE INDX: the event ring has no link

(* A TRB, and a place. *)
Entry(what, cycl) == [what |-> what, cycl |-> cycl]

Zero == Entry("zero", 0)

Place(indx, cycl) == [indx |-> indx, cycl |-> cycl]

Start == Place(0, 1)

(* xhc_transfer_ring_create, link as in its last argument. *)
Created(link) ==
  [trb  |-> [i \in 0 .. Last |-> IF link /\ i = Last THEN Entry("link", 1) ELSE Zero],
   indx |-> 0, cycl |-> 1]

-----------------------------------------------------------------------------
(* A driver that forgets to change its own cycle bit.                       *)
WrappedSameCycle(ring) ==
  IF ring.indx = Last
  THEN [ring EXCEPT !.trb[Last] = Entry("link", ring.cycl), !.indx = 0]
  ELSE ring

(* xhc_queue_transfer up to the copy: at the end of the ring the link is    *)
(* made valid for the controller, and the next round begins.                *)
Wrapped(ring) ==
  IF ring.indx = Last
  THEN [trb |-> [ring.trb EXCEPT ![Last] = Entry("link", ring.cycl)],
        indx |-> 0, cycl |-> 1 - ring.cycl]
  ELSE ring

(* The copy of the TRB and INDX++.  The bytes are copied in ascending order *)
(* and the cycle bit is in the last ones, so the controller sees a whole    *)
(* TRB or an old one.                                                       *)
Stored(ring, what) ==
  [trb |-> [ring.trb EXCEPT ![ring.indx] = Entry(what, ring.cycl)],
   indx |-> ring.indx + 1, cycl |-> ring.cycl]

(* The controller's side of a transfer ring: a TRB of this round that is    *)
(* work, or the link, which it follows to the start of the next round.      *)
Ready(ring, place) ==
  /\ ring.trb[place.indx].cycl = place.cycl
  /\ ring.trb[place.indx].what # "link"

AtLink(ring, place) ==
  ring.trb[place.indx] = Entry("link", place.cycl)

-----------------------------------------------------------------------------
(* The event ring: here the controller writes, without links.               *)
CreatedEvents(zero) ==
  [trb |-> [i \in 0 .. EventSize - 1 |-> Entry(zero, 0)], indx |-> 0, cycl |-> 1]

Following(place) ==
  IF place.indx = EventSize - 1 THEN Place(0, 1 - place.cycl)
  ELSE Place(place.indx + 1, place.cycl)

Posted(ring, place, what) ==
  [ring EXCEPT !.trb[place.indx] = Entry(what, place.cycl)]

(* xhc_event_ring_pop answers 0 when the TRB at INDX is not a new one.      *)
HasEvent(ring) == ring.trb[ring.indx].cycl = ring.cycl

(* ++INDX, and the cycle bit kept when INDX wraps to 0 ...            *)
PoppedSameCycle(ring) == [ring EXCEPT !.indx = (@ + 1) % EventSize]

(* ... but changed in the code.                                             *)
Popped(ring) ==
  LET indx == (ring.indx + 1) % EventSize
  IN  [ring EXCEPT !.indx = indx, !.cycl = IF indx = 0 THEN 1 - @ ELSE @]
-----------------------------------------------------------------------------
(***************************************************************************)
(* The transfer ring: the driver queues with xhc_queue_transfer, the       *)
(* controller fetches.  The driver writes in two steps, with the           *)
(* controller free to look in between: first what happens at the end of    *)
(* the ring, then the TRB itself.                                          *)
(*                                                                         *)
(* The code never asks whether the ring is full.  It queues the TRBs of    *)
(* one request and waits for their completion, so that at most Window TRBs *)
(* are ever outstanding: 3, for a control transfer with data.              *)
(***************************************************************************)
CONSTANTS
  Trb,          \* the requests
  Window        \* TRBs queued and not yet fetched

ASSUME RingAssumption ==
  /\ Last \in Nat \ {0}
  /\ Window \in 1 .. Last
  /\ Trb \cap {"zero", "link", "none"} = {}

VARIABLES
  ring,         \* the page of TRBs, and the driver's INDX and CYCL
  place,        \* how far the controller has come
  writing,      \* the TRB xhc_queue_transfer is about to copy, or "none"
  taken         \* what the controller fetched last

ringVars == <<ring, place, writing, taken>>

-----------------------------------------------------------------------------
(* The TRBs between the controller and the driver.  A controller that is    *)
(* one bit behind has the rest of the last round and what there is of this  *)
(* one to fetch; but the link of a new ring is valid from the start, and    *)
(* the controller may follow it before the driver comes there.              *)
Ahead == place.indx = 0 /\ ring.indx = Last /\ place.cycl # ring.cycl

Outstanding ==
  IF place.cycl = ring.cycl THEN ring.indx - place.indx
  ELSE IF Ahead THEN 0
  ELSE Last - place.indx + ring.indx

Position(k) ==
  LET i == place.indx + k - 1 IN IF i < Last THEN i ELSE i - Last

Queued == [k \in 1 .. Outstanding |-> ring.trb[Position(k)].what]

-----------------------------------------------------------------------------
RingInit ==
  /\ \E link \in BOOLEAN : ring = Created(link)
  /\ place = Start
  /\ writing = "none"
  /\ taken = "none"

QueueTransfer(trb) ==
  /\ writing = "none"
  /\ Outstanding < Window
  /\ ring' = Wrapped(ring)
  /\ writing' = trb
  /\ UNCHANGED <<place, taken>>

Copy ==
  /\ writing # "none"
  /\ ring' = Stored(ring, writing)
  /\ writing' = "none"
  /\ UNCHANGED <<place, taken>>

Fetch ==
  /\ Ready(ring, place)
  /\ taken' = ring.trb[place.indx].what
  /\ place' = [place EXCEPT !.indx = @ + 1]
  /\ UNCHANGED <<ring, writing>>

FollowLink ==
  /\ AtLink(ring, place)
  /\ place' = Place(0, 1 - place.cycl)
  /\ UNCHANGED <<ring, writing, taken>>

RingNext == Copy \/ Fetch \/ FollowLink \/ \E trb \in Trb : QueueTransfer(trb)

RingSpec == RingInit /\ [][RingNext]_ringVars

-----------------------------------------------------------------------------
(* Every variable has its type; the last TRB of the ring is never work.     *)
RingTypeOK ==
  /\ ring \in [trb : [0 .. Last -> [what : Trb \cup {"zero", "link"}, cycl : {0, 1}]],
               indx : 0 .. Last, cycl : {0, 1}]
  /\ place \in [indx : 0 .. Last, cycl : {0, 1}]
  /\ writing \in Trb \cup {"none"}
  /\ taken \in Trb \cup {"none"}
  /\ ring.trb[Last].what \notin Trb

(* The controller fetches what was queued, once and in order, round after   *)
(* round, whether or not the ring was made with a link, and wherever it     *)
(* looks while the driver wraps around.                                     *)
AbstractRing == INSTANCE Fifo WITH
  Request <- Trb, Capacity <- Window, Nothing <- "none", queue <- Queued

TransferRingIsFifo == AbstractRing!Spec

(* What xhc_queue_transfer was called with is fetched: at no wrap does the  *)
(* controller stop for good at the link or at a TRB it takes for an old one.*)
EveryTrbFetched == \A trb \in Trb : writing = trb ~> taken = trb

-----------------------------------------------------------------------------
(***************************************************************************)
(* The event ring: the controller posts, and the driver takes with         *)
(* xhc_event_ring_pop.  There is no link: both sides come back to the      *)
(* start after EventSize TRBs, the driver because INDX is a byte.  The     *)
(* driver tells the controller how far it has come only now and then, in   *)
(* ERDP, and until then the controller takes no TRB for free.              *)
(***************************************************************************)
CONSTANT Event      \* what is reported

ASSUME EventAssumption ==
  /\ EventSize \in Nat \ {0, 1}
  /\ Event \cap {"zero", "none"} = {}

VARIABLES
  eventRing,    \* the page of TRBs, and the driver's INDX and CYCL
  post,         \* where the controller posts its next event
  erdp,         \* the index the controller was told last
  popped        \* what the driver popped last

eventVars == <<eventRing, post, erdp, popped>>

Unread ==
  IF post.cycl = eventRing.cycl THEN post.indx - eventRing.indx
  ELSE EventSize - eventRing.indx + post.indx

UnreadEvents == [k \in 1 .. Unread |-> eventRing.trb[(eventRing.indx + k - 1) % EventSize].what]

-----------------------------------------------------------------------------
EventInit ==
  /\ eventRing = CreatedEvents("zero")
  /\ post = Start
  /\ erdp = 0
  /\ popped = "none"

(* The controller posts unless that would make the ring look empty to it.   *)
Post(what) ==
  /\ Following(post).indx # erdp
  /\ eventRing' = Posted(eventRing, post, what)
  /\ post' = Following(post)
  /\ UNCHANGED <<erdp, popped>>

Pop ==
  /\ HasEvent(eventRing)
  /\ popped' = eventRing.trb[eventRing.indx].what
  /\ eventRing' = Popped(eventRing)
  /\ UNCHANGED <<post, erdp>>

(* The end of xhc_event_ring_process: when a pop answered 0, and events may *)
(* have come since.  Here the pointer may be written at any time, so that   *)
(* the ring is sound however often a driver does it.                        *)
WritePointer ==
  /\ erdp # eventRing.indx
  /\ erdp' = eventRing.indx
  /\ UNCHANGED <<eventRing, post, popped>>

EventNext == Pop \/ WritePointer \/ \E what \in Event : Post(what)

EventSpec == EventInit /\ [][EventNext]_eventVars

-----------------------------------------------------------------------------
(* Every variable has its type.                                             *)
EventTypeOK ==
  /\ eventRing \in [trb : [0 .. EventSize - 1 -> [what : Event \cup {"zero"}, cycl : {0, 1}]],
               indx : 0 .. EventSize - 1, cycl : {0, 1}]
  /\ post \in [indx : 0 .. EventSize - 1, cycl : {0, 1}]
  /\ erdp \in 0 .. EventSize - 1
  /\ popped \in Event \cup {"none"}

(* The driver sees what was posted, once and in order: none is read again   *)
(* or overlooked when INDX comes round, none is overwritten unread, and one *)
(* less than all TRBs can wait.                                             *)
AbstractEvents == INSTANCE Fifo WITH
  Request <- Event, Capacity <- EventSize - 1, Nothing <- "none",
  queue <- UnreadEvents, taken <- popped

EventRingIsFifo == AbstractEvents!Spec
=============================================================================
