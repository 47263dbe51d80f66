---------------------------- MODULE XhciDriverProofs ----------------------------
(***************************************************************************)
(* The xHCI driver at work, whatever rings the thread waits on, however    *)
(* many stages a control transfer has and however small the event ring is: *)
(* a waiting thread sees the completion of its own request, and the        *)
(* keyboard has exactly one request under way.                             *)
(*                                                                         *)
(* Both count.  A request that meets no error is answered by one event,    *)
(* that of its last TRB; so while TRBs of it are in the ring no event of   *)
(* it is about, once the event is posted the ring is empty, and when the   *)
(* completion is there nothing of the request is left anywhere.  The next  *)
(* request on the ring therefore starts with nothing of the last one in    *)
(* flight, and only COMP still holds the old answer, which is cleared      *)
(* before the thread looks.                                                *)
(***************************************************************************)
EXTENDS XhciDriver, SequenceTheorems, FiniteSetTheorems, TLAPS

TrbType == [ask : Marks, ioc : BOOLEAN]
EventType == [ring : Rings \cup {"port"}, answer : Completions]

Busy == thread.at # "idle"
Under(r) == Busy /\ thread.ring = r

(* No event in the queue is about this ring. *)
Unreported(r) == \A i \in 1 .. Len(event) : event[i].ring # r
Quiet(r) == ring[r] = <<>> /\ Unreported(r)

(* Where no request is under way, nothing is, unless an error stopped it.   *)
IdleQuiet == \A r \in Waited : ~Under(r) /\ r \notin halted => Quiet(r)

(* The TRBs of the request under way: its own, and the last asks for an     *)
(* event.                                                                   *)
OwnTrbs ==
  Busy =>
    LET q == ring[thread.ring] IN
    /\ thread.ring \in Waited
    /\ \A i \in 1 .. Len(q) :
         /\ q[i].ask = thread.ask
         /\ q[i].ioc <=> thread.at # "queue" /\ i = Len(q)
    /\ IF thread.at = "queue"
       THEN thread.left >= 1 /\ Len(q) + thread.left <= Length(thread.ring)
       ELSE thread.left = 0

(* The events about it: its own, and one at most.                           *)
OwnEvents ==
  Busy =>
    /\ \A i \in 1 .. Len(event) : event[i].ring = thread.ring => event[i].answer.ask = thread.ask
    /\ thread.ring \notin halted /\ ~Unreported(thread.ring) =>
         /\ ring[thread.ring] = <<>> /\ thread.at # "queue"
         /\ \A i, j \in 1 .. Len(event) :
              event[i].ring = thread.ring /\ event[j].ring = thread.ring => i = j

(* The completion, once the last one is cleared: its own, and nothing else  *)
(* of the request is left.                                                  *)
OwnAnswer ==
  thread.at \in {"doorbell", "wait"} /\ comp[thread.ring] # None =>
    /\ comp[thread.ring].ask = thread.ask
    /\ thread.ring \notin halted => Quiet(thread.ring)

(* One request of the keyboard, in one of three places, or none.            *)
KeyPlaces ==
  LET q == ring["keyboard"] IN
  /\ \A i \in 1 .. Len(q) : q[i].ioc
  /\ IF keyboard = "on"
     THEN \/ Len(q) = 1 /\ Unreported("keyboard") /\ handler # "call"
          \/ /\ Len(q) = 0 /\ handler # "call"
             /\ \E i \in 1 .. Len(event) :
                  /\ event[i].ring = "keyboard"
                  /\ \A j \in 1 .. Len(event) : event[j].ring = "keyboard" => j = i
          \/ Len(q) = 0 /\ Unreported("keyboard") /\ handler = "call"
     ELSE Len(q) = 0 /\ Unreported("keyboard") /\ handler # "call"

(* TypeOK in two parts: what the invariant is about, and the flags.         *)
DriverTypeOK ==
  /\ ring \in [Rings -> Seq(TrbType)] /\ \A r \in Rings : Len(ring[r]) <= Length(r)
  /\ comp \in [Rings -> Completions] /\ halted \subseteq Rings
  /\ event \in Seq(EventType)
  /\ popped \in Nat /\ Len(event) + popped <= EventRoom
  /\ thread \in [at : {"idle", "queue", "clear", "doorbell", "wait"}, ring : Rings,
                 ask : Marks, left : 0 .. Stages]
  /\ keyboard \in {"off", "on", "failed"}
  /\ handler \in {"off", "pop", "call", "pointer", "clear"}

Flags ==
  /\ rung \in [Rings -> BOOLEAN] /\ prompt \in BOOLEAN
  /\ notify \in BOOLEAN /\ busy \in BOOLEAN /\ irr \in BOOLEAN /\ changed \in BOOLEAN

DriverInv == DriverTypeOK /\ IdleQuiet /\ OwnTrbs /\ OwnEvents /\ OwnAnswer /\ KeyPlaces

-----------------------------------------------------------------------------
LEMMA TailOf ==
  ASSUME NEW S, NEW q \in Seq(S), q # <<>>
  PROVE  /\ Tail(q) \in Seq(S) /\ Len(q) \in Nat /\ Len(q) >= 1 /\ Len(Tail(q)) = Len(q) - 1
         /\ Head(q) = q[1] /\ q[1] \in S
         /\ \A i \in 1 .. Len(q) - 1 : Tail(q)[i] = q[i + 1] /\ i + 1 \in 1 .. Len(q)
OBVIOUS

LEMMA AppendOf ==
  ASSUME NEW S, NEW q \in Seq(S), NEW e \in S
  PROVE  /\ Append(q, e) \in Seq(S) /\ Len(q) \in Nat /\ Len(Append(q, e)) = Len(q) + 1
         /\ \A i \in 1 .. Len(q) : Append(q, e)[i] = q[i]
         /\ Append(q, e)[Len(q) + 1] = e
OBVIOUS

(* What popping an event does to the reports about a ring, ...              *)
LEMMA Popped ==
  ASSUME DriverTypeOK, PopEvent
  PROVE  /\ event' \in Seq(EventType) /\ Len(event') = Len(event) - 1
         /\ Len(event) \in Nat /\ Len(event) >= 1
         /\ popped' \in Nat /\ Len(event') + popped' <= EventRoom
         /\ Head(event) = event[1] /\ event[1] \in EventType
         /\ \A i \in 1 .. Len(event') : event'[i] = event[i + 1] /\ i + 1 \in 1 .. Len(event)
<1>1. event \in Seq(EventType) /\ event # <<>> /\ event' = Tail(event) /\ popped' = popped + 1
      /\ popped \in Nat /\ Len(event) + popped <= EventRoom /\ EventRoom \in Nat
  BY DriverAssumption DEF DriverTypeOK, PopEvent, EventType
<1>2. /\ Tail(event) \in Seq(EventType) /\ Len(event) \in Nat /\ Len(event) >= 1
      /\ Len(Tail(event)) = Len(event) - 1
      /\ Head(event) = event[1] /\ event[1] \in EventType
      /\ \A i \in 1 .. Len(event) - 1 : Tail(event)[i] = event[i + 1] /\ i + 1 \in 1 .. Len(event)
  BY <1>1, TailOf
<1> QED BY <1>1, <1>2

(* ... and posting one.                                                     *)
LEMMA Posted ==
  ASSUME DriverTypeOK, NEW what \in EventType, Post(what)
  PROVE  /\ event' \in Seq(EventType) /\ Len(event') = Len(event) + 1 /\ Len(event) \in Nat
         /\ popped' \in Nat /\ Len(event') + popped' <= EventRoom /\ notify' = TRUE
         /\ \A i \in 1 .. Len(event) : event'[i] = event[i]
         /\ event'[Len(event) + 1] = what
         /\ \A r : Unreported(r)' <=> Unreported(r) /\ what.ring # r
<1>1. event \in Seq(EventType) /\ event' = Append(event, what) /\ popped' = popped
      /\ popped \in Nat /\ Len(event) + popped < EventRoom /\ EventRoom \in Nat /\ notify' = TRUE
  BY DriverAssumption DEF DriverTypeOK, Post, HasRoom, EventType
<1>2. /\ Append(event, what) \in Seq(EventType) /\ Len(event) \in Nat
      /\ Len(Append(event, what)) = Len(event) + 1
      /\ \A i \in 1 .. Len(event) : Append(event, what)[i] = event[i]
      /\ Append(event, what)[Len(event) + 1] = what
  BY <1>1, AppendOf
<1>3. \A r : Unreported(r)' <=> Unreported(r) /\ what.ring # r
  BY <1>1, <1>2 DEF Unreported
<1> QED BY <1>1, <1>2, <1>3

LEMMA RingFacts ==
  /\ Waited \subseteq Rings /\ "keyboard" \in Rings /\ "keyboard" \notin Waited
  /\ "port" \notin Rings /\ "command" # "port" /\ "command" # "keyboard"
  /\ Stages \in 2 .. 3
  /\ \A r \in Rings : Length(r) \in 1 .. Stages
  /\ \A m \in Marks : Other(m) \in Marks
  /\ None \in Completions
<1>1. \A m \in Marks : Other(m) \in Marks
  BY DEF Marks, Other
<1> QED BY <1>1, DriverAssumption DEF Rings, Length, Completions, None, Completion

-----------------------------------------------------------------------------
LEMMA DriverInvInit == Init => DriverInv
<1> SUFFICES ASSUME Init PROVE DriverInv
  OBVIOUS
<1>1. DriverTypeOK
  BY RingFacts, DriverAssumption DEF Init, DriverTypeOK, Marks
<1>2. IdleQuiet /\ KeyPlaces
  BY RingFacts DEF Init, IdleQuiet, KeyPlaces, Quiet, Unreported
<1>3. OwnTrbs /\ OwnEvents /\ OwnAnswer
  BY DEF Init, OwnTrbs, OwnEvents, OwnAnswer, Busy
<1> QED BY <1>1, <1>2, <1>3 DEF DriverInv

(* What the steps of the thread and of the handler that touch neither rings *)
(* nor events keep.                                                         *)
LEMMA Aside ==
  ASSUME DriverInv, UNCHANGED <<ring, comp, halted, event, thread, keyboard>>,
         handler' = "call" <=> handler = "call"
  PROVE  IdleQuiet' /\ OwnTrbs' /\ OwnEvents' /\ OwnAnswer' /\ KeyPlaces'
<1>1. /\ ring' = ring /\ comp' = comp /\ halted' = halted /\ event' = event
      /\ thread' = thread /\ keyboard' = keyboard
  OBVIOUS
<1>2. IdleQuiet' /\ OwnTrbs' /\ OwnEvents' /\ OwnAnswer'
  BY <1>1 DEF DriverInv, IdleQuiet, OwnTrbs, OwnEvents, OwnAnswer, Quiet, Unreported, Busy, Under
<1>3. KeyPlaces'
  BY <1>1 DEF DriverInv, KeyPlaces, Unreported
<1> QED BY <1>2, <1>3

LEMMA BeginKeeps ==
  ASSUME DriverInv, NEW r \in Waited, Begin(r)
  PROVE  DriverInv'
<1>1. /\ thread.at = "idle" /\ r \notin halted
      /\ thread' = [at |-> "queue", ring |-> r, ask |-> Other(thread.ask), left |-> Length(r)]
      /\ ring' = ring /\ comp' = comp /\ halted' = halted /\ event' = event
      /\ keyboard' = keyboard /\ handler' = handler
  BY DEF Begin, Runs, controller, events
<1>2. Quiet(r)
  BY <1>1 DEF DriverInv, IdleQuiet, Under, Busy
<1>3. DriverTypeOK'
  <2>1. DriverTypeOK /\ Length(r) \in 0 .. Stages /\ r \in Rings
    BY RingFacts DEF DriverInv
  <2>2. thread' \in [at : {"idle", "queue", "clear", "doorbell", "wait"}, ring : Rings,
                     ask : Marks, left : 0 .. Stages]
    BY <1>1, <2>1, RingFacts DEF DriverTypeOK
  <2> QED BY <1>1, <2>1, <2>2 DEF DriverTypeOK, Begin, controller, events, lines
<1>4. IdleQuiet'
  BY <1>1 DEF DriverInv, IdleQuiet, Under, Busy, Quiet, Unreported
<1>5. OwnTrbs'
  <2>1. ring[r] = <<>> /\ Len(ring[r]) = 0 /\ Length(r) >= 1 /\ Length(r) \in Nat
    BY <1>2, RingFacts DEF Quiet
  <2> QED BY <1>1, <2>1 DEF OwnTrbs, Busy
<1>6. OwnEvents' /\ OwnAnswer'
  BY <1>1, <1>2 DEF OwnEvents, OwnAnswer, Quiet, Unreported
<1>7. KeyPlaces'
  BY <1>1 DEF DriverInv, KeyPlaces, Unreported
<1> QED BY <1>3, <1>4, <1>5, <1>6, <1>7 DEF DriverInv

LEMMA QueueTrbKeeps ==
  ASSUME DriverInv, QueueTrb
  PROVE  DriverInv'
<1> DEFINE r == thread.ring
           q == ring[r]
           trb == Trb(r, thread.ask, thread.left)
<1>1. /\ thread.at = "queue" /\ handler = "off"
      /\ ring' = [ring EXCEPT ![r] = Append(q, trb)]
      /\ thread' = [thread EXCEPT !.left = @ - 1, !.at = IF thread.left = 1 THEN "clear" ELSE @]
      /\ comp' = comp /\ halted' = halted /\ event' = event /\ popped' = popped
      /\ keyboard' = keyboard /\ handler' = handler
  BY DEF QueueTrb, Runs, controller, events
<1>2. /\ DriverTypeOK /\ IdleQuiet /\ OwnTrbs /\ OwnEvents /\ OwnAnswer /\ KeyPlaces
      /\ Busy /\ thread \in [at : {"idle", "queue", "clear", "doorbell", "wait"}, ring : Rings,
                             ask : Marks, left : 0 .. Stages]
  BY <1>1 DEF DriverInv, DriverTypeOK, Busy
<1>3. /\ r \in Waited /\ r \in Rings /\ r # "keyboard" /\ q \in Seq(TrbType) /\ Len(q) \in Nat
      /\ thread.left \in 1 .. Stages /\ Length(r) \in 1 .. Stages
      /\ Len(q) + thread.left <= Length(r)
      /\ \A i \in 1 .. Len(q) : q[i].ask = thread.ask /\ ~q[i].ioc
  BY <1>1, <1>2, RingFacts DEF OwnTrbs, DriverTypeOK
<1>4. trb \in TrbType /\ trb.ask = thread.ask /\ (trb.ioc <=> thread.left = 1)
  BY <1>2, <1>3, RingFacts DEF Trb, CommandTrb, SetupStage, DataStage, StatusStage, TrbType, Length
<1> HIDE DEF trb
<1>5. /\ ring'[r] \in Seq(TrbType) /\ Len(ring'[r]) = Len(q) + 1
      /\ \A i \in 1 .. Len(q) : ring'[r][i] = q[i]
      /\ ring'[r][Len(q) + 1] = trb
  BY <1>1, <1>2, <1>3, <1>4, AppendOf DEF DriverTypeOK
<1>6. \A x \in Rings : x # r => ring'[x] = ring[x]
  BY <1>1, <1>2 DEF DriverTypeOK
<1>7. /\ thread' \in [at : {"idle", "queue", "clear", "doorbell", "wait"}, ring : Rings,
                      ask : Marks, left : 0 .. Stages]
      /\ thread'.at = (IF thread.left = 1 THEN "clear" ELSE "queue")
      /\ thread'.ring = r /\ thread'.ask = thread.ask /\ thread'.left = thread.left - 1
  <2> DEFINE mid == [thread EXCEPT !.left = @ - 1]
  <2>1. thread.left - 1 \in 0 .. Stages
    BY <1>3, RingFacts
  <2>2. /\ mid \in [at : {"idle", "queue", "clear", "doorbell", "wait"}, ring : Rings,
                    ask : Marks, left : 0 .. Stages]
        /\ mid.at = "queue" /\ mid.ring = r /\ mid.ask = thread.ask /\ mid.left = thread.left - 1
    BY <1>1, <1>2, <2>1
  <2>3. thread' = IF thread.left = 1 THEN [mid EXCEPT !.at = "clear"] ELSE mid
    <3>1. CASE thread.left = 1
      BY <1>1, <1>2, <3>1
    <3>2. CASE thread.left # 1
      BY <1>1, <1>2, <3>2
    <3> QED BY <3>1, <3>2
  <2> HIDE DEF mid
  <2> QED BY <2>2, <2>3
<1> HIDE DEF r, q
<1>8. DriverTypeOK'
  <2>1. ring' \in [Rings -> Seq(TrbType)]
    BY <1>1, <1>2, <1>3, <1>5, <1>6 DEF DriverTypeOK
  <2>2. \A x \in Rings : Len(ring'[x]) <= Length(x)
    <3> SUFFICES ASSUME NEW x \in Rings PROVE Len(ring'[x]) <= Length(x)
      OBVIOUS
    <3>1. CASE x = r
      BY <1>3, <1>5, <3>1
    <3>2. CASE x # r
      BY <1>2, <1>6, <3>2 DEF DriverTypeOK
    <3> QED BY <3>1, <3>2
  <2> QED BY <1>1, <1>2, <1>7, <2>1, <2>2 DEF DriverTypeOK
<1>9. IdleQuiet'
  BY <1>1, <1>2, <1>6, <1>7, RingFacts DEF IdleQuiet, Under, Busy, Quiet, Unreported, r
<1>10. OwnTrbs'
  <2>1. \A i \in 1 .. Len(q) + 1 : ring'[r][i].ask = thread.ask
          /\ (ring'[r][i].ioc <=> thread.left = 1 /\ i = Len(q) + 1)
    BY <1>3, <1>4, <1>5
  <2>2. thread.left = 1 => thread'.left = 0
    BY <1>7
  <2>3. thread.left # 1 => thread'.left >= 1 /\ Len(q) + 1 + thread'.left <= Length(r)
    BY <1>3, <1>7
  <2> QED BY <1>3, <1>5, <1>7, <2>1, <2>2, <2>3 DEF OwnTrbs
<1>11. OwnEvents'
  BY <1>1, <1>2, <1>7 DEF OwnEvents, Unreported, r
<1>12. OwnAnswer'
  BY <1>7 DEF OwnAnswer
<1>13. KeyPlaces'
  BY <1>1, <1>2, <1>3, <1>6, RingFacts DEF KeyPlaces, Unreported
<1> QED BY <1>8, <1>9, <1>10, <1>11, <1>12, <1>13 DEF DriverInv

LEMMA ClearCompletionKeeps ==
  ASSUME DriverInv, ClearCompletion
  PROVE  DriverInv'
<1>1. /\ thread.at = "clear" /\ handler = "off"
      /\ comp' = [comp EXCEPT ![thread.ring] = None]
      /\ thread' = [thread EXCEPT !.at = "doorbell"]
      /\ ring' = ring /\ halted' = halted /\ event' = event /\ popped' = popped
      /\ keyboard' = keyboard /\ handler' = handler
  BY DEF ClearCompletion, Runs, controller, events
<1>2. /\ DriverTypeOK /\ IdleQuiet /\ OwnTrbs /\ OwnEvents /\ OwnAnswer /\ KeyPlaces
      /\ thread \in [at : {"idle", "queue", "clear", "doorbell", "wait"}, ring : Rings,
                     ask : Marks, left : 0 .. Stages]
  BY DEF DriverInv, DriverTypeOK
<1>3. /\ thread' \in [at : {"idle", "queue", "clear", "doorbell", "wait"}, ring : Rings,
                      ask : Marks, left : 0 .. Stages]
      /\ thread'.at = "doorbell" /\ thread'.ring = thread.ring
      /\ thread'.ask = thread.ask /\ thread'.left = thread.left
  BY <1>1, <1>2
<1>4. DriverTypeOK'
  BY <1>1, <1>2, <1>3, RingFacts DEF DriverTypeOK
<1>5. IdleQuiet' /\ OwnTrbs' /\ OwnEvents'
  BY <1>1, <1>2, <1>3 DEF IdleQuiet, OwnTrbs, OwnEvents, Under, Busy, Quiet, Unreported
<1>6. OwnAnswer'
  BY <1>1, <1>2, <1>3 DEF OwnAnswer, DriverTypeOK
<1>7. KeyPlaces'
  BY <1>1, <1>2 DEF KeyPlaces, Unreported
<1> QED BY <1>4, <1>5, <1>6, <1>7 DEF DriverInv

LEMMA RingDoorbellKeeps ==
  ASSUME DriverInv, RingDoorbell
  PROVE  DriverInv'
<1>1. /\ thread.at = "doorbell"
      /\ thread' = [thread EXCEPT !.at = "wait"]
      /\ ring' = ring /\ halted' = halted /\ event' = event /\ popped' = popped
      /\ keyboard' = keyboard /\ handler' = handler /\ comp' = comp
  BY DEF RingDoorbell, Runs, controller, events
<1>2. /\ DriverTypeOK /\ IdleQuiet /\ OwnTrbs /\ OwnEvents /\ OwnAnswer /\ KeyPlaces
      /\ thread \in [at : {"idle", "queue", "clear", "doorbell", "wait"}, ring : Rings,
                     ask : Marks, left : 0 .. Stages]
  BY DEF DriverInv, DriverTypeOK
<1>3. /\ thread' \in [at : {"idle", "queue", "clear", "doorbell", "wait"}, ring : Rings,
                      ask : Marks, left : 0 .. Stages]
      /\ thread'.at = "wait" /\ thread'.ring = thread.ring
      /\ thread'.ask = thread.ask /\ thread'.left = thread.left
  BY <1>1, <1>2
<1>4. DriverTypeOK'
  BY <1>1, <1>2, <1>3 DEF DriverTypeOK
<1>5. IdleQuiet' /\ OwnTrbs' /\ OwnEvents' /\ OwnAnswer'
  BY <1>1, <1>2, <1>3 DEF IdleQuiet, OwnTrbs, OwnEvents, OwnAnswer, Under, Busy, Quiet, Unreported
<1>6. KeyPlaces'
  BY <1>1, <1>2 DEF KeyPlaces, Unreported
<1> QED BY <1>4, <1>5, <1>6 DEF DriverInv

(* The thread goes on when nothing of its request is left.                  *)
LEMMA AnsweredKeeps ==
  ASSUME DriverInv, Answered
  PROVE  DriverInv'
<1>1. /\ thread.at = "wait" /\ comp[thread.ring] # None
      /\ thread' = [thread EXCEPT !.at = "idle"]
      /\ ring' = ring /\ halted' = halted /\ event' = event /\ popped' = popped
      /\ keyboard' = keyboard /\ handler' = handler /\ comp' = comp
  BY DEF Answered, Runs, controller, events
<1>2. /\ DriverTypeOK /\ IdleQuiet /\ OwnTrbs /\ OwnEvents /\ OwnAnswer /\ KeyPlaces
      /\ thread \in [at : {"idle", "queue", "clear", "doorbell", "wait"}, ring : Rings,
                     ask : Marks, left : 0 .. Stages]
  BY DEF DriverInv, DriverTypeOK
<1>3. /\ thread' \in [at : {"idle", "queue", "clear", "doorbell", "wait"}, ring : Rings,
                      ask : Marks, left : 0 .. Stages]
      /\ thread'.at = "idle" /\ thread'.ring = thread.ring
  BY <1>1, <1>2
<1>4. DriverTypeOK'
  BY <1>1, <1>2, <1>3 DEF DriverTypeOK
<1>5. thread.ring \notin halted => Quiet(thread.ring)
  BY <1>1, <1>2 DEF OwnAnswer
<1>6. IdleQuiet'
  BY <1>1, <1>2, <1>3, <1>5 DEF IdleQuiet, Under, Busy, Quiet, Unreported
<1>7. OwnTrbs' /\ OwnEvents' /\ OwnAnswer'
  BY <1>3 DEF OwnTrbs, OwnEvents, OwnAnswer, Busy
<1>8. KeyPlaces'
  BY <1>1, <1>2 DEF KeyPlaces, Unreported
<1> QED BY <1>4, <1>6, <1>7, <1>8 DEF DriverInv

(* A new request of the keyboard, when there is none.                       *)
LEMMA ListenKeeps ==
  ASSUME DriverInv, ListenForKeys, UNCHANGED <<halted, event, popped, thread>>,
         Len(ring["keyboard"]) = 0, Unreported("keyboard"),
         keyboard' = "on", handler' \in {"off", "pop"}
  PROVE  DriverInv'
<1> DEFINE k == "keyboard"
           trb == Normal("ask0")
<1>1. /\ ring' = [ring EXCEPT ![k] = Append(ring[k], trb)]
      /\ comp' = [comp EXCEPT ![k] = None]
      /\ halted' = halted /\ event' = event /\ popped' = popped /\ thread' = thread
  BY DEF ListenForKeys
<1>2. /\ DriverTypeOK /\ IdleQuiet /\ OwnTrbs /\ OwnEvents /\ OwnAnswer
      /\ ring[k] \in Seq(TrbType) /\ trb \in TrbType /\ trb.ioc
  BY RingFacts DEF DriverInv, DriverTypeOK, TrbType, Normal, Marks
<1> HIDE DEF trb
<1>3. ring'[k] \in Seq(TrbType) /\ Len(ring'[k]) = 1 /\ ring'[k][1] = trb
  BY <1>1, <1>2, RingFacts, AppendOf DEF DriverTypeOK
<1>4. /\ \A x \in Waited : ring'[x] = ring[x] /\ comp'[x] = comp[x]
      /\ \A x \in Rings : x # k => ring'[x] = ring[x]
      /\ Length(k) = 1
  BY <1>1, <1>2, RingFacts DEF DriverTypeOK, Length
<1>5. DriverTypeOK'
  <2>1. ring' \in [Rings -> Seq(TrbType)] /\ comp' \in [Rings -> Completions]
    BY <1>1, <1>2, <1>3, RingFacts DEF DriverTypeOK
  <2>2. \A x \in Rings : Len(ring'[x]) <= Length(x)
    <3> SUFFICES ASSUME NEW x \in Rings PROVE Len(ring'[x]) <= Length(x)
      OBVIOUS
    <3>0. Len(ring'[k]) <= Length(k)
      BY <1>3, <1>4
    <3>1. CASE x = k
      BY <3>0, <3>1
    <3>2. CASE x # k
      BY <1>2, <1>4, <3>2 DEF DriverTypeOK
    <3> QED BY <3>1, <3>2
  <2> QED BY <1>1, <1>2, <2>1, <2>2 DEF DriverTypeOK
<1>6. Busy => thread.ring \in Waited /\ ring'[thread.ring] = ring[thread.ring]
                                     /\ comp'[thread.ring] = comp[thread.ring]
  BY <1>2, <1>4 DEF OwnTrbs
<1>7. IdleQuiet' /\ OwnTrbs'
  <2>1. IdleQuiet'
    <3>1. ASSUME NEW r \in Waited PROVE Quiet(r)' <=> Quiet(r)
      BY <1>1, <1>4 DEF Quiet, Unreported
    <3>2. ASSUME NEW r \in Waited PROVE Under(r)' <=> Under(r)
      BY <1>1 DEF Under, Busy
    <3> QED BY <1>1, <1>2, <3>1, <3>2 DEF IdleQuiet
  <2>2. OwnTrbs'
    BY <1>1, <1>2, <1>6 DEF OwnTrbs, Busy
  <2> QED BY <2>1, <2>2
<1>8. OwnEvents' /\ OwnAnswer'
  <2>1. OwnEvents'
    BY <1>1, <1>2, <1>6 DEF OwnEvents, Busy, Unreported
  <2>2. thread.at \in {"doorbell", "wait"} => Busy
    BY DEF Busy
  <2>3. OwnAnswer'
    BY <1>1, <1>2, <1>6, <2>2 DEF OwnAnswer, Quiet, Unreported
  <2> QED BY <2>1, <2>3
<1>9. KeyPlaces'
  BY <1>1, <1>2, <1>3 DEF KeyPlaces, Unreported
<1> QED BY <1>5, <1>7, <1>8, <1>9 DEF DriverInv

LEMMA SetupKeyboardKeeps ==
  ASSUME DriverInv, SetupKeyboard
  PROVE  DriverInv'
<1>1. /\ keyboard = "off" /\ keyboard' = "on" /\ ListenForKeys /\ handler' = "off"
      /\ UNCHANGED <<halted, event, popped, thread>>
  BY DEF SetupKeyboard, Runs, controller, events
<1>2. Len(ring["keyboard"]) = 0 /\ Unreported("keyboard")
  BY <1>1 DEF DriverInv, KeyPlaces
<1> QED BY <1>1, <1>2, ListenKeeps

(* The callback is called with nothing of the old request left.             *)
LEMMA CallbackKeeps ==
  ASSUME DriverInv, Callback
  PROVE  DriverInv'
<1>1. /\ handler = "call" /\ handler' = "pop"
      /\ UNCHANGED <<halted, event, popped, thread>>
  BY DEF Callback, controller, events
<1>2. keyboard = "on" /\ Len(ring["keyboard"]) = 0 /\ Unreported("keyboard")
  BY <1>1 DEF DriverInv, KeyPlaces
<1>3. CASE comp["keyboard"].good
  <2>1. ListenForKeys /\ keyboard' = "on"
    BY <1>2, <1>3 DEF Callback
  <2> QED BY <1>1, <1>2, <2>1, ListenKeeps
<1>4. CASE ~comp["keyboard"].good
  <2>1. keyboard' = "failed" /\ ring' = ring /\ comp' = comp
    BY <1>4 DEF Callback
  <2>2. DriverTypeOK' /\ IdleQuiet' /\ OwnTrbs' /\ OwnEvents' /\ OwnAnswer'
    BY <1>1, <2>1 DEF DriverInv, DriverTypeOK, IdleQuiet, OwnTrbs, OwnEvents, OwnAnswer,
                      Under, Busy, Quiet, Unreported
  <2>3. KeyPlaces'
    BY <1>1, <1>2, <2>1 DEF DriverInv, KeyPlaces, Unreported
  <2> QED BY <2>2, <2>3 DEF DriverInv
<1> QED BY <1>3, <1>4

-----------------------------------------------------------------------------
(* An event taken off the queue is in no one's way.                         *)
LEMMA PopKeepsRequests ==
  ASSUME DriverInv, PopEvent, UNCHANGED <<ring, halted, thread>>
  PROVE  /\ IdleQuiet' /\ OwnTrbs' /\ OwnEvents'
         /\ \A r : Unreported(r) => Unreported(r)'
<1>1. /\ DriverTypeOK /\ IdleQuiet /\ OwnTrbs /\ OwnEvents
      /\ ring' = ring /\ halted' = halted /\ thread' = thread
  BY DEF DriverInv
<1>2. /\ Len(event) \in Nat /\ Len(event') = Len(event) - 1
      /\ \A i \in 1 .. Len(event') : event'[i] = event[i + 1] /\ i + 1 \in 1 .. Len(event)
  BY <1>1, Popped
<1>3. \A r : Unreported(r) => Unreported(r)'
  BY <1>2 DEF Unreported
<1>4. IdleQuiet'
  <2>1. ASSUME NEW r \in Waited PROVE Quiet(r) => Quiet(r)'
    BY <1>1, <1>3 DEF Quiet
  <2>2. ASSUME NEW r \in Waited PROVE Under(r)' <=> Under(r)
    BY <1>1 DEF Under, Busy
  <2> QED BY <1>1, <2>1, <2>2 DEF IdleQuiet
<1>5. OwnTrbs'
  BY <1>1 DEF OwnTrbs, Busy
<1>6. OwnEvents'
  <2> SUFFICES ASSUME Busy
               PROVE  /\ \A i \in 1 .. Len(event') : event'[i].ring = thread.ring
                           => event'[i].answer.ask = thread.ask
                      /\ thread.ring \notin halted /\ ~Unreported(thread.ring) =>
                           /\ ring[thread.ring] = <<>> /\ thread.at # "queue"
                           /\ \A i, j \in 1 .. Len(event') :
                                event'[i].ring = thread.ring /\ event'[j].ring = thread.ring
                                  => i = j
    BY <1>1, <1>3 DEF OwnEvents, Busy
  <2>1. \A i \in 1 .. Len(event') : event'[i].ring = thread.ring => event'[i].answer.ask = thread.ask
    BY <1>1, <1>2 DEF OwnEvents
  <2>2. ASSUME thread.ring \notin halted, ~Unreported(thread.ring)
        PROVE  /\ ring[thread.ring] = <<>> /\ thread.at # "queue"
               /\ \A i, j \in 1 .. Len(event') :
                    event'[i].ring = thread.ring /\ event'[j].ring = thread.ring => i = j
    <3>1. /\ ring[thread.ring] = <<>> /\ thread.at # "queue"
          /\ \A i, j \in 1 .. Len(event) :
               event[i].ring = thread.ring /\ event[j].ring = thread.ring => i = j
      BY <1>1, <2>2 DEF OwnEvents
    <3>2. ASSUME NEW i \in 1 .. Len(event'), NEW j \in 1 .. Len(event'),
                 event'[i].ring = thread.ring, event'[j].ring = thread.ring
          PROVE  i = j
      <4>1. i + 1 \in 1 .. Len(event) /\ j + 1 \in 1 .. Len(event)
            /\ event[i + 1].ring = thread.ring /\ event[j + 1].ring = thread.ring
        BY <1>2, <3>2
      <4>2. i + 1 = j + 1
        BY <3>1, <4>1
      <4> QED BY <1>2, <4>2
    <3> QED BY <3>1, <3>2
  <2> QED BY <2>1, <2>2
<1> QED BY <1>3, <1>4, <1>5, <1>6

LEMMA PopKeepsKeys ==
  ASSUME DriverInv, PopEvent, event[1].ring # "keyboard", UNCHANGED <<ring, keyboard>>,
         handler # "call", handler' # "call"
  PROVE  KeyPlaces'
<1> DEFINE q == ring["keyboard"]
<1>1. /\ KeyPlaces /\ ring' = ring /\ keyboard' = keyboard
      /\ Len(event) \in Nat /\ Len(event') = Len(event) - 1
      /\ \A i \in 1 .. Len(event') : event'[i] = event[i + 1] /\ i + 1 \in 1 .. Len(event)
  BY Popped DEF DriverInv
<1>2. Unreported("keyboard") => Unreported("keyboard")'
  BY <1>1 DEF Unreported
<1>3. ASSUME NEW i \in 1 .. Len(event), event[i].ring = "keyboard",
             \A j \in 1 .. Len(event) : event[j].ring = "keyboard" => j = i
      PROVE  \E k \in 1 .. Len(event') :
               /\ event'[k].ring = "keyboard"
               /\ \A j \in 1 .. Len(event') : event'[j].ring = "keyboard" => j = k
  <2>1. i # 1 /\ i - 1 \in 1 .. Len(event') /\ (i - 1) + 1 = i
    BY <1>1, <1>3
  <2>2. event'[i - 1].ring = "keyboard"
    BY <1>1, <1>3, <2>1
  <2>3. ASSUME NEW j \in 1 .. Len(event'), event'[j].ring = "keyboard"
        PROVE  j = i - 1
    <3>1. j + 1 = i
      BY <1>1, <1>3, <2>3
    <3> QED BY <1>1, <3>1
  <2> QED BY <2>1, <2>2, <2>3
<1> QED BY <1>1, <1>2, <1>3 DEF KeyPlaces

LEMMA HandlePortChangeKeeps ==
  ASSUME DriverInv, HandlePortChange
  PROVE  DriverInv'
<1>1. /\ PopEvent /\ Head(event).ring = "port" /\ handler = "pop" /\ handler' = handler
      /\ ring' = ring /\ comp' = comp /\ halted' = halted /\ thread' = thread
      /\ keyboard' = keyboard /\ DriverTypeOK /\ OwnAnswer
  BY DEF HandlePortChange, PopEvent, controller, DriverInv
<1>2. /\ event' \in Seq(EventType) /\ popped' \in Nat /\ Len(event') + popped' <= EventRoom
      /\ event[1].ring # "keyboard"
  BY <1>1, Popped
<1>3. DriverTypeOK'
  BY <1>1, <1>2 DEF DriverTypeOK
<1>4. IdleQuiet' /\ OwnTrbs' /\ OwnEvents' /\ \A r : Unreported(r) => Unreported(r)'
  BY <1>1, PopKeepsRequests
<1>5. OwnAnswer'
  BY <1>1, <1>4 DEF OwnAnswer, Quiet
<1>6. KeyPlaces'
  BY <1>1, <1>2, PopKeepsKeys
<1> QED BY <1>3, <1>4, <1>5, <1>6 DEF DriverInv

(* A completion goes to the ring it is about.                               *)
LEMMA HandleCompletionKeeps ==
  ASSUME DriverInv, HandleCompletion
  PROVE  DriverInv'
<1> DEFINE r == event[1].ring
           c == event[1].answer
<1>1. /\ DriverTypeOK /\ IdleQuiet /\ OwnTrbs /\ OwnEvents /\ OwnAnswer /\ KeyPlaces
      /\ PopEvent /\ handler = "pop" /\ ring' = ring /\ halted' = halted /\ thread' = thread
      /\ keyboard' = keyboard
  BY DEF HandleCompletion, PopEvent, controller, DriverInv
<1>2. /\ event' \in Seq(EventType) /\ popped' \in Nat /\ Len(event') + popped' <= EventRoom
      /\ Len(event) \in Nat /\ Len(event) >= 1 /\ Len(event') = Len(event) - 1
      /\ Head(event) = event[1] /\ event[1] \in EventType
      /\ \A i \in 1 .. Len(event') : event'[i] = event[i + 1] /\ i + 1 \in 1 .. Len(event)
      /\ 1 \in 1 .. Len(event)
  BY <1>1, Popped
<1>3. /\ r \in Rings /\ c \in Completions
      /\ comp' = [comp EXCEPT ![r] = c]
      /\ handler' = IF r = "keyboard" THEN "call" ELSE "pop"
  BY <1>2 DEF HandleCompletion, EventType
<1>4. IdleQuiet' /\ OwnTrbs' /\ OwnEvents' /\ \A x : Unreported(x) => Unreported(x)'
  BY <1>1, PopKeepsRequests
<1>5. DriverTypeOK'
  <2>1. comp' \in [Rings -> Completions]
    BY <1>1, <1>3 DEF DriverTypeOK
  <2>2. handler' \in {"off", "pop", "call", "pointer", "clear"}
    BY <1>3
  <2> QED BY <1>1, <1>2, <2>1, <2>2 DEF DriverTypeOK
<1>6. OwnAnswer'
  <2> SUFFICES ASSUME thread.at \in {"doorbell", "wait"}, comp'[thread.ring] # None
               PROVE  /\ comp'[thread.ring].ask = thread.ask
                      /\ thread.ring \notin halted => Quiet(thread.ring)'
    BY <1>1 DEF OwnAnswer, Quiet, Unreported
  <2>1. Busy /\ thread.ring \in Rings
    BY <1>1 DEF Busy, DriverTypeOK
  <2>2. CASE r = thread.ring
    <3>1. comp'[thread.ring] = c /\ c.ask = thread.ask
      BY <1>1, <1>2, <1>3, <2>1, <2>2 DEF OwnEvents, DriverTypeOK
    <3>2. ASSUME thread.ring \notin halted
          PROVE  Quiet(thread.ring)'
      <4>1. ~Unreported(thread.ring)
        BY <1>2, <2>2 DEF Unreported
      <4>2. /\ ring[thread.ring] = <<>>
            /\ \A i, j \in 1 .. Len(event) :
                 event[i].ring = thread.ring /\ event[j].ring = thread.ring => i = j
        BY <1>1, <2>1, <3>2, <4>1 DEF OwnEvents
      <4>3. ASSUME NEW i \in 1 .. Len(event'), event'[i].ring = thread.ring
            PROVE  FALSE
        <5>1. i + 1 \in 1 .. Len(event) /\ event[i + 1].ring = thread.ring
          BY <1>2, <4>3
        <5>2. i + 1 = 1
          BY <1>2, <2>2, <4>2, <5>1
        <5> QED BY <1>2, <5>2
      <4> QED BY <1>1, <4>2, <4>3 DEF Quiet, Unreported
    <3> QED BY <3>1, <3>2
  <2>3. CASE r # thread.ring
    <3>1. comp'[thread.ring] = comp[thread.ring]
      BY <1>1, <1>3, <2>1, <2>3 DEF DriverTypeOK
    <3> QED BY <1>1, <1>4, <3>1 DEF OwnAnswer, Quiet
  <2> QED BY <2>2, <2>3
<1>7. KeyPlaces'
  <2>1. CASE r # "keyboard"
    BY <1>1, <1>3, <2>1, PopKeepsKeys
  <2>2. CASE r = "keyboard"
    <3>1. ~Unreported("keyboard")
      BY <1>2, <2>2 DEF Unreported
    <3>2. keyboard = "on" /\ Len(ring["keyboard"]) = 0
          /\ \E i \in 1 .. Len(event) : \A j \in 1 .. Len(event) : event[j].ring = "keyboard" => j = i
      BY <1>1, <3>1 DEF KeyPlaces
    <3>3. \A j \in 1 .. Len(event) : event[j].ring = "keyboard" => j = 1
      BY <1>2, <2>2, <3>2
    <3>4. Unreported("keyboard")'
      <4> SUFFICES ASSUME NEW i \in 1 .. Len(event'), event'[i].ring = "keyboard"
                   PROVE  FALSE
        BY DEF Unreported
      <4>1. i + 1 \in 1 .. Len(event) /\ event[i + 1].ring = "keyboard"
        BY <1>2
      <4>2. i + 1 = 1
        BY <3>3, <4>1
      <4> QED BY <1>2, <4>2
    <3> QED BY <1>1, <1>3, <2>2, <3>2, <3>4 DEF KeyPlaces
  <2> QED BY <2>1, <2>2
<1> QED BY <1>4, <1>5, <1>6, <1>7 DEF DriverInv

-----------------------------------------------------------------------------
(* The controller takes a TRB of a request that is under way.               *)
LEMMA TakenFrom ==
  ASSUME DriverInv, NEW r \in Rings, Work(r), ring' = [ring EXCEPT ![r] = Tail(@)]
  PROVE  LET q == ring[r] IN
         /\ q \in Seq(TrbType) /\ Len(q) \in Nat /\ Len(q) >= 1 /\ q # <<>>
         /\ Head(q) = q[1] /\ q[1] \in TrbType
         /\ ring'[r] \in Seq(TrbType) /\ Len(ring'[r]) = Len(q) - 1
         /\ \A i \in 1 .. Len(q) - 1 : ring'[r][i] = q[i + 1] /\ i + 1 \in 1 .. Len(q)
         /\ \A x \in Rings : x # r => ring'[x] = ring[x]
         /\ ring' \in [Rings -> Seq(TrbType)]
         /\ \A x \in Rings : Len(ring'[x]) <= Length(x)
         /\ r \in Waited => Under(r)
         /\ r \notin halted
<1> DEFINE q == ring[r]
<1>1. /\ DriverTypeOK /\ IdleQuiet /\ q # <<>> /\ r \notin halted /\ q \in Seq(TrbType)
      /\ ring \in [Rings -> Seq(TrbType)] /\ Len(q) <= Length(r) /\ Length(r) \in Nat
  BY RingFacts DEF DriverInv, DriverTypeOK, Work
<1>2. ring'[r] = Tail(q) /\ \A x \in Rings : x # r => ring'[x] = ring[x]
  BY <1>1
<1>3. /\ Tail(q) \in Seq(TrbType) /\ Len(q) \in Nat /\ Len(q) >= 1 /\ Len(Tail(q)) = Len(q) - 1
      /\ Head(q) = q[1] /\ q[1] \in TrbType
      /\ \A i \in 1 .. Len(q) - 1 : Tail(q)[i] = q[i + 1] /\ i + 1 \in 1 .. Len(q)
  BY <1>1, TailOf
<1>4. ring' \in [Rings -> Seq(TrbType)]
  BY <1>1, <1>3
<1>5. ASSUME NEW x \in Rings PROVE Len(ring'[x]) <= Length(x)
  <2>1. CASE x = r
    BY <1>1, <1>2, <1>3, <2>1
  <2>2. CASE x # r
    BY <1>1, <1>2, <2>2 DEF DriverTypeOK
  <2> QED BY <2>1, <2>2
<1>6. r \in Waited => Under(r)
  BY <1>1 DEF IdleQuiet, Quiet
<1> HIDE DEF q
<1>7. /\ q \in Seq(TrbType) /\ Len(q) \in Nat /\ Len(q) >= 1 /\ q # <<>>
      /\ Head(q) = q[1] /\ q[1] \in TrbType
      /\ ring'[r] \in Seq(TrbType) /\ Len(ring'[r]) = Len(q) - 1
      /\ \A i \in 1 .. Len(q) - 1 : ring'[r][i] = q[i + 1] /\ i + 1 \in 1 .. Len(q)
  BY <1>1, <1>2, <1>3
<1> QED BY <1>1, <1>2, <1>4, <1>5, <1>6, <1>7 DEF q

(* What is left of the request is still its own.                            *)
LEMMA TakenKeepsTrbs ==
  ASSUME DriverInv, NEW r \in Rings, Work(r), ring' = [ring EXCEPT ![r] = Tail(@)],
         UNCHANGED thread
  PROVE  OwnTrbs'
<1> DEFINE q == ring[r]
<1>1. /\ OwnTrbs /\ DriverTypeOK /\ thread' = thread
  BY DEF DriverInv
<1>2. /\ Len(q) \in Nat /\ Len(q) >= 1 /\ Len(ring'[r]) = Len(q) - 1
      /\ \A i \in 1 .. Len(q) - 1 : ring'[r][i] = q[i + 1] /\ i + 1 \in 1 .. Len(q)
      /\ \A x \in Rings : x # r => ring'[x] = ring[x]
  BY TakenFrom
<1>3. CASE Busy /\ thread.ring = r
  <2>1. /\ r \in Waited
        /\ \A i \in 1 .. Len(q) : q[i].ask = thread.ask
                                  /\ (q[i].ioc <=> thread.at # "queue" /\ i = Len(q))
        /\ IF thread.at = "queue" THEN thread.left >= 1 /\ Len(q) + thread.left <= Length(r)
           ELSE thread.left = 0
    BY <1>1, <1>3 DEF OwnTrbs
  <2>2. thread.left \in Nat /\ Length(r) \in Nat
    BY <1>1, RingFacts DEF DriverTypeOK
  <2> HIDE DEF q
  <2>3. ASSUME NEW i \in 1 .. Len(q) - 1
        PROVE  /\ ring'[r][i].ask = thread.ask
               /\ ring'[r][i].ioc <=> thread.at # "queue" /\ i = Len(q) - 1
    <3>1. ring'[r][i] = q[i + 1] /\ i + 1 \in 1 .. Len(q)
      BY <1>2
    <3>2. i + 1 = Len(q) <=> i = Len(q) - 1
      BY <1>2
    <3> QED BY <2>1, <3>1, <3>2
  <2>4. IF thread.at = "queue" THEN thread.left >= 1 /\ Len(q) - 1 + thread.left <= Length(r)
        ELSE thread.left = 0
    BY <1>2, <2>1, <2>2
  <2> QED BY <1>1, <1>2, <1>3, <2>1, <2>3, <2>4 DEF OwnTrbs
<1>4. CASE Busy /\ thread.ring # r
  <2>1. thread.ring \in Rings /\ ring'[thread.ring] = ring[thread.ring]
    BY <1>1, <1>2, <1>4 DEF DriverTypeOK
  <2> QED BY <1>1, <1>4, <2>1 DEF OwnTrbs, Busy
<1>5. CASE ~Busy
  BY <1>1, <1>5 DEF OwnTrbs, Busy
<1> QED BY <1>3, <1>4, <1>5

(* A stage of a control transfer that asks for no event.                    *)
LEMMA StageKeeps ==
  ASSUME DriverInv, NEW r \in Rings, Work(r), ring' = [ring EXCEPT ![r] = Tail(@)],
         ~Head(ring[r]).ioc,
         UNCHANGED <<comp, halted, event, popped, thread, keyboard, handler>>
  PROVE  DriverInv'
<1> DEFINE q == ring[r]
<1>1. /\ DriverTypeOK /\ IdleQuiet /\ OwnTrbs /\ OwnEvents /\ OwnAnswer /\ KeyPlaces
      /\ comp' = comp /\ halted' = halted /\ event' = event /\ popped' = popped
      /\ thread' = thread /\ keyboard' = keyboard /\ handler' = handler
  BY DEF DriverInv
<1>2. /\ Len(q) \in Nat /\ Len(q) >= 1 /\ q # <<>> /\ ~q[1].ioc
      /\ \A x \in Rings : x # r => ring'[x] = ring[x]
      /\ ring' \in [Rings -> Seq(TrbType)] /\ \A x \in Rings : Len(ring'[x]) <= Length(x)
      /\ r \in Waited => Under(r)
      /\ r \notin halted
  BY TakenFrom
<1>3. r # "keyboard" /\ r \in Waited /\ Busy /\ thread.ring = r
  <2>1. r # "keyboard"
    BY <1>1, <1>2 DEF KeyPlaces
  <2>2. r \in Waited
    BY <2>1 DEF Rings
  <2> QED BY <1>2, <2>1, <2>2 DEF Under
<1> HIDE DEF q
<1>4. DriverTypeOK'
  BY <1>1, <1>2 DEF DriverTypeOK
<1>5. IdleQuiet'
  <2>1. ASSUME NEW x \in Waited, x # r PROVE Quiet(x)' <=> Quiet(x)
    BY <1>1, <1>2, <2>1, RingFacts DEF Quiet, Unreported
  <2>2. ASSUME NEW x \in Waited PROVE Under(x)' <=> Under(x)
    BY <1>1 DEF Under, Busy
  <2> QED BY <1>1, <1>2, <2>1, <2>2 DEF IdleQuiet
<1>6. OwnTrbs'
  BY TakenKeepsTrbs
<1>7. Unreported(r)
  BY <1>1, <1>2, <1>3 DEF OwnEvents, q
<1>8. OwnEvents'
  BY <1>1, <1>3, <1>7 DEF OwnEvents, Unreported, Busy
<1>9. OwnAnswer'
  BY <1>1, <1>2, <1>3 DEF OwnAnswer, Quiet, q
<1>10. KeyPlaces'
  BY <1>1, <1>2, <1>3, RingFacts DEF KeyPlaces, Unreported
<1> QED BY <1>4, <1>5, <1>6, <1>8, <1>9, <1>10 DEF DriverInv

(* The report of a request: of its last TRB, or of the one it stopped at.   *)
LEMMA ReportKeeps ==
  ASSUME DriverInv, NEW r \in Rings, Work(r), ring' = [ring EXCEPT ![r] = Tail(@)],
         NEW what \in EventType, what.ring = r, what.answer.ask = Head(ring[r]).ask,
         Post(what),
         \/ halted' = halted /\ Head(ring[r]).ioc
         \/ halted' = halted \cup {r},
         UNCHANGED <<comp, thread, keyboard, handler>>
  PROVE  DriverInv'
<1> DEFINE q == ring[r]
           n == Len(event)
<1>1. /\ DriverTypeOK /\ IdleQuiet /\ OwnTrbs /\ OwnEvents /\ OwnAnswer /\ KeyPlaces
      /\ comp' = comp /\ thread' = thread /\ keyboard' = keyboard /\ handler' = handler
  BY DEF DriverInv
<1>2. /\ Len(q) \in Nat /\ Len(q) >= 1 /\ q # <<>> /\ Head(q) = q[1]
      /\ ring'[r] \in Seq(TrbType) /\ Len(ring'[r]) = Len(q) - 1
      /\ \A i \in 1 .. Len(q) - 1 : ring'[r][i] = q[i + 1] /\ i + 1 \in 1 .. Len(q)
      /\ \A x \in Rings : x # r => ring'[x] = ring[x]
      /\ ring' \in [Rings -> Seq(TrbType)] /\ \A x \in Rings : Len(ring'[x]) <= Length(x)
      /\ r \in Waited => Under(r)
      /\ r \notin halted
  BY TakenFrom
<1>3. /\ event' \in Seq(EventType) /\ Len(event') = n + 1 /\ n \in Nat
      /\ popped' \in Nat /\ Len(event') + popped' <= EventRoom
      /\ \A i \in 1 .. n : event'[i] = event[i]
      /\ event'[n + 1] = what
      /\ \A x : Unreported(x)' <=> Unreported(x) /\ x # r
  BY <1>1, Posted
<1>4. /\ what.answer.ask = q[1].ask
      /\ (halted' = halted /\ q[1].ioc) \/ halted' = halted \cup {r}
      /\ \A x \in Rings : x # r => (x \in halted' <=> x \in halted)
      /\ halted' \subseteq Rings
  BY <1>1, <1>2 DEF DriverTypeOK
<1> HIDE DEF q, n
<1>5. DriverTypeOK'
  BY <1>1, <1>2, <1>3, <1>4 DEF DriverTypeOK
<1>6. IdleQuiet'
  <2>1. ASSUME NEW x \in Waited, x # r PROVE Quiet(x)' <=> Quiet(x)
    BY <1>2, <1>3, <2>1, RingFacts DEF Quiet
  <2>2. ASSUME NEW x \in Waited PROVE Under(x)' <=> Under(x)
    BY <1>1 DEF Under, Busy
  <2> QED BY <1>1, <1>2, <1>4, <2>1, <2>2, RingFacts DEF IdleQuiet
<1>7. OwnTrbs'
  BY <1>1, TakenKeepsTrbs
<1>8. CASE r \in Waited
  <2>1. r = thread.ring /\ Busy /\ r # "keyboard"
    BY <1>2, <1>8, RingFacts DEF Under
  <2>2. /\ \A i \in 1 .. Len(q) : q[i].ask = thread.ask
                                  /\ (q[i].ioc <=> thread.at # "queue" /\ i = Len(q))
    BY <1>1, <2>1 DEF OwnTrbs, q
  <2>3. what.answer.ask = thread.ask
    BY <1>2, <1>4, <2>2
  <2>4. Unreported(r)
    BY <1>1, <1>2, <2>1 DEF OwnEvents, q
  <2>5. OwnEvents'
    <3>1. \A i \in 1 .. Len(event') : event'[i].ring = r => event'[i].answer.ask = thread.ask
      <4> SUFFICES ASSUME NEW i \in 1 .. Len(event'), event'[i].ring = r
                   PROVE  event'[i].answer.ask = thread.ask
        OBVIOUS
      <4>1. CASE i = n + 1
        BY <1>3, <2>3, <4>1
      <4>2. CASE i \in 1 .. n
        BY <1>1, <1>3, <2>1, <4>2 DEF OwnEvents, n
      <4> QED BY <1>3, <4>1, <4>2
    <3>2. ASSUME r \notin halted'
          PROVE  ring'[r] = <<>> /\ thread.at # "queue"
      <4>1. q[1].ioc
        BY <1>4, <3>2
      <4>2. thread.at # "queue" /\ Len(q) = 1
        BY <1>2, <2>2, <4>1
      <4> QED BY <1>2, <4>2
    <3>3. \A i, j \in 1 .. Len(event') : event'[i].ring = r /\ event'[j].ring = r => i = j
      <4>1. \A i \in 1 .. Len(event') : event'[i].ring = r => i = n + 1
        BY <1>3, <2>4 DEF Unreported, n
      <4> QED BY <4>1
    <3> QED BY <1>1, <2>1, <3>1, <3>2, <3>3 DEF OwnEvents
  <2>6. OwnAnswer'
    BY <1>1, <1>2, <1>4, <2>1 DEF OwnAnswer, Quiet, q
  <2>7. KeyPlaces'
    <3>1. ring'["keyboard"] = ring["keyboard"] /\ (Unreported("keyboard")' <=> Unreported("keyboard"))
      BY <1>2, <1>3, <2>1, RingFacts
    <3>2. \A i \in 1 .. Len(event') : event'[i].ring = "keyboard" => i \in 1 .. n
      BY <1>3, <2>1
    <3>3. ASSUME NEW i \in 1 .. n, event[i].ring = "keyboard",
                 \A j \in 1 .. n : event[j].ring = "keyboard" => j = i
          PROVE  /\ i \in 1 .. Len(event') /\ event'[i].ring = "keyboard"
                 /\ \A j \in 1 .. Len(event') : event'[j].ring = "keyboard" => j = i
      BY <1>3, <3>2, <3>3
    <3> QED BY <1>1, <3>1, <3>3 DEF KeyPlaces, n
  <2> QED BY <1>5, <1>6, <1>7, <2>5, <2>6, <2>7 DEF DriverInv
<1>9. CASE r \notin Waited
  <2>1. r = "keyboard"
    BY <1>9 DEF Rings
  <2>2. Busy => thread.ring \in Waited /\ thread.ring \in Rings /\ thread.ring # r
    BY <1>1, <1>9, RingFacts DEF OwnTrbs
  <2>3. OwnEvents'
    <3> SUFFICES ASSUME Busy
                 PROVE  /\ \A i \in 1 .. Len(event') : event'[i].ring = thread.ring
                             => event'[i].answer.ask = thread.ask
                        /\ thread.ring \notin halted' /\ ~Unreported(thread.ring)' =>
                             /\ ring'[thread.ring] = <<>> /\ thread.at # "queue"
                             /\ \A i, j \in 1 .. Len(event') :
                                  event'[i].ring = thread.ring /\ event'[j].ring = thread.ring
                                    => i = j
      BY <1>1 DEF OwnEvents, Busy, Unreported
    <3>1. \A i \in 1 .. Len(event') : event'[i].ring = thread.ring
            => i \in 1 .. n /\ event'[i] = event[i]
      BY <1>3, <2>2
    <3>2. /\ thread.ring \notin halted' <=> thread.ring \notin halted
          /\ Unreported(thread.ring)' <=> Unreported(thread.ring)
          /\ ring'[thread.ring] = ring[thread.ring]
      BY <1>2, <1>3, <1>4, <2>2
    <3>3. \A i \in 1 .. n : event[i].ring = thread.ring => event[i].answer.ask = thread.ask
      BY <1>1 DEF OwnEvents, n
    <3>4. thread.ring \notin halted /\ ~Unreported(thread.ring) =>
            /\ ring[thread.ring] = <<>> /\ thread.at # "queue"
            /\ \A i, j \in 1 .. n :
                 event[i].ring = thread.ring /\ event[j].ring = thread.ring => i = j
      BY <1>1 DEF OwnEvents, n
    <3> QED BY <3>1, <3>2, <3>3, <3>4
  <2>4. OwnAnswer'
    <3>1. thread.at \in {"doorbell", "wait"} => Busy
      BY DEF Busy
    <3>2. Busy => /\ thread.ring \notin halted' <=> thread.ring \notin halted
                  /\ Quiet(thread.ring)' <=> Quiet(thread.ring)
      BY <1>1, <1>2, <1>3, <1>4, <2>2 DEF Quiet
    <3> QED BY <1>1, <3>1, <3>2 DEF OwnAnswer
  <2>5. keyboard = "on" /\ Len(q) = 1 /\ Unreported(r) /\ handler # "call"
    BY <1>1, <1>2, <2>1 DEF KeyPlaces, q
  <2>6. KeyPlaces'
    <3>1. Len(ring'["keyboard"]) = 0
      BY <1>2, <2>1, <2>5
    <3>2. n + 1 \in 1 .. Len(event') /\ event'[n + 1].ring = "keyboard"
      BY <1>3, <2>1
    <3>3. \A j \in 1 .. Len(event') : event'[j].ring = "keyboard" => j = n + 1
      BY <1>3, <2>1, <2>5 DEF Unreported, n
    <3> QED BY <1>1, <2>5, <3>1, <3>2, <3>3 DEF KeyPlaces
  <2> QED BY <1>5, <1>6, <1>7, <2>3, <2>4, <2>6 DEF DriverInv
<1> QED BY <1>8, <1>9

LEMMA FetchKeeps ==
  ASSUME DriverInv, NEW r \in Rings, Fetch(r)
  PROVE  DriverInv'
<1>1. /\ Work(r) /\ ring' = [ring EXCEPT ![r] = Tail(@)] /\ halted' = halted
      /\ UNCHANGED <<comp, thread, keyboard, handler>>
  BY DEF Fetch, Advance, controller
<1>2. CASE Head(ring[r]).ioc
  <2> DEFINE what == Report(r, Completion(Head(ring[r]).ask, TRUE))
  <2>1. ring[r] \in Seq(TrbType) /\ ring[r] # <<>>
    BY <1>1 DEF DriverInv, DriverTypeOK, Work
  <2>2. Head(ring[r]).ask \in Marks
    <3>1. Head(ring[r]) \in TrbType
      BY <2>1, TailOf
    <3> QED BY <3>1 DEF TrbType
  <2>3. what \in EventType /\ what.ring = r /\ what.answer.ask = Head(ring[r]).ask
    BY <2>2 DEF EventType, Report, CommandCompletion, TransferEvent, Completion, Completions
  <2>4. Post(what)
    BY <1>2 DEF Fetch
  <2> HIDE DEF what
  <2> QED BY <1>1, <1>2, <2>3, <2>4, ReportKeeps
<1>3. CASE ~Head(ring[r]).ioc
  <2>1. event' = event /\ popped' = popped
    BY <1>3 DEF Fetch, events
  <2> QED BY <1>1, <1>3, <2>1, StageKeeps
<1> QED BY <1>2, <1>3

LEMMA FetchFailsKeeps ==
  ASSUME DriverInv, NEW r \in Rings, FetchFails(r)
  PROVE  DriverInv'
<1> DEFINE what == Report(r, Completion(Head(ring[r]).ask, FALSE))
<1>1. /\ Work(r) /\ ring' = [ring EXCEPT ![r] = Tail(@)] /\ halted' = halted \cup {r}
      /\ UNCHANGED <<comp, thread, keyboard, handler>> /\ Post(what)
  BY DEF FetchFails, Advance
<1>2. ring[r] \in Seq(TrbType) /\ ring[r] # <<>>
  BY <1>1 DEF DriverInv, DriverTypeOK, Work
<1>3. Head(ring[r]).ask \in Marks
  <2>1. Head(ring[r]) \in TrbType
    BY <1>2, TailOf
  <2> QED BY <2>1 DEF TrbType
<1>4. what \in EventType /\ what.ring = r /\ what.answer.ask = Head(ring[r]).ask
  BY <1>3 DEF EventType, Report, CommandCompletion, TransferEvent, Completion, Completions
<1> HIDE DEF what
<1> QED BY <1>1, <1>4, ReportKeeps

(* A report about the port is about no ring.                                *)
LEMMA PortChangeKeeps ==
  ASSUME DriverInv, PortChange
  PROVE  DriverInv'
<1> DEFINE n == Len(event)
<1>1. /\ DriverTypeOK /\ IdleQuiet /\ OwnTrbs /\ OwnEvents /\ OwnAnswer /\ KeyPlaces
      /\ ring' = ring /\ comp' = comp /\ halted' = halted /\ thread' = thread
      /\ keyboard' = keyboard /\ handler' = handler /\ Post(PortStatusChange)
  BY DEF PortChange, controller, DriverInv
<1>2. PortStatusChange \in EventType /\ PortStatusChange.ring = "port"
  BY RingFacts DEF PortStatusChange, EventType
<1>3. /\ event' \in Seq(EventType) /\ Len(event') = n + 1 /\ n \in Nat
      /\ popped' \in Nat /\ Len(event') + popped' <= EventRoom
      /\ \A i \in 1 .. n : event'[i] = event[i]
      /\ event'[n + 1].ring = "port"
      /\ \A x : Unreported(x)' <=> Unreported(x) /\ "port" # x
  BY <1>1, <1>2, Posted
<1>4. \A x \in Rings : /\ Unreported(x)' <=> Unreported(x)
                       /\ \A i \in 1 .. Len(event') : event'[i].ring = x
                            => i \in 1 .. n /\ event'[i] = event[i]
  BY <1>3, RingFacts
<1> HIDE DEF n
<1>5. DriverTypeOK'
  BY <1>1, <1>3 DEF DriverTypeOK
<1>6. IdleQuiet'
  <2>1. ASSUME NEW x \in Waited PROVE Quiet(x)' <=> Quiet(x)
    BY <1>1, <1>4, RingFacts DEF Quiet
  <2>2. ASSUME NEW x \in Waited PROVE Under(x)' <=> Under(x)
    BY <1>1 DEF Under, Busy
  <2> QED BY <1>1, <2>1, <2>2 DEF IdleQuiet
<1>7. OwnTrbs'
  BY <1>1 DEF OwnTrbs, Busy
<1>8. thread.ring \in Rings
  BY <1>1 DEF DriverTypeOK
<1>9. OwnEvents'
  <2>1. \A i \in 1 .. n : event[i].ring = thread.ring /\ Busy => event[i].answer.ask = thread.ask
    BY <1>1 DEF OwnEvents, n
  <2>2. Busy /\ thread.ring \notin halted /\ ~Unreported(thread.ring) =>
            /\ ring[thread.ring] = <<>> /\ thread.at # "queue"
            /\ \A i, j \in 1 .. n :
                 event[i].ring = thread.ring /\ event[j].ring = thread.ring => i = j
    BY <1>1 DEF OwnEvents, n
  <2>3. /\ Busy' = Busy /\ Unreported(thread.ring)' <=> Unreported(thread.ring)
        /\ \A i \in 1 .. Len(event') : event'[i].ring = thread.ring
             => i \in 1 .. n /\ event'[i] = event[i]
    BY <1>1, <1>4, <1>8 DEF Busy
  <2> QED BY <1>1, <2>1, <2>2, <2>3 DEF OwnEvents, Busy
<1>10. OwnAnswer'
  BY <1>1, <1>4, <1>8 DEF OwnAnswer, Quiet
<1>11. KeyPlaces'
  <2>1. Unreported("keyboard")' <=> Unreported("keyboard")
    BY <1>4, RingFacts
  <2>2. ASSUME NEW i \in 1 .. n, event[i].ring = "keyboard",
               \A j \in 1 .. n : event[j].ring = "keyboard" => j = i
        PROVE  /\ i \in 1 .. Len(event') /\ event'[i].ring = "keyboard"
               /\ \A j \in 1 .. Len(event') : event'[j].ring = "keyboard" => j = i
    BY <1>3, <1>4, <2>2, RingFacts
  <2> QED BY <1>1, <2>1, <2>2 DEF KeyPlaces, n
<1> QED BY <1>5, <1>6, <1>7, <1>9, <1>10, <1>11 DEF DriverInv

(* Entering and leaving the handler, an empty ring found empty, and sending *)
(* an interrupt.                                                            *)
LEMMA AsideKeeps ==
  ASSUME DriverInv,
         Enter \/ NoEventLeft \/ WritePointer \/ ClearBusy \/ Interrupt
           \/ (\E r \in Rings : FindEmpty(r)) \/ UNCHANGED vars
  PROVE  DriverInv'
<1>1. /\ ring' = ring /\ comp' = comp /\ halted' = halted /\ event' = event
      /\ thread' = thread /\ keyboard' = keyboard
      /\ popped' = popped \/ popped' = 0
      /\ handler' = "call" <=> handler = "call"
      /\ handler' \in {"off", "pop", "call", "pointer", "clear"}
  BY DEF Enter, NoEventLeft, WritePointer, ClearBusy, Interrupt, FindEmpty, vars, controller,
         events, lines, DriverInv, DriverTypeOK
<1>2. DriverTypeOK'
  <2>1. DriverTypeOK /\ Len(event) \in Nat /\ EventRoom \in Nat
    BY DriverAssumption DEF DriverInv, DriverTypeOK
  <2>2. popped' \in Nat /\ Len(event') + popped' <= EventRoom
    BY <1>1, <2>1 DEF DriverTypeOK
  <2> QED BY <1>1, <2>1, <2>2 DEF DriverTypeOK
<1> QED BY <1>1, <1>2, Aside DEF DriverInv

LEMMA DriverInvNext == DriverInv /\ [Next]_vars => DriverInv'
<1> SUFFICES ASSUME DriverInv, [Next]_vars PROVE DriverInv'
  OBVIOUS
<1>1. ASSUME NEW r \in Waited, Begin(r) PROVE DriverInv'
  BY <1>1, BeginKeeps
<1>2. CASE SetupKeyboard
  BY <1>2, SetupKeyboardKeeps
<1>3. CASE Thread
  BY <1>3, QueueTrbKeeps, ClearCompletionKeeps, RingDoorbellKeeps, AnsweredKeeps DEF Thread
<1>4. CASE Handler
  BY <1>4, AsideKeeps, HandleCompletionKeeps, HandlePortChangeKeeps, CallbackKeeps DEF Handler
<1>5. ASSUME NEW r \in Rings, Fetch(r) PROVE DriverInv'
  BY <1>5, FetchKeeps
<1>6. ASSUME NEW r \in Rings, FetchFails(r) PROVE DriverInv'
  BY <1>6, FetchFailsKeeps
<1>7. CASE PortChange
  BY <1>7, PortChangeKeeps
<1>8. CASE Interrupt \/ (\E r \in Rings : FindEmpty(r)) \/ UNCHANGED vars
  BY <1>8, AsideKeeps
<1> QED BY <1>1, <1>2, <1>3, <1>4, <1>5, <1>6, <1>7, <1>8 DEF Next

LEMMA DriverInvAlways == Spec => []DriverInv
BY DriverInvInit, DriverInvNext, PTL DEF Spec

-----------------------------------------------------------------------------
LEMMA FlagsInit == Init => Flags
BY DEF Init, Flags

LEMMA FlagsNext == Flags /\ [Next]_vars => Flags'
<1> SUFFICES ASSUME Flags, [Next]_vars PROVE Flags'
  OBVIOUS
<1> USE DEF Flags, controller, events, lines
<1>1. ASSUME NEW r \in Waited, Begin(r) PROVE Flags'
  BY <1>1 DEF Begin
<1>2. CASE SetupKeyboard
  BY <1>2, RingFacts DEF SetupKeyboard, ListenForKeys
<1>3. CASE Thread
  BY <1>3 DEF Thread, QueueTrb, ClearCompletion, RingDoorbell, Answered
<1>4. CASE Handler
  <2>1. CASE Enter \/ NoEventLeft \/ ClearBusy
    BY <2>1 DEF Enter, NoEventLeft, ClearBusy
  <2>2. CASE WritePointer
    BY <2>2 DEF WritePointer
  <2>3. CASE HandleCompletion \/ HandlePortChange
    BY <2>3 DEF HandleCompletion, HandlePortChange, PopEvent
  <2>4. CASE Callback
    BY <2>4, RingFacts DEF Callback, ListenForKeys
  <2> QED BY <1>4, <2>1, <2>2, <2>3, <2>4 DEF Handler
<1>5. ASSUME NEW r \in Rings, Fetch(r) \/ FetchFails(r) PROVE Flags'
  <2>1. rung' \in [Rings -> BOOLEAN]
    BY <1>5 DEF Fetch, FetchFails, Advance
  <2>2. notify' \in BOOLEAN
    BY <1>5 DEF Fetch, FetchFails, Post
  <2> QED BY <1>5, <2>1, <2>2 DEF Fetch, FetchFails, Advance
<1>6. ASSUME NEW r \in Rings, FindEmpty(r) PROVE Flags'
  BY <1>6 DEF FindEmpty
<1>7. CASE PortChange \/ Interrupt
  BY <1>7 DEF PortChange, Post, Interrupt
<1>8. CASE UNCHANGED vars
  BY <1>8 DEF vars
<1> QED BY <1>1, <1>2, <1>3, <1>4, <1>5, <1>6, <1>7, <1>8 DEF Next

(* Every variable has its type: no ring is longer than one request, the     *)
(* event ring never fuller than it can be.                                  *)
THEOREM DriverTypeCorrect == Spec => []TypeOK
<1>1. Spec => []Flags
  BY FlagsInit, FlagsNext, PTL DEF Spec
<1>2. DriverInv /\ Flags => TypeOK
  BY DEF DriverInv, DriverTypeOK, Flags, TypeOK, TrbType, EventType
<1> QED BY DriverInvAlways, <1>1, <1>2, PTL

(* xhci_send_command and xhci_transfer: however late an answer comes and    *)
(* whatever else is reported, the code a waiting thread sees in COMP is     *)
(* that of the request it queued.                                           *)
THEOREM OwnAnswerSeen == Spec => []AnswersItsOwn
<1>1. DriverInv => AnswersItsOwn
  BY DEF DriverInv, OwnAnswer, AnswersItsOwn
<1> QED BY DriverInvAlways, <1>1, PTL

(* The keyboard's callback, called from the handler and once by hand, never *)
(* leaves the keyboard with two requests, nor with none before an error.    *)
THEOREM KeyRequestKept == Spec => []OneKeyRequest
<1>1. DriverInv => OneKeyRequest
  <2> SUFFICES ASSUME DriverInv PROVE OneKeyRequest
    OBVIOUS
  <2>1. KeyPlaces /\ DOMAIN event = 1 .. Len(event)
    BY DEF DriverInv, DriverTypeOK
  <2>2. Unreported("keyboard") => Cardinality(KeyReports) = 0
    <3>1. Unreported("keyboard") => KeyReports = {}
      BY <2>1 DEF Unreported, KeyReports
    <3> QED BY <3>1, FS_EmptySet
  <2>3. ASSUME NEW i \in 1 .. Len(event), event[i].ring = "keyboard",
               \A j \in 1 .. Len(event) : event[j].ring = "keyboard" => j = i
        PROVE  Cardinality(KeyReports) = 1
    <3>1. KeyReports = {i}
      BY <2>1, <2>3 DEF KeyReports
    <3> QED BY <3>1, FS_Singleton
  <2> QED BY <2>1, <2>2, <2>3 DEF KeyPlaces, OneKeyRequest
<1> QED BY DriverInvAlways, <1>1, PTL
=============================================================================
