-------------------------- MODULE MultiprocessorProofs --------------------------
(***************************************************************************)
(* The re-entrant lock by itself, and the machine that uses it.            *)
(*                                                                         *)
(* Of the lock: mutual exclusion for any number of processors and any      *)
(* depth of nesting, of calls made outside the lock or inside it.  (An     *)
(* interrupt handler may call elsewhere too: with two processors the       *)
(* property then does not hold, unless one alone prints.)                  *)
(*                                                                         *)
(* Of the machine, for any set of processors, any table, any that are late *)
(* and any text to print: the hand-over of the boot stack, and the         *)
(* exclusion of the console's lock when handlers print between any two of  *)
(* its steps.                                                              *)
(***************************************************************************)
EXTENDS Multiprocessor, SequenceTheorems, FiniteSetTheorems, TLAPS

Depth(c) == IF Running(c, "inside") THEN Len(calls[c]) ELSE Len(calls[c]) - 1

Owns(c) ==
  \/ Len(calls[c]) > 1
  \/ \E point \in {"count", "inside", "test", "clear"} : Running(c, point)

(* Calls that wait for an inner call are inside the lock; whoever got past  *)
(* the comparison is the owner; the count is the owner's depth; and the     *)
(* lock is cleared by an outermost call only.                               *)
OuterInside  == \A c \in Cpus : \A i \in 1 .. Len(calls[c]) - 1 : calls[c][i] = "inside"
OwnerKnown   == \A c \in Cpus : Owns(c) => core = Me(c)
CountIsDepth == \A c \in Cpus : core = Me(c) => calls[c] # <<>> /\ cont = Depth(c)
FreeIsZero   == core = 0 => cont = 0
ClearIsLast  == \A c \in Cpus : Running(c, "clear") => Len(calls[c]) = 1

IInv == TypeOK /\ OuterInside /\ OwnerKnown /\ CountIsDepth /\ FreeIsZero /\ ClearIsLast

-----------------------------------------------------------------------------
LEMMA MeNotZero ==
  ASSUME NEW c \in Cpus
  PROVE  Me(c) # 0
BY LockAssumption DEF Me

LEMMA OneOrMore ==
  ASSUME NEW n \in Nat \ {0}
  PROVE  n = 1 \/ n > 1
OBVIOUS

LEMMA PushLast ==
  ASSUME NEW s \in Seq(Points), NEW p \in Points
  PROVE  LET t == Append(s, p) IN
         /\ t \in Seq(Points) /\ Len(t) = Len(s) + 1 /\ t # <<>> /\ t[Len(t)] = p
         /\ \A i \in 1 .. Len(s) : t[i] = s[i]
OBVIOUS

LEMMA MoveLast ==
  ASSUME NEW s \in Seq(Points), s # <<>>, NEW p \in Points
  PROVE  LET t == [s EXCEPT ![Len(s)] = p] IN
         /\ t \in Seq(Points) /\ Len(t) = Len(s) /\ t # <<>> /\ t[Len(t)] = p
         /\ \A i \in 1 .. Len(s) - 1 : t[i] = s[i]
OBVIOUS

LEMMA PopLast ==
  ASSUME NEW s \in Seq(Points), s # <<>>
  PROVE  LET t == SubSeq(s, 1, Len(s) - 1) IN
         /\ t \in Seq(Points) /\ Len(t) = Len(s) - 1
         /\ Len(s) > 1 => t # <<>>
         /\ Len(s) = 1 => t = <<>>
         /\ \A i \in 1 .. Len(s) - 1 : t[i] = s[i]
<1> DEFINE t == SubSeq(s, 1, Len(s) - 1)
<1>1. Len(s) \in Nat /\ Len(s) >= 1
  OBVIOUS
<1>2. /\ t \in Seq(Points) /\ Len(t) = Len(s) - 1
      /\ \A i \in 1 .. Len(s) - 1 : t[i] = s[i]
  <2>1. 1 \in Int /\ Len(s) - 1 \in Int /\ \A i \in 1 .. Len(s) - 1 : s[i] \in Points
    BY <1>1
  <2>2. /\ t \in Seq(Points)
        /\ Len(t) = IF 1 <= Len(s) - 1 THEN (Len(s) - 1) - 1 + 1 ELSE 0
        /\ \A i \in 1 .. (Len(s) - 1) - 1 + 1 : t[i] = s[1 + i - 1]
    BY <2>1, SubSeqProperties
  <2> HIDE DEF t
  <2>3. Len(t) = Len(s) - 1
    <3> DEFINE n == Len(s)
    <3>1. n \in Nat /\ n >= 1 /\ Len(t) = IF 1 <= n - 1 THEN (n - 1) - 1 + 1 ELSE 0
      BY <1>1, <2>2
    <3> HIDE DEF n
    <3>2. Len(t) = n - 1
      BY <3>1
    <3> QED BY <3>2 DEF n
  <2>4. ASSUME NEW i \in 1 .. Len(s) - 1 PROVE t[i] = s[i]
    <3>1. i \in 1 .. (Len(s) - 1) - 1 + 1 /\ 1 + i - 1 = i
      BY <1>1
    <3>2. t[i] = s[1 + i - 1]
      BY <2>2, <3>1
    <3> QED BY <3>1, <3>2
  <2> QED BY <2>2, <2>3, <2>4
<1> HIDE DEF t
<1>3. Len(s) > 1 => t # <<>>
  BY <1>1, <1>2
<1>4. Len(s) = 1 => t = <<>>
  BY <1>2, EmptySeq
<1> QED BY <1>2, <1>3, <1>4 DEF t

-----------------------------------------------------------------------------
(* What a step of processor c leaves of the others. *)
LEMMA OthersApart ==
  ASSUME TypeOK, NEW c \in Cpus, NEW d \in Cpus, d # c, calls'[d] = calls[d]
  PROVE  /\ Depth(d)' = Depth(d) /\ Owns(d)' = Owns(d)
         /\ \A point : Running(d, point)' = Running(d, point)
         /\ Me(d) # Me(c) /\ Me(d) # 0
<1>1. Cpus \subseteq Nat
  BY LockAssumption
<1> QED BY <1>1 DEF Depth, Owns, Running, Me

(* The invariant is kept by any step of processor c that, for its own calls *)
(* and the lock word, does what the hypotheses say.                         *)
LEMMA StepKeeps ==
  ASSUME IInv, NEW c \in Cpus, NEW t \in Seq(Points),
         calls' = [calls EXCEPT ![c] = t],
         core' \in {core, 0, Me(c)}, core' # core => core \in {0, Me(c)},
         cont' \in Int, cont' # cont => core = Me(c),
         \A i \in 1 .. Len(t) - 1 : t[i] = "inside",
         Owns(c)' => core' = Me(c),
         core' = Me(c) => t # <<>> /\ cont' = Depth(c)',
         core' = 0 => cont' = 0,
         Running(c, "clear")' => Len(t) = 1
  PROVE  IInv'
<1>1. /\ TypeOK /\ OuterInside /\ OwnerKnown /\ CountIsDepth /\ FreeIsZero /\ ClearIsLast
  BY DEF IInv
<1>2. /\ calls' \in [Cpus -> Seq(Points)] /\ calls'[c] = t
      /\ \A d \in Cpus : d # c => calls'[d] = calls[d]
  BY <1>1 DEF TypeOK
<1>3. TypeOK'
  BY <1>1, <1>2 DEF TypeOK
<1>4. OuterInside'
  BY <1>1, <1>2 DEF OuterInside
<1>5. ASSUME NEW d \in Cpus, d # c
      PROVE  /\ Depth(d)' = Depth(d) /\ Owns(d)' = Owns(d)
             /\ \A point : Running(d, point)' = Running(d, point)
             /\ Me(d) # Me(c) /\ Me(d) # 0
             /\ calls'[d] = calls[d]
  BY <1>1, <1>2, <1>5, OthersApart
<1>6. OwnerKnown'
  <2>1. ASSUME NEW d \in Cpus, d # c, Owns(d)'
        PROVE  core' = Me(d)
    BY <1>1, <1>5, <2>1 DEF OwnerKnown
  <2> QED BY <2>1 DEF OwnerKnown, Me
<1>7. CountIsDepth'
  <2>1. ASSUME NEW d \in Cpus, d # c, core' = Me(d)
        PROVE  calls'[d] # <<>> /\ cont' = Depth(d)'
    <3>1. core = Me(d) /\ cont' = cont
      BY <1>5, <2>1
    <3> QED BY <1>1, <1>5, <2>1, <3>1 DEF CountIsDepth
  <2> QED BY <1>2, <2>1 DEF CountIsDepth, Me
<1>8. ClearIsLast'
  BY <1>1, <1>2, <1>5 DEF ClearIsLast
<1>9. FreeIsZero'
  BY DEF FreeIsZero
<1> QED BY <1>3, <1>4, <1>6, <1>7, <1>8, <1>9 DEF IInv

-----------------------------------------------------------------------------
(* What the invariant says of a processor that is in a call. *)
LEMMA InCall ==
  ASSUME IInv, NEW c \in Cpus, calls[c] # <<>>
  PROVE  /\ calls[c] \in Seq(Points) /\ Len(calls[c]) \in Nat \ {0}
         /\ \A i \in 1 .. Len(calls[c]) - 1 : calls[c][i] = "inside"
         /\ core \in {0} \cup {Me(d) : d \in Cpus} /\ cont \in Int /\ Me(c) # 0
         /\ Owns(c) => core = Me(c)
         /\ core = Me(c) => cont = Depth(c)
         /\ core = 0 => cont = 0
         /\ Running(c, "clear") => Len(calls[c]) = 1
<1>1. /\ TypeOK /\ OuterInside /\ OwnerKnown /\ CountIsDepth /\ FreeIsZero /\ ClearIsLast
  BY DEF IInv
<1>2. calls[c] \in Seq(Points) /\ Me(c) # 0
  <2>1. Me(c) # 0
    BY MeNotZero
  <2>2. calls[c] \in Seq(Points)
    BY <1>1 DEF TypeOK
  <2> QED BY <2>1, <2>2
<1>3. Len(calls[c]) \in Nat \ {0}
  BY <1>2, EmptySeq
<1> QED BY <1>1, <1>2, <1>3
        DEF TypeOK, OuterInside, OwnerKnown, CountIsDepth, FreeIsZero, ClearIsLast

(* A step within the running call: where it stands now, what is below it. *)
LEMMA LastMoved ==
  ASSUME IInv, NEW c \in Cpus, calls[c] # <<>>, NEW point \in Points, Goto(c, point)
  PROVE  \E t \in Seq(Points) :
           /\ calls' = [calls EXCEPT ![c] = t] /\ calls'[c] = t
           /\ t # <<>> /\ Len(t) = Len(calls[c])
           /\ \A i \in 1 .. Len(t) - 1 : t[i] = "inside"
           /\ \A p : Running(c, p)' <=> p = point
           /\ Depth(c)' = IF point = "inside" THEN Len(t) ELSE Len(t) - 1
           /\ Owns(c)' <=> Len(t) > 1 \/ point \in {"count", "inside", "test", "clear"}
<1> DEFINE s == calls[c]
           t == [s EXCEPT ![Len(s)] = point]
<1>1. calls \in [Cpus -> Seq(Points)] /\ s \in Seq(Points) /\ s # <<>>
  BY DEF IInv, TypeOK
<1>2. /\ t \in Seq(Points) /\ Len(t) = Len(s) /\ t # <<>> /\ t[Len(t)] = point
      /\ \A i \in 1 .. Len(s) - 1 : t[i] = s[i]
  BY <1>1, MoveLast
<1>3. calls' = [calls EXCEPT ![c] = t] /\ calls'[c] = t
  BY <1>1 DEF Goto
<1> HIDE DEF t
<1>4. \A i \in 1 .. Len(t) - 1 : t[i] = "inside"
  BY <1>2, InCall
<1>5. \A p : Running(c, p)' <=> p = point
  BY <1>2, <1>3 DEF Running
<1>6. Depth(c)' = IF point = "inside" THEN Len(t) ELSE Len(t) - 1
  BY <1>3, <1>5 DEF Depth
<1>7. Owns(c)' <=> Len(t) > 1 \/ point \in {"count", "inside", "test", "clear"}
  BY <1>3, <1>5 DEF Owns
<1> QED BY <1>2, <1>3, <1>4, <1>5, <1>6, <1>7

(* The running call ends: its caller, if there is one, is inside the lock. *)
LEMMA Returned ==
  ASSUME IInv, NEW c \in Cpus, calls[c] # <<>>, Return(c)
  PROVE  \E t \in Seq(Points) :
           /\ calls' = [calls EXCEPT ![c] = t]
           /\ Len(t) = Len(calls[c]) - 1
           /\ t # <<>> <=> Len(calls[c]) > 1
           /\ \A i \in 1 .. Len(t) - 1 : t[i] = "inside"
           /\ \A p : Running(c, p)' <=> t # <<>> /\ p = "inside"
           /\ t # <<>> => Depth(c)' = Len(t)
           /\ Owns(c)' <=> t # <<>>
<1> DEFINE s == calls[c]
           t == SubSeq(s, 1, Len(s) - 1)
<1>1. /\ calls \in [Cpus -> Seq(Points)] /\ s \in Seq(Points) /\ s # <<>>
      /\ Len(s) \in Nat \ {0} /\ \A i \in 1 .. Len(s) - 1 : s[i] = "inside"
  BY InCall DEF IInv, TypeOK
<1>2. /\ t \in Seq(Points) /\ Len(t) = Len(s) - 1
      /\ Len(s) > 1 => t # <<>>
      /\ Len(s) = 1 => t = <<>>
      /\ \A i \in 1 .. Len(s) - 1 : t[i] = s[i]
  BY <1>1, PopLast
<1>3. calls' = [calls EXCEPT ![c] = t] /\ calls'[c] = t
  BY <1>1 DEF Return
<1> HIDE DEF t
<1>4. t # <<>> <=> Len(s) > 1
  BY <1>1, <1>2
<1>5. \A i \in 1 .. Len(t) : t[i] = "inside"
  BY <1>1, <1>2
<1>6. t # <<>> => Len(t) \in 1 .. Len(t) /\ t[Len(t)] = "inside"
  BY <1>1, <1>2, <1>4, <1>5
<1>7. \A p : Running(c, p)' <=> t # <<>> /\ p = "inside"
  BY <1>3, <1>6 DEF Running
<1>8. t # <<>> => Depth(c)' = Len(t)
  BY <1>3, <1>7 DEF Depth
<1>9. Owns(c)' <=> t # <<>>
  <2>1. CASE t = <<>>
    BY <1>3, <1>7, <2>1, EmptySeq DEF Owns
  <2>2. CASE t # <<>>
    BY <1>3, <1>7, <2>2 DEF Owns
  <2> QED BY <2>1, <2>2
<1>10. \A i \in 1 .. Len(t) - 1 : t[i] = "inside"
  BY <1>1, <1>2, <1>5
<1> QED BY <1>2, <1>3, <1>4, <1>7, <1>8, <1>9, <1>10

-----------------------------------------------------------------------------
LEMMA CallKeeps ==
  ASSUME IInv, NEW c \in Cpus, Call(c)
  PROVE  IInv'
<1> DEFINE s == calls[c]
           t == Append(s, "compare")
<1>1. /\ calls \in [Cpus -> Seq(Points)] /\ s \in Seq(Points) /\ "compare" \in Points
      /\ core' = core /\ cont' = cont /\ cont \in Int
      /\ s = <<>> \/ Running(c, "inside")
  BY DEF IInv, TypeOK, Points, Call, Enter
<1>2. /\ t \in Seq(Points) /\ Len(t) = Len(s) + 1 /\ t # <<>> /\ t[Len(t)] = "compare"
      /\ \A i \in 1 .. Len(s) : t[i] = s[i]
  BY <1>1, PushLast
<1>3. calls' = [calls EXCEPT ![c] = t] /\ calls'[c] = t
  BY <1>1 DEF Call, Enter
<1> HIDE DEF t
<1>4. \A p : Running(c, p)' <=> p = "compare"
  BY <1>2, <1>3 DEF Running
<1>5. Depth(c)' = Len(s) /\ (Owns(c)' <=> Len(s) > 0)
  <2>1. Len(s) \in Nat
    BY <1>1
  <2> QED BY <1>2, <1>3, <1>4, <2>1 DEF Depth, Owns
<1>6. CASE s = <<>>
  <2>1. Len(s) = 0
    BY <1>6
  <2>2. core # Me(c)
    BY <1>6 DEF IInv, CountIsDepth
  <2>3. core = 0 => cont = 0
    BY DEF IInv, FreeIsZero
  <2>4. \A i \in 1 .. Len(t) - 1 : t[i] = "inside"
    BY <1>2, <2>1
  <2>5. ~Owns(c)' /\ ~Running(c, "clear")' /\ core' # Me(c)
    BY <1>1, <1>4, <1>5, <2>1, <2>2
  <2> QED BY <1>1, <1>2, <1>3, <2>3, <2>4, <2>5, StepKeeps
<1>7. CASE s # <<>> /\ Running(c, "inside")
  <2>1. /\ Len(s) \in Nat \ {0} /\ \A i \in 1 .. Len(s) - 1 : s[i] = "inside"
        /\ s[Len(s)] = "inside"
    BY <1>7, InCall DEF Running
  <2>2. core = Me(c) /\ cont = Len(s)
    BY <1>7, InCall DEF Owns, Depth
  <2>3. \A i \in 1 .. Len(t) - 1 : t[i] = "inside"
    BY <1>2, <2>1
  <2>4. core = 0 => cont = 0
    BY DEF IInv, FreeIsZero
  <2>5. Owns(c)' /\ ~Running(c, "clear")' /\ Depth(c)' = cont /\ core' = Me(c)
    BY <1>1, <1>4, <1>5, <2>1, <2>2
  <2> QED BY <1>1, <1>2, <1>3, <2>3, <2>4, <2>5, StepKeeps
<1> QED BY <1>1, <1>6, <1>7

LEMMA CompareKeeps ==
  ASSUME IInv, NEW c \in Cpus, Compare(c)
  PROVE  IInv'
<1> DEFINE point == IF core = Me(c) THEN "count" ELSE "exchange"
<1>1. /\ Running(c, "compare") /\ Goto(c, point) /\ core' = core /\ cont' = cont
      /\ calls[c] # <<>> /\ point \in Points
  BY DEF Compare, Running, Points
<1>2. /\ Len(calls[c]) \in Nat \ {0} /\ cont \in Int
      /\ Owns(c) => core = Me(c)
      /\ core = Me(c) => cont = Depth(c)
      /\ core = 0 => cont = 0
  BY <1>1, InCall
<1>3. PICK t \in Seq(Points) :
           /\ calls' = [calls EXCEPT ![c] = t] /\ calls'[c] = t
           /\ t # <<>> /\ Len(t) = Len(calls[c])
           /\ \A i \in 1 .. Len(t) - 1 : t[i] = "inside"
           /\ \A p : Running(c, p)' <=> p = point
           /\ Depth(c)' = IF point = "inside" THEN Len(t) ELSE Len(t) - 1
           /\ Owns(c)' <=> Len(t) > 1 \/ point \in {"count", "inside", "test", "clear"}
  BY <1>1, LastMoved
<1>4. Depth(c) = Len(calls[c]) - 1
  BY <1>1 DEF Depth, Running
<1>5. Owns(c)' => core' = Me(c)
  BY <1>1, <1>2, <1>3 DEF Owns
<1>6. core' = Me(c) => t # <<>> /\ cont' = Depth(c)'
  BY <1>1, <1>2, <1>3, <1>4
<1> QED BY <1>1, <1>2, <1>3, <1>5, <1>6, StepKeeps

LEMMA ExchangeKeeps ==
  ASSUME IInv, NEW c \in Cpus, Exchange(c)
  PROVE  IInv'
<1>1. /\ Running(c, "exchange") /\ Goto(c, "compare") /\ cont' = cont
      /\ core' = IF core = 0 THEN Me(c) ELSE core
      /\ calls[c] # <<>> /\ "compare" \in Points
  BY DEF Exchange, Running, Points
<1>2. /\ Len(calls[c]) \in Nat \ {0} /\ cont \in Int /\ Me(c) # 0
      /\ Owns(c) => core = Me(c)
      /\ core = Me(c) => cont = Depth(c)
      /\ core = 0 => cont = 0
  BY <1>1, InCall
<1>3. PICK t \in Seq(Points) :
           /\ calls' = [calls EXCEPT ![c] = t] /\ calls'[c] = t
           /\ t # <<>> /\ Len(t) = Len(calls[c])
           /\ \A i \in 1 .. Len(t) - 1 : t[i] = "inside"
           /\ \A p : Running(c, p)' <=> p = "compare"
           /\ Depth(c)' = IF "compare" = "inside" THEN Len(t) ELSE Len(t) - 1
           /\ Owns(c)' <=> Len(t) > 1 \/ "compare" \in {"count", "inside", "test", "clear"}
  BY <1>1, LastMoved
<1>4. Depth(c) = Len(calls[c]) - 1
  BY <1>1 DEF Depth, Running
<1>5. Owns(c)' => core' = Me(c)
  BY <1>1, <1>2, <1>3 DEF Owns
<1>6. core' = Me(c) => t # <<>> /\ cont' = Depth(c)'
  <2>1. CASE core = 0
    <3>1. Len(calls[c]) = 1
      <4>1. ~Owns(c)
        BY <1>2, <2>1
      <4>2. ~(Len(calls[c]) > 1)
        BY <4>1 DEF Owns
      <4>3. Len(calls[c]) \in Nat \ {0}
        BY <1>2
      <4> QED BY <4>2, <4>3, OneOrMore
    <3>2. cont' = 0 /\ Len(t) = 1 /\ t # <<>>
      BY <1>1, <1>2, <1>3, <2>1, <3>1
    <3>3. Depth(c)' = Len(t) - 1
      BY <1>3
    <3> QED BY <3>2, <3>3
  <2>2. CASE core # 0
    BY <1>1, <1>2, <1>3, <1>4, <2>2
  <2> QED BY <2>1, <2>2
<1>7. core' = 0 => cont' = 0
  BY <1>1, <1>2
<1> QED BY <1>1, <1>2, <1>3, <1>5, <1>6, <1>7, StepKeeps

LEMMA CountKeeps ==
  ASSUME IInv, NEW c \in Cpus, Count(c)
  PROVE  IInv'
<1>1. /\ Running(c, "count") /\ Goto(c, "inside") /\ cont' = cont + 1 /\ core' = core
      /\ calls[c] # <<>> /\ "inside" \in Points
  BY DEF Count, Running, Points
<1>2. /\ Len(calls[c]) \in Nat \ {0} /\ cont \in Int /\ Me(c) # 0
      /\ Owns(c) => core = Me(c)
      /\ core = Me(c) => cont = Depth(c)
  BY <1>1, InCall
<1>3. PICK t \in Seq(Points) :
           /\ calls' = [calls EXCEPT ![c] = t] /\ calls'[c] = t
           /\ t # <<>> /\ Len(t) = Len(calls[c])
           /\ \A i \in 1 .. Len(t) - 1 : t[i] = "inside"
           /\ \A p : Running(c, p)' <=> p = "inside"
           /\ Depth(c)' = IF "inside" = "inside" THEN Len(t) ELSE Len(t) - 1
           /\ Owns(c)' <=> Len(t) > 1 \/ "inside" \in {"count", "inside", "test", "clear"}
  BY <1>1, LastMoved
<1>4. Depth(c) = Len(calls[c]) - 1 /\ Owns(c)
  BY <1>1 DEF Depth, Owns, Running
<1>5. core = Me(c) /\ cont' = Depth(c)' /\ cont' \in Int
  BY <1>1, <1>2, <1>3, <1>4
<1> QED BY <1>1, <1>2, <1>3, <1>5, StepKeeps

LEMMA UncountKeeps ==
  ASSUME IInv, NEW c \in Cpus, Uncount(c)
  PROVE  IInv'
<1>1. /\ Running(c, "inside") /\ Goto(c, "test") /\ cont' = cont - 1 /\ core' = core
      /\ calls[c] # <<>> /\ "test" \in Points
  BY DEF Uncount, Running, Points
<1>2. /\ Len(calls[c]) \in Nat \ {0} /\ cont \in Int /\ Me(c) # 0
      /\ Owns(c) => core = Me(c)
      /\ core = Me(c) => cont = Depth(c)
  BY <1>1, InCall
<1>3. PICK t \in Seq(Points) :
           /\ calls' = [calls EXCEPT ![c] = t] /\ calls'[c] = t
           /\ t # <<>> /\ Len(t) = Len(calls[c])
           /\ \A i \in 1 .. Len(t) - 1 : t[i] = "inside"
           /\ \A p : Running(c, p)' <=> p = "test"
           /\ Depth(c)' = IF "test" = "inside" THEN Len(t) ELSE Len(t) - 1
           /\ Owns(c)' <=> Len(t) > 1 \/ "test" \in {"count", "inside", "test", "clear"}
  BY <1>1, LastMoved
<1>4. Depth(c) = Len(calls[c]) /\ Owns(c)
  BY <1>1 DEF Depth, Owns
<1>5. core = Me(c) /\ cont' = Depth(c)' /\ cont' \in Int
  BY <1>1, <1>2, <1>3, <1>4
<1> QED BY <1>1, <1>2, <1>3, <1>5, StepKeeps

LEMMA ReturnKeeps ==
  ASSUME IInv, NEW c \in Cpus, calls[c] # <<>>, Return(c), cont' = cont,
         cont = Len(calls[c]) - 1, core = Me(c),
         core' = IF Len(calls[c]) = 1 THEN 0 ELSE core
  PROVE  IInv'
<1>1. /\ Len(calls[c]) \in Nat \ {0} /\ cont \in Int /\ Me(c) # 0
  BY InCall
<1>2. PICK t \in Seq(Points) :
           /\ calls' = [calls EXCEPT ![c] = t]
           /\ Len(t) = Len(calls[c]) - 1
           /\ t # <<>> <=> Len(calls[c]) > 1
           /\ \A i \in 1 .. Len(t) - 1 : t[i] = "inside"
           /\ \A p : Running(c, p)' <=> t # <<>> /\ p = "inside"
           /\ t # <<>> => Depth(c)' = Len(t)
           /\ Owns(c)' <=> t # <<>>
  BY Returned
<1>3. CASE Len(calls[c]) = 1
  <2>1. ~Owns(c)' /\ ~Running(c, "clear")' /\ core' = 0 /\ cont' = 0 /\ t = <<>>
    BY <1>1, <1>2, <1>3
  <2> QED BY <1>1, <1>2, <2>1, StepKeeps
<1>4. CASE Len(calls[c]) # 1
  <2>1. /\ t # <<>> /\ core' = core /\ cont' = Depth(c)' /\ ~Running(c, "clear")'
    <3>1. t # <<>> /\ core' = core
      <4>1. Len(calls[c]) > 1
        BY <1>1, <1>4, OneOrMore
      <4> QED BY <1>2, <1>4, <4>1
    <3>2. cont' = Len(t) /\ Depth(c)' = Len(t)
      BY <1>2, <3>1
    <3>3. ~Running(c, "clear")'
      BY <1>2
    <3> QED BY <3>1, <3>2, <3>3
  <2>2. core' = Me(c) /\ core' # 0
    BY <1>1, <2>1
  <2> QED BY <1>1, <1>2, <2>1, <2>2, StepKeeps
<1> QED BY <1>3, <1>4

LEMMA TestKeeps ==
  ASSUME IInv, NEW c \in Cpus, Test(c)
  PROVE  IInv'
<1>1. /\ Running(c, "test") /\ cont' = cont /\ core' = core
      /\ IF cont = 0 THEN Goto(c, "clear") ELSE Return(c)
      /\ calls[c] # <<>> /\ "clear" \in Points
  BY DEF Test, Running, Points
<1>2. /\ Len(calls[c]) \in Nat \ {0} /\ cont \in Int /\ Me(c) # 0
      /\ Owns(c) => core = Me(c)
      /\ core = Me(c) => cont = Depth(c)
  BY <1>1, InCall
<1>3. core = Me(c) /\ cont = Len(calls[c]) - 1
  BY <1>1, <1>2 DEF Depth, Owns, Running
<1>4. CASE cont = 0
  <2>1. PICK t \in Seq(Points) :
           /\ calls' = [calls EXCEPT ![c] = t] /\ calls'[c] = t
           /\ t # <<>> /\ Len(t) = Len(calls[c])
           /\ \A i \in 1 .. Len(t) - 1 : t[i] = "inside"
           /\ \A p : Running(c, p)' <=> p = "clear"
           /\ Depth(c)' = IF "clear" = "inside" THEN Len(t) ELSE Len(t) - 1
           /\ Owns(c)' <=> Len(t) > 1 \/ "clear" \in {"count", "inside", "test", "clear"}
    BY <1>1, <1>4, LastMoved
  <2>2. Len(t) = 1 /\ cont' = Depth(c)'
    BY <1>1, <1>2, <1>3, <1>4, <2>1
  <2> QED BY <1>1, <1>2, <1>3, <2>1, <2>2, StepKeeps
<1>5. CASE cont # 0
  <2>1. Return(c) /\ Len(calls[c]) # 1
    BY <1>1, <1>2, <1>3, <1>5
  <2> QED BY <1>1, <1>3, <2>1, ReturnKeeps
<1> QED BY <1>4, <1>5

LEMMA ClearKeeps ==
  ASSUME IInv, NEW c \in Cpus, Clear(c)
  PROVE  IInv'
<1>1. /\ Running(c, "clear") /\ cont' = cont /\ core' = 0 /\ Return(c)
      /\ calls[c] # <<>>
  BY DEF Clear, Running
<1>2. /\ Len(calls[c]) = 1 /\ cont \in Int
      /\ Owns(c) => core = Me(c)
      /\ core = Me(c) => cont = Depth(c)
  BY <1>1, InCall
<1>3. core = Me(c) /\ cont = Len(calls[c]) - 1
  BY <1>1, <1>2 DEF Depth, Owns, Running
<1> QED BY <1>1, <1>2, <1>3, ReturnKeeps

LEMMA IInvInit ==
  ASSUME Init
  PROVE  IInv
<1>1. core = 0 /\ cont = 0 /\ \A c \in Cpus : calls[c] = <<>>
  BY DEF Init
<1>2. TypeOK
  BY DEF Init, TypeOK
<1>3. ASSUME NEW c \in Cpus
      PROVE  ~Owns(c) /\ Len(calls[c]) = 0 /\ Me(c) # 0 /\ ~Running(c, "clear")
  <2>1. calls[c] = <<>> /\ Len(calls[c]) = 0
    BY <1>1
  <2>2. \A point : ~Running(c, point)
    BY <2>1 DEF Running
  <2>3. Me(c) # 0
    BY LockAssumption DEF Me
  <2> QED BY <2>1, <2>2, <2>3 DEF Owns
<1>4. OuterInside
  BY <1>3 DEF OuterInside
<1>5. OwnerKnown /\ CountIsDepth /\ FreeIsZero /\ ClearIsLast
  BY <1>1, <1>3 DEF OwnerKnown, CountIsDepth, FreeIsZero, ClearIsLast
<1> QED BY <1>2, <1>4, <1>5 DEF IInv

LEMMA InvariantHolds ==
  Spec => []IInv
<1>1. Init => IInv
  BY IInvInit
<1>2. IInv /\ [Next]_vars => IInv'
  <2> SUFFICES ASSUME IInv, [Next]_vars PROVE IInv'
    OBVIOUS
  <2>1. ASSUME NEW c \in Cpus, Call(c) \/ Step(c) PROVE IInv'
    BY <2>1, CallKeeps, CompareKeeps, ExchangeKeeps, CountKeeps, UncountKeeps,
       TestKeeps, ClearKeeps DEF Step
  <2>2. CASE UNCHANGED vars
    BY <2>2 DEF vars, IInv, TypeOK, OuterInside, OwnerKnown, CountIsDepth, FreeIsZero,
                ClearIsLast, Owns, Depth, Running
  <2> QED BY <2>1, <2>2 DEF Next
<1> QED BY <1>1, <1>2, PTL DEF Spec

LEMMA IInvExcludes ==
  IInv => MutualExclusion
<1>1. ASSUME IInv, NEW c \in Cpus, Inside(c) PROVE core = Me(c)
  <2>1. PICK i \in 1 .. Len(calls[c]) : calls[c][i] = "inside"
    BY <1>1 DEF Inside
  <2>2. calls[c] # <<>> /\ Len(calls[c]) \in Nat
    BY <1>1, <2>1 DEF IInv, TypeOK
  <2>3. Owns(c)
    BY <2>1, <2>2 DEF Owns, Running
  <2> QED BY <1>1, <2>3 DEF IInv, OwnerKnown
<1>2. \A c, d \in Cpus : Me(c) = Me(d) => c = d
  BY LockAssumption DEF Me
<1> QED BY <1>1, <1>2 DEF MutualExclusion

LEMMA IInvLeavesFree ==
  IInv => LeftFree
BY DEF IInv, LeftFree, TypeOK, CountIsDepth, FreeIsZero

(* No two processors are inside the lock, whatever the nesting.             *)
THEOREM Exclusion ==
  Spec => []MutualExclusion
BY InvariantHolds, IInvExcludes, PTL

(* At rest the lock is free and its count is zero. *)
THEOREM FreeAtRest ==
  Spec => []LeftFree
BY InvariantHolds, IInvLeavesFree, PTL

-----------------------------------------------------------------------------
Stages == {"off", "trampoline", "kernel", "print", "halted"}

StartTypes ==
  /\ boot \in [at : {"next", "startup", "wait", "on"}, id : Nat]
  /\ bspLock \in {0, 1}
  /\ ap \in [Others -> Stages]
  /\ identity \in BOOLEAN /\ struck \in BOOLEAN

(* Whoever is on the boot stack is the processor that is waited for.        *)
OneAwaited ==
  /\ boot.at = "startup" => bspLock = 1
  /\ \A c \in OnStack : boot.id = c /\ boot.at = "wait" /\ bspLock = 1

HInv ==
  /\ StartTypes
  /\ boot.at # "on" => identity
  /\ struck => boot.at = "on"
  /\ late = {} => OneAwaited

-----------------------------------------------------------------------------
LEMMA BootStepKeeps ==
  ASSUME HInv, BootStep
  PROVE  HInv' /\ (late' = {} => late = {}) /\ UNCHANGED <<vars, console>>
<1> USE DEF HInv, StartTypes, OneAwaited, OnStack, Stages, vars, console, output
<1>1. CASE SkipProcessor
  BY <1>1 DEF SkipProcessor, Bits
<1>2. CASE StartProcessor
  BY <1>2 DEF StartProcessor
<1>3. CASE SendStartup
  BY <1>3 DEF SendStartup
<1>4. CASE Started
  BY <1>4 DEF Started
<1>5. CASE GiveUp
  BY <1>5 DEF GiveUp, TimesOut
<1>6. CASE UnmapLowMemory
  BY <1>6 DEF UnmapLowMemory
<1> QED BY <1>1, <1>2, <1>3, <1>4, <1>5, <1>6 DEF BootStep

LEMMA ApStepKeeps ==
  ASSUME HInv, NEW c \in Others, ApStep(c)
  PROVE  HInv' /\ late' = late /\ UNCHANGED <<vars, console>>
<1> USE DEF HInv, StartTypes, OneAwaited, OnStack, Stages, vars, console, output
<1>1. CASE Trampoline(c)
  BY <1>1 DEF Trampoline
<1>2. CASE SetupProcessor(c)
  BY <1>2 DEF SetupProcessor
<1>3. CASE Release(c)
  BY <1>3 DEF Release
<1> QED BY <1>1, <1>2, <1>3 DEF ApStep

LEMMA ConsoleStepKeeps ==
  ASSUME HInv, NEW c \in Cpus, ConsoleStep(c)
  PROVE  HInv' /\ UNCHANGED <<start, struck>> /\ (UNCHANGED vars \/ Call(c) \/ Step(c))
<1>1. UNCHANGED <<start, struck>> /\ (UNCHANGED vars \/ Call(c) \/ Step(c))
  BY DEF ConsoleStep, OutChar, Begin, Draw, Move, Scroll, LockStep, start
<1> QED BY <1>1 DEF HInv, StartTypes, OneAwaited, OnStack, start

LEMMA HandlerKeeps ==
  ASSUME HInv, HandlerPrints
  PROVE  HInv' /\ UNCHANGED start /\ Enter(Boot) /\ boot.at = "on" /\ struck'
<1>1. UNCHANGED start /\ Enter(Boot) /\ boot.at = "on" /\ struck' = TRUE
  BY DEF HandlerPrints, Begin
<1> QED BY <1>1 DEF HInv, StartTypes, OneAwaited, OnStack, start

LEMMA HInvInit ==
  ASSUME MachineInit
  PROVE  HInv
<1>1. /\ boot = [at |-> "next", id |-> 0] /\ bspLock = 0 /\ identity = TRUE
      /\ ap = [c \in Others |-> "off"] /\ struck = FALSE
  BY DEF MachineInit
<1>2. StartTypes /\ OnStack = {}
  BY <1>1 DEF StartTypes, OnStack, Stages
<1> QED BY <1>1, <1>2 DEF HInv, OneAwaited

LEMMA HandOverInvariant ==
  Machine => []HInv
<1>1. MachineInit => HInv
  BY HInvInit
<1>2. HInv /\ [MachineNext]_mvars => HInv'
  <2> SUFFICES ASSUME HInv, [MachineNext]_mvars PROVE HInv'
    OBVIOUS
  <2>1. CASE UNCHANGED mvars
    BY <2>1 DEF mvars, start, console, HInv, StartTypes, OneAwaited, OnStack
  <2>2. CASE MachineNext
    BY <2>2, BootStepKeeps, ApStepKeeps, ConsoleStepKeeps, HandlerKeeps DEF MachineNext
  <2> QED BY <2>1, <2>2
<1> QED BY <1>1, <1>2, PTL DEF Machine

(* Unless a late processor was given up, the processors are on the boot     *)
(* stack one at a time, while the boot processor waits for the one that is  *)
(* and low memory is mapped.                                                *)
THEOREM StackHandedOver ==
  Machine => []HandedOver
<1>1. HInv => HandedOver
  BY DEF HInv, OneAwaited, StartTypes, HandedOver
<1> QED BY HandOverInvariant, <1>1, PTL

-----------------------------------------------------------------------------
(* Once a handler has printed in the middle of a call the count is no       *)
(* longer the depth of the calls: handlers strike anywhere, and the inner   *)
(* call of one may give the lock away under the outer one.  What stays true *)
(* is that only the boot processor is left, and that the count is the       *)
(* number of its calls that are inside.                                     *)
Ins(s) == {i \in 1 .. Len(s) : s[i] = "inside"}

Alone ==
  /\ TypeOK
  /\ \A c \in Others : calls[c] = <<>>
  /\ core \in {0, Me(Boot)}
  /\ cont = Cardinality(Ins(calls[Boot]))
  /\ core # 0 => calls[Boot] # <<>>

CallersPrint == \A c \in Others : calls[c] # <<>> => ap[c] = "print"

MInv ==
  /\ HInv
  /\ ~struck => IInv
  /\ late = {} => CallersPrint
  /\ struck /\ late = {} => Alone

-----------------------------------------------------------------------------
LEMMA InsFinite ==
  ASSUME NEW s \in Seq(Points)
  PROVE  IsFiniteSet(Ins(s)) /\ Cardinality(Ins(s)) \in Nat
<1>1. IsFiniteSet(1 .. Len(s))
  BY FS_Interval
<1>2. Ins(s) \subseteq 1 .. Len(s)
  BY DEF Ins
<1> QED BY <1>1, <1>2, FS_Subset, FS_CardinalityType

LEMMA PushIns ==
  ASSUME NEW s \in Seq(Points)
  PROVE  Ins(Append(s, "compare")) = Ins(s)
BY DEF Ins

LEMMA MoveIns ==
  ASSUME NEW s \in Seq(Points), s # <<>>, NEW p \in Points
  PROVE  Cardinality(Ins([s EXCEPT ![Len(s)] = p])) =
           Cardinality(Ins(s)) + (IF p = "inside" THEN 1 ELSE 0)
                               - (IF s[Len(s)] = "inside" THEN 1 ELSE 0)
<1> DEFINE n == Len(s)
           t == [s EXCEPT ![n] = p]
<1>1. n \in Nat \ {0}
  BY EmptySeq
<1>2. /\ Len(t) = n /\ t[n] = p /\ \A i \in 1 .. n - 1 : t[i] = s[i]
  BY MoveLast
<1>3. IsFiniteSet(Ins(s)) /\ Cardinality(Ins(s)) \in Nat
  BY InsFinite
<1> HIDE DEF t, n
<1>4. n = Len(s) /\ 1 .. n = (1 .. n - 1) \cup {n} /\ n \notin 1 .. n - 1
  BY <1>1 DEF n
<1>5. CASE (p = "inside") <=> (s[n] = "inside")
  <2>1. Ins(t) = Ins(s)
    BY <1>2, <1>4, <1>5 DEF Ins
  <2> QED BY <1>3, <1>4, <1>5, <2>1 DEF t
<1>6. CASE p = "inside" /\ s[n] # "inside"
  <2>1. Ins(t) = Ins(s) \cup {n} /\ n \notin Ins(s)
    BY <1>2, <1>4, <1>6 DEF Ins
  <2>2. Cardinality(Ins(t)) = Cardinality(Ins(s)) + 1
    BY <1>3, <2>1, FS_AddElement
  <2> QED BY <1>3, <1>4, <1>6, <2>2 DEF t
<1>7. CASE p # "inside" /\ s[n] = "inside"
  <2>1. Ins(t) = Ins(s) \ {n} /\ n \in Ins(s)
    BY <1>2, <1>4, <1>7 DEF Ins
  <2>2. Cardinality(Ins(t)) = Cardinality(Ins(s)) - 1
    BY <1>3, <2>1, FS_RemoveElement
  <2> QED BY <1>3, <1>4, <1>7, <2>2 DEF t
<1> QED BY <1>5, <1>6, <1>7

LEMMA PopIns ==
  ASSUME NEW s \in Seq(Points), s # <<>>, s[Len(s)] # "inside"
  PROVE  Ins(SubSeq(s, 1, Len(s) - 1)) = Ins(s)
<1> DEFINE n == Len(s)
           t == SubSeq(s, 1, n - 1)
<1>1. n \in Nat \ {0}
  BY EmptySeq
<1>2. Len(t) = n - 1 /\ \A i \in 1 .. n - 1 : t[i] = s[i]
  BY PopLast
<1> HIDE DEF t, n
<1>3. n = Len(s) /\ 1 .. n = (1 .. n - 1) \cup {n} /\ n \notin 1 .. n - 1
  BY <1>1 DEF n
<1>4. Ins(t) = Ins(s)
  BY <1>2, <1>3 DEF Ins
<1> QED BY <1>3, <1>4 DEF t

-----------------------------------------------------------------------------
LEMMA BootId ==
  Boot \in Cpus /\ Me(Boot) # 0 /\ Me(Boot) \in Nat /\ Cpus \subseteq Nat
BY LockAssumption, MachineAssumption DEF Me

(* The first handler that strikes finds the invariant of the lock, and the  *)
(* other processors halted.                                                 *)
LEMMA BecomesAlone ==
  ASSUME IInv, \A c \in Others : calls[c] = <<>>
  PROVE  Alone
<1> DEFINE s == calls[Boot]
<1>1. TypeOK /\ OuterInside /\ OwnerKnown /\ CountIsDepth /\ FreeIsZero
  BY DEF IInv
<1>2. s \in Seq(Points) /\ Len(s) \in Nat
  BY <1>1, BootId DEF TypeOK
<1>3. core \in {0, Me(Boot)}
  BY <1>1 DEF TypeOK, CountIsDepth, Others
<1>4. CASE core = 0
  <2>1. ~Owns(Boot) /\ cont = 0
    BY <1>1, <1>4, BootId DEF OwnerKnown, FreeIsZero
  <2>2. ~(Len(s) > 1) /\ ~Running(Boot, "inside")
    BY <2>1 DEF Owns
  <2>3. Ins(s) = {}
    BY <1>2, <2>2, EmptySeq DEF Ins, Running
  <2> QED BY <1>1, <1>4, <2>1, <2>3, FS_EmptySet DEF Alone
<1>5. CASE core = Me(Boot)
  <2>1. s # <<>> /\ cont = Depth(Boot)
    BY <1>1, <1>5, BootId DEF CountIsDepth
  <2>2. \A i \in 1 .. Len(s) - 1 : s[i] = "inside"
    BY <1>1, BootId DEF OuterInside
  <2>3. Len(s) \in Nat \ {0}
    BY <1>2, <2>1, EmptySeq
  <2>4. Depth(Boot) \in {Len(s), Len(s) - 1} /\ Ins(s) = 1 .. Depth(Boot)
    <3>1. CASE Running(Boot, "inside")
      BY <2>1, <2>2, <2>3, <3>1 DEF Depth, Running, Ins
    <3>2. CASE ~Running(Boot, "inside")
      BY <2>1, <2>2, <2>3, <3>2 DEF Depth, Running, Ins
    <3> QED BY <3>1, <3>2
  <2>5. Cardinality(Ins(s)) = cont
    <3> DEFINE d == Depth(Boot)
    <3>1. d \in Nat /\ Ins(s) = 1 .. d /\ cont = d
      BY <2>1, <2>3, <2>4
    <3> HIDE DEF d
    <3>2. Cardinality(1 .. d) = d
      BY <3>1, FS_Interval
    <3> QED BY <3>1, <3>2
  <2> QED BY <1>1, <1>5, <2>1, <2>5 DEF Alone
<1> QED BY <1>3, <1>4, <1>5

LEMMA AloneMoves ==
  ASSUME Alone, NEW from \in Points, NEW point \in Points,
         Running(Boot, from), Goto(Boot, point),
         core' \in {core, Me(Boot)},
         cont' = cont + (IF point = "inside" THEN 1 ELSE 0)
                      - (IF from = "inside" THEN 1 ELSE 0)
  PROVE  Alone'
<1> DEFINE s == calls[Boot]
           t == [s EXCEPT ![Len(s)] = point]
<1>1. calls \in [Cpus -> Seq(Points)] /\ s \in Seq(Points) /\ s # <<>> /\ s[Len(s)] = from
  BY BootId DEF Alone, TypeOK, Running
<1>2. calls' = [calls EXCEPT ![Boot] = t]
  BY DEF Goto
<1>3. t \in Seq(Points) /\ t # <<>>
  BY <1>1, MoveLast
<1>4. Cardinality(Ins(t)) = Cardinality(Ins(s)) + (IF point = "inside" THEN 1 ELSE 0)
                                                - (IF from = "inside" THEN 1 ELSE 0)
  BY <1>1, MoveIns
<1> HIDE DEF t
<1>5. calls' \in [Cpus -> Seq(Points)] /\ calls'[Boot] = t
      /\ \A c \in Others : calls'[c] = <<>>
  BY <1>1, <1>2, <1>3, BootId DEF Alone, Others
<1>6. core' \in {0, Me(Boot)} /\ cont' = Cardinality(Ins(t))
  BY <1>4 DEF Alone
<1>7. TypeOK'
  <2>1. cont' \in Int
    BY <1>3, <1>6, InsFinite
  <2> QED BY <1>5, <1>6, <2>1, BootId DEF TypeOK
<1> QED BY <1>3, <1>5, <1>6, <1>7 DEF Alone, Me

LEMMA AloneReturns ==
  ASSUME Alone, calls[Boot] # <<>>, ~Running(Boot, "inside"), Return(Boot),
         cont' = cont, core' = 0 \/ (core' = core /\ cont # 0)
  PROVE  Alone'
<1> DEFINE s == calls[Boot]
           t == SubSeq(s, 1, Len(s) - 1)
<1>1. /\ calls \in [Cpus -> Seq(Points)] /\ s \in Seq(Points) /\ s # <<>>
      /\ s[Len(s)] # "inside"
  BY BootId DEF Alone, TypeOK, Running
<1>2. calls' = [calls EXCEPT ![Boot] = t]
  BY DEF Return
<1>3. t \in Seq(Points) /\ Ins(t) = Ins(s)
  BY <1>1, PopLast, PopIns
<1> HIDE DEF t
<1>4. calls' \in [Cpus -> Seq(Points)] /\ calls'[Boot] = t
      /\ \A c \in Others : calls'[c] = <<>>
  BY <1>1, <1>2, <1>3, BootId DEF Alone, Others
<1>5. core' \in {0, Me(Boot)} /\ cont' = Cardinality(Ins(t))
  BY <1>3 DEF Alone
<1>6. core' # 0 => t # <<>>
  <2>1. t = <<>> => Ins(t) = {}
    BY DEF Ins
  <2> QED BY <1>5, <2>1, FS_EmptySet
<1>7. TypeOK'
  BY <1>4, <1>5, BootId DEF TypeOK, Alone
<1> QED BY <1>4, <1>5, <1>6, <1>7 DEF Alone, Me

LEMMA AloneKeeps ==
  ASSUME Alone, Enter(Boot) \/ Step(Boot) \/ UNCHANGED vars
  PROVE  Alone'
<1>1. CASE Enter(Boot)
  <2> DEFINE s == calls[Boot]
             t == Append(s, "compare")
  <2>1. calls \in [Cpus -> Seq(Points)] /\ s \in Seq(Points) /\ "compare" \in Points
    BY BootId DEF Alone, TypeOK, Points
  <2>2. t \in Seq(Points) /\ t # <<>> /\ Ins(t) = Ins(s)
    BY <2>1, PushLast, PushIns
  <2>3. calls' = [calls EXCEPT ![Boot] = t] /\ core' = core /\ cont' = cont
    BY <1>1 DEF Enter
  <2> HIDE DEF t
  <2>4. calls' \in [Cpus -> Seq(Points)] /\ calls'[Boot] = t
        /\ \A c \in Others : calls'[c] = <<>>
    BY <2>1, <2>2, <2>3, BootId DEF Alone, Others
  <2> QED BY <2>2, <2>3, <2>4 DEF Alone, TypeOK, Me
<1>2. CASE Compare(Boot)
  <2> DEFINE point == IF core = Me(Boot) THEN "count" ELSE "exchange"
  <2>1. /\ Running(Boot, "compare") /\ Goto(Boot, point) /\ core' = core /\ cont' = cont
        /\ "compare" \in Points /\ point \in Points /\ point # "inside" /\ cont \in Int
    BY <1>2 DEF Compare, Points, Alone, TypeOK
  <2> HIDE DEF point
  <2> QED BY <2>1, AloneMoves
<1>3. CASE Exchange(Boot)
  BY <1>3, AloneMoves DEF Exchange, Points, Alone, TypeOK
<1>4. CASE Count(Boot)
  BY <1>4, AloneMoves DEF Count, Points, Alone, TypeOK
<1>5. CASE Uncount(Boot)
  BY <1>5, AloneMoves DEF Uncount, Points, Alone, TypeOK
<1>6. CASE Test(Boot)
  <2>1. CASE cont = 0
    BY <1>6, <2>1, AloneMoves DEF Test, Points
  <2>2. CASE cont # 0
    BY <1>6, <2>2, AloneReturns DEF Test, Running
  <2> QED BY <2>1, <2>2
<1>7. CASE Clear(Boot)
  BY <1>7, AloneReturns DEF Clear, Running
<1>8. CASE UNCHANGED vars
  BY <1>8 DEF vars, Alone, TypeOK, Me
<1> QED BY <1>1, <1>2, <1>3, <1>4, <1>5, <1>6, <1>7, <1>8 DEF Step

-----------------------------------------------------------------------------
(* What the lock's own steps touch of the calls.                            *)
LEMMA OneCaller ==
  ASSUME NEW c \in Cpus, TypeOK, Enter(c) \/ Step(c)
  PROVE  /\ \A d \in Cpus : d # c => calls'[d] = calls[d]
         /\ Enter(c) \/ calls[c] # <<>>
BY DEF TypeOK, Enter, Step, Compare, Exchange, Count, Uncount, Test, Clear, Goto, Return, Running

LEMMA LockKept ==
  ASSUME IInv, NEW c \in Cpus, UNCHANGED vars \/ Call(c) \/ Step(c)
  PROVE  IInv'
<1>1. CASE UNCHANGED vars
  BY <1>1 DEF vars, IInv, TypeOK, OuterInside, OwnerKnown, CountIsDepth, FreeIsZero,
              ClearIsLast, Owns, Depth, Running
<1> QED BY <1>1, CallKeeps, CompareKeeps, ExchangeKeeps, CountKeeps, UncountKeeps,
           TestKeeps, ClearKeeps DEF Step

(* Nobody is on the boot stack when the kernel goes on: from then on the    *)
(* other processors are in no call.                                         *)
LEMMA NobodyCalls ==
  ASSUME HInv, late = {}, CallersPrint, boot.at = "on"
  PROVE  \A c \in Others : calls[c] = <<>>
BY DEF HInv, OneAwaited, OnStack, CallersPrint

LEMMA BootStepMInv ==
  ASSUME MInv, BootStep
  PROVE  MInv'
<1>1. HInv' /\ (late' = {} => late = {}) /\ UNCHANGED <<vars, console>>
  BY BootStepKeeps DEF MInv
<1>2. UNCHANGED vars /\ struck' = struck
  BY <1>1 DEF console
<1>3. ~struck => IInv'
  BY <1>2, LockKept, BootId DEF MInv
<1>4. late' = {} => CallersPrint'
  <2> SUFFICES ASSUME late' = {}, NEW c \in Others, calls'[c] # <<>>
               PROVE  ap'[c] = "print"
    BY DEF CallersPrint
  <2>1. late = {} /\ calls[c] # <<>>
    BY <1>1, <1>2 DEF vars
  <2>2. ap[c] = "print"
    BY <2>1 DEF MInv, CallersPrint
  <2>3. c \in OnStack /\ boot.at = "wait"
    BY <2>1, <2>2 DEF MInv, HInv, OneAwaited, OnStack
  <2>4. ap' = ap
    BY <2>3 DEF BootStep, SkipProcessor, StartProcessor, SendStartup, Started, GiveUp,
                TimesOut, UnmapLowMemory
  <2> QED BY <2>2, <2>4
<1>5. struck /\ late = {} => Alone'
  BY <1>2, AloneKeeps DEF MInv
<1> QED BY <1>1, <1>2, <1>3, <1>4, <1>5 DEF MInv

LEMMA ApStepMInv ==
  ASSUME MInv, NEW c \in Others, ApStep(c)
  PROVE  MInv'
<1>1. HInv' /\ late' = late /\ UNCHANGED <<vars, console>>
  BY ApStepKeeps DEF MInv
<1>2. UNCHANGED vars /\ struck' = struck
  BY <1>1 DEF console
<1>3. ~struck => IInv'
  BY <1>2, LockKept, BootId DEF MInv
<1>4. late' = {} => CallersPrint'
  BY <1>1, <1>2 DEF MInv, CallersPrint, HInv, StartTypes, vars, ApStep, Trampoline,
                    SetupProcessor, Release
<1>5. struck /\ late = {} => Alone'
  BY <1>2, AloneKeeps DEF MInv
<1> QED BY <1>1, <1>2, <1>3, <1>4, <1>5 DEF MInv

LEMMA ConsoleStepMInv ==
  ASSUME MInv, NEW c \in Cpus, ConsoleStep(c)
  PROVE  MInv'
<1>1. HInv' /\ UNCHANGED <<start, struck>> /\ (UNCHANGED vars \/ Call(c) \/ Step(c))
  BY ConsoleStepKeeps DEF MInv
<1>2. ~struck => IInv'
  BY <1>1, LockKept DEF MInv
<1>3. UNCHANGED vars \/ (Call(c) /\ Prints(c)) \/ Step(c)
  BY DEF ConsoleStep, OutChar, Draw, Move, Scroll, LockStep
<1>4. Call(c) => Enter(c)
  BY DEF Call
<1>5. TypeOK \/ (struck /\ late # {})
  BY DEF MInv, IInv, Alone, HInv, StartTypes
<1>6. late = {} => CallersPrint'
  <2> SUFFICES ASSUME late = {}, NEW d \in Others, calls'[d] # <<>>
               PROVE  ap'[d] = "print"
    BY DEF CallersPrint
  <2>1. CallersPrint /\ TypeOK /\ d \in Cpus /\ ap' = ap /\ d # Boot
    BY <1>1, <1>5 DEF MInv, Others, start
  <2>2. CASE UNCHANGED vars
    BY <2>1, <2>2 DEF CallersPrint, vars
  <2>3. CASE d # c /\ ~UNCHANGED vars
    BY <1>3, <1>4, <2>1, <2>3, OneCaller DEF CallersPrint
  <2>4. CASE d = c /\ Call(c) /\ Prints(c)
    BY <2>1, <2>4 DEF Prints
  <2>5. CASE d = c /\ Step(c)
    BY <2>1, <2>5 DEF CallersPrint, Step, Compare, Exchange, Count, Uncount, Test, Clear,
                      Running
  <2> QED BY <1>3, <2>2, <2>3, <2>4, <2>5
<1>7. struck /\ late = {} => Alone'
  <2> SUFFICES ASSUME struck, late = {}
               PROVE  Alone'
    OBVIOUS
  <2>1. Alone /\ boot.at = "on" /\ \A d \in Others : calls[d] = <<>>
    BY NobodyCalls DEF MInv, HInv
  <2>2. CASE UNCHANGED vars
    BY <2>1, <2>2, AloneKeeps
  <2>3. CASE c = Boot /\ ~UNCHANGED vars
    BY <1>3, <1>4, <2>1, <2>3, AloneKeeps
  <2>4. CASE c # Boot /\ ~UNCHANGED vars
    <3>1. c \in Others /\ calls[c] = <<>>
      BY <2>1, <2>4 DEF Others
    <3>2. ~Step(c)
      BY <3>1 DEF Step, Compare, Exchange, Count, Uncount, Test, Clear, Running
    <3>3. ~Prints(c)
      BY <2>1, <2>4, <3>1 DEF Prints, MInv, HInv, OneAwaited, OnStack
    <3> QED BY <1>3, <2>4, <3>2, <3>3
  <2> QED BY <2>2, <2>3, <2>4
<1> QED BY <1>1, <1>2, <1>6, <1>7 DEF MInv, start

LEMMA HandlerMInv ==
  ASSUME MInv, HandlerPrints
  PROVE  MInv'
<1>1. HInv' /\ UNCHANGED start /\ Enter(Boot) /\ boot.at = "on" /\ struck'
  BY HandlerKeeps DEF MInv
<1>2. ASSUME late = {} PROVE Alone /\ Alone'
  <2>1. \A c \in Others : calls[c] = <<>>
    BY <1>1, <1>2, NobodyCalls DEF MInv
  <2>2. Alone
    BY <1>2, <2>1, BecomesAlone DEF MInv
  <2> QED BY <1>1, <2>2, AloneKeeps
<1>3. late = {} => CallersPrint'
  BY <1>2 DEF Alone, CallersPrint
<1> QED BY <1>1, <1>2, <1>3 DEF MInv, start

LEMMA MachineInvariant ==
  Machine => []MInv
<1>1. MachineInit => MInv
  <2> SUFFICES ASSUME MachineInit PROVE MInv
    OBVIOUS
  <2>1. Init /\ struck = FALSE /\ \A c \in Others : calls[c] = <<>>
    BY DEF MachineInit, Init, Others
  <2>2. HInv
    BY HInvInit
  <2>3. IInv
    BY <2>1, IInvInit
  <2> QED BY <2>1, <2>2, <2>3 DEF MInv, CallersPrint
<1>2. MInv /\ [MachineNext]_mvars => MInv'
  <2> SUFFICES ASSUME MInv, [MachineNext]_mvars PROVE MInv'
    OBVIOUS
  <2>1. CASE UNCHANGED mvars
    <3>1. UNCHANGED vars /\ UNCHANGED start /\ struck' = struck
      BY <2>1 DEF mvars, console
    <3>2. HInv'
      BY <3>1 DEF MInv, HInv, StartTypes, OneAwaited, OnStack, start
    <3>3. ~struck => IInv'
      BY <3>1, LockKept, BootId DEF MInv
    <3>4. struck /\ late = {} => Alone'
      BY <3>1, AloneKeeps DEF MInv
    <3>5. CallersPrint' = CallersPrint /\ late' = late
      BY <3>1 DEF CallersPrint, vars, start
    <3> QED BY <3>1, <3>2, <3>3, <3>4, <3>5 DEF MInv
  <2>2. CASE MachineNext
    BY <2>2, BootStepMInv, ApStepMInv, ConsoleStepMInv, HandlerMInv DEF MachineNext
  <2> QED BY <2>1, <2>2
<1> QED BY <1>1, <1>2, PTL DEF Machine

(* The lock of the console keeps its callers apart and is left free, with   *)
(* handlers that print between any two of its steps, unless a processor was *)
(* given up that is there.                                                  *)
THEOREM ConsoleKept ==
  Machine => []ConsoleExclusive
<1>1. ASSUME Alone PROVE MutualExclusion /\ LeftFree
  <2>1. \A c \in Cpus : Inside(c) => c = Boot
    BY <1>1 DEF Alone, Inside, Others
  <2>2. ASSUME \A c \in Cpus : calls[c] = <<>> PROVE core = 0 /\ cont = 0
    <3>1. calls[Boot] = <<>> /\ Ins(<<>>) = {}
      BY <2>2, BootId DEF Ins
    <3> QED BY <1>1, <3>1, FS_EmptySet DEF Alone
  <2> QED BY <2>1, <2>2 DEF MutualExclusion, LeftFree
<1>2. MInv => ConsoleExclusive
  BY <1>1, IInvExcludes, IInvLeavesFree DEF MInv, ConsoleExclusive, HInv, StartTypes
<1> QED BY MachineInvariant, <1>2, PTL
=============================================================================
