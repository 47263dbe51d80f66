--------------------------------- MODULE Fifo ---------------------------------
(***************************************************************************)
(* What a ring of requests promises: the controller gets every request     *)
(* once, in the order they were queued, and nothing else.                  *)
(***************************************************************************)
EXTENDS Integers, Sequences

CONSTANTS
  Request,      \* what is queued
  Capacity,     \* requests that may wait at a time
  Nothing       \* taken, before the first request is

VARIABLES
  queue,        \* requests that wait
  taken         \* the request taken last

vars == <<queue, taken>>

Init == queue = <<>> /\ taken = Nothing

Put(request) ==
  /\ Len(queue) < Capacity
  /\ queue' = Append(queue, request)
  /\ UNCHANGED taken

Get ==
  /\ queue # <<>>
  /\ taken' = Head(queue)
  /\ queue' = Tail(queue)

Next == Get \/ \E request \in Request : Put(request)

Spec == Init /\ [][Next]_vars
=============================================================================
