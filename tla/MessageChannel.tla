--------------------------- MODULE MessageChannel ---------------------------
(***************************************************************************)
(* What the worker threads and the event loop expect of the response queue *)
(* (event_msgqueue.c): a first-in first-out channel.  A message is pushed  *)
(* at the end, the oldest one is taken, and `taken' lists what the loop's  *)
(* callback has been given so far, in order.                               *)
(***************************************************************************)
EXTENDS Sequences

CONSTANT Items

VARIABLES queue, taken

chanVars == <<queue, taken>>

Init == queue = <<>> /\ taken = <<>>

Push(v) == queue' = Append(queue, v) /\ UNCHANGED taken

Take ==
    /\ queue # <<>>
    /\ taken' = Append(taken, Head(queue))
    /\ queue' = Tail(queue)

Next == (\E v \in Items : Push(v)) \/ Take

Spec == Init /\ [][Next]_chanVars
=============================================================================
