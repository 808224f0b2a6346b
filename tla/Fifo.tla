--------------------------------- MODULE Fifo ---------------------------------
(***************************************************************************)
(* What the ring promises both its sides: rows come out in the order they  *)
(* went in, each once, and the producer is only refused when Cap rows are  *)
(* held.                                                                   *)
(***************************************************************************)
EXTENDS Naturals, Sequences

CONSTANTS Row, Cap

VARIABLES
  queue,        \* rows published and not given back
  refusals      \* rows refused

vars == <<queue, refusals>>

Init == queue = <<>> /\ refusals = 0

Put ==
  /\ Len(queue) < Cap
  /\ \E r \in Row : queue' = Append(queue, r)
  /\ UNCHANGED refusals

Refuse ==
  /\ Len(queue) = Cap
  /\ refusals' = refusals + 1
  /\ UNCHANGED queue

GiveBack ==
  /\ \E n \in 1 .. Len(queue) : queue' = SubSeq(queue, n + 1, Len(queue))
  /\ UNCHANGED refusals

Next == Put \/ Refuse \/ GiveBack

Spec == Init /\ [][Next]_vars
=============================================================================
