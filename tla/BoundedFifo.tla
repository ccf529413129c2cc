---------------------------- MODULE BoundedFifo ----------------------------
(***************************************************************************)
(* What a BufferQueue promises its users: a first-in first-out channel of  *)
(* at most Capacity items that can be closed once.  Nothing enters a       *)
(* closed channel; what it still holds can be taken out, in order.         *)
(***************************************************************************)
EXTENDS Naturals, Sequences

CONSTANTS Data, Capacity

VARIABLES fifo, closed

vars == <<fifo, closed>>

Init ==
  /\ fifo = << >>
  /\ closed = FALSE

Push(b) ==
  /\ ~closed
  /\ Len(fifo) < Capacity
  /\ fifo' = Append(fifo, b)
  /\ UNCHANGED closed

Pop ==
  /\ fifo # << >>
  /\ fifo' = Tail(fifo)
  /\ UNCHANGED closed

Close ==
  /\ closed' = TRUE
  /\ UNCHANGED fifo

Next ==
  \/ \E b \in Data : Push(b)
  \/ Pop
  \/ Close

Spec == Init /\ [][Next]_vars
=============================================================================
