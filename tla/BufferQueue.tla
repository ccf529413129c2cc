---------------------------- MODULE BufferQueue ----------------------------
(***************************************************************************)
(* A BufferQueue and the threads inside its blocking methods, all using    *)
(* one mutex as the _locked suffix asks.  A step is what a thread does     *)
(* between taking the mutex and giving it up, by returning or by waiting   *)
(* on a condition variable.                                                *)
(***************************************************************************)
EXTENDS BufferQueueOps

CONSTANTS
  Capacity,    \* the constructor's argument: 1024 and 16 in the code
  Producers,   \* threads calling push_locked
  Consumers    \* threads calling pop_locked or wait_until_not_empty_locked

ASSUME CapacityAssumption == Capacity \in Nat \ {0}
ASSUME ThreadsAssumption  == Producers \cap Consumers = {}

VARIABLES
  queue,    \* the BufferQueue object
  pc,       \* where each thread is
  item      \* the argument of each producer's push_locked

vars == <<queue, pc, item>>

Threads == Producers \cup Consumers

(***************************************************************************)
(* pc[t] = "out"      not inside the queue                                 *)
(*         "push"     in push_locked, about to take the mutex              *)
(*         "pop"      in pop_locked, about to take the mutex               *)
(*         "peek"     in wait_until_not_empty_locked, likewise             *)
(*         "waitPush" asleep in can_push_.wait                             *)
(*         "waitPop"  asleep in can_pop_.wait, called by pop_locked        *)
(*         "waitPeek" the same, called by wait_until_not_empty_locked      *)
(***************************************************************************)
ProducerPCs == {"out", "push", "waitPush"}
ConsumerPCs == {"out", "pop", "peek", "waitPop", "waitPeek"}

AsleepInPush == {t \in Producers : pc[t] = "waitPush"}
AsleepInPop  == {t \in Consumers : pc[t] \in {"waitPop", "waitPeek"}}

(* The pc of a sleeper once it is notified: back to the loop's test. *)
AwakePC(at) == CASE at = "waitPush" -> "push"
                 [] at = "waitPop"  -> "pop"
                 [] at = "waitPeek" -> "peek"
                 [] OTHER           -> at

(* p is pc after the threads of S are notified. *)
Wake(p, S) == [t \in Threads |-> IF t \in S THEN AwakePC(p[t]) ELSE p[t]]

(* notify_one: one sleeper if there is any. *)
OneOf(S) == IF S = {} THEN {{}} ELSE {{t} : t \in S}

Init ==
  /\ queue = NewQueue(Capacity)
  /\ pc = [t \in Threads |-> "out"]
  /\ item = [t \in Producers |-> NoBuffer]

----------------------------------------------------------------------------
CallPush(t, b) ==
  /\ pc[t] = "out"
  /\ pc' = [pc EXCEPT ![t] = "push"]
  /\ item' = [item EXCEPT ![t] = b]
  /\ UNCHANGED queue

PushWaits(t) ==
  /\ pc[t] = "push"
  /\ IsFull(queue) /\ ~queue.closed
  /\ pc' = [pc EXCEPT ![t] = "waitPush"]
  /\ UNCHANGED <<queue, item>>

PushFails(t) ==
  /\ pc[t] = "push"
  /\ queue.closed
  /\ pc' = [pc EXCEPT ![t] = "out"]
  /\ item' = [item EXCEPT ![t] = NoBuffer]
  /\ UNCHANGED queue

PushStores(t) ==
  /\ pc[t] = "push"
  /\ CanPush(queue)
  /\ queue' = Pushed(queue, item[t])
  /\ \E S \in (IF WakesPopper(queue) THEN OneOf(AsleepInPop) ELSE {{}}) :
       pc' = Wake([pc EXCEPT ![t] = "out"], S)
  /\ item' = [item EXCEPT ![t] = NoBuffer]

----------------------------------------------------------------------------
CallPop(t) ==
  /\ pc[t] = "out"
  /\ \E at \in {"pop", "peek"} : pc' = [pc EXCEPT ![t] = at]
  /\ UNCHANGED <<queue, item>>

PopWaits(t) ==
  /\ pc[t] \in {"pop", "peek"}
  /\ IsEmpty(queue) /\ ~queue.closed
  /\ pc' = [pc EXCEPT ![t] = IF @ = "pop" THEN "waitPop" ELSE "waitPeek"]
  /\ UNCHANGED <<queue, item>>

PopFails(t) ==
  /\ pc[t] \in {"pop", "peek"}
  /\ IsEmpty(queue) /\ queue.closed
  /\ pc' = [pc EXCEPT ![t] = "out"]
  /\ UNCHANGED <<queue, item>>

PopTakes(t) ==
  /\ pc[t] = "pop"
  /\ CanPop(queue)
  /\ queue' = Popped(queue)
  /\ \E S \in (IF WakesPusher(queue) THEN OneOf(AsleepInPush) ELSE {{}}) :
       pc' = Wake([pc EXCEPT ![t] = "out"], S)
  /\ UNCHANGED item

PeekReturns(t) ==
  /\ pc[t] = "peek"
  /\ CanPop(queue)
  /\ pc' = [pc EXCEPT ![t] = "out"]
  /\ UNCHANGED <<queue, item>>

----------------------------------------------------------------------------
(* close_locked, called with the mutex held: each notify_all is made only  *)
(* in the state in which that side can be asleep.                          *)
CloseLocked ==
  /\ queue' = Closed(queue)
  /\ pc' = Wake(pc, (IF IsFull(queue) THEN AsleepInPush ELSE {})
                    \cup (IF IsEmpty(queue) THEN AsleepInPop ELSE {}))
  /\ UNCHANGED item

(* A condition variable may wake a thread that nobody notified. *)
SpuriousWakeup(t) ==
  /\ t \in AsleepInPush \cup AsleepInPop
  /\ pc' = Wake(pc, {t})
  /\ UNCHANGED <<queue, item>>

Push(t) == PushWaits(t) \/ PushFails(t) \/ PushStores(t)
Pop(t)  == PopWaits(t) \/ PopFails(t) \/ PopTakes(t) \/ PeekReturns(t)

Next ==
  \/ \E t \in Producers : Push(t) \/ \E b \in Data : CallPush(t, b)
  \/ \E t \in Consumers : Pop(t) \/ CallPop(t)
  \/ \E t \in Threads : SpuriousWakeup(t)
  \/ CloseLocked

Spec == Init /\ [][Next]_vars

----------------------------------------------------------------------------
(* Type invariant: the fields stay in range (no slot outside the ring, no  *)
(* count above the capacity) and each thread is in a method it may call.   *)
TypeOK ==
  /\ queue \in Queues(Capacity)
  /\ pc \in [Threads -> ProducerPCs \cup ConsumerPCs]
  /\ \A t \in Producers : pc[t] \in ProducerPCs
  /\ \A t \in Consumers : pc[t] \in ConsumerPCs
  /\ item \in [Producers -> Data \cup {NoBuffer}]
  /\ \A t \in Producers : pc[t] # "out" => item[t] \in Data

(* Each of the count_ slots from pos_ on, across the wrap, holds a Buffer  *)
(* that was pushed and not yet moved out, and no other slot does.          *)
OccupiedSlotsHoldData ==
  \A i \in 0 .. (Capacity - 1) :
    queue.buffers[Slot(queue, i)] \in Data <=> i < queue.count

(* A thread sleeps only while it must.  push notifies on the step from     *)
(* empty and pop on the step from full, once; with one thread on each side *)
(* that is enough: nobody sleeps beside an item, a free slot or a closed   *)
(* queue.                                                                  *)
NoLostWakeup ==
  /\ AsleepInPop # {} => IsEmpty(queue) /\ ~queue.closed
  /\ AsleepInPush # {} => IsFull(queue) /\ ~queue.closed

(* The queue implements the closable FIFO: pushes and pops of the ring are *)
(* appends and removals at the two ends, whatever the position of pos_.    *)
Fifo == INSTANCE BoundedFifo WITH fifo   <- Contents(queue),
                                  closed <- queue.closed
ImplementsFifo == Fifo!Spec
=============================================================================
