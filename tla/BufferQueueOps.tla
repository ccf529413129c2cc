--------------------------- MODULE BufferQueueOps ---------------------------
(***************************************************************************)
(* anbox::graphics::BufferQueue as a value: the fields of the class and    *)
(* what each of its _locked methods does to them between two waits.  The   *)
(* condition variables are not part of the value: an operation says        *)
(* whether it notifies (WakesPopper, WakesPusher), and the module that     *)
(* owns the threads moves the waiters.                                     *)
(***************************************************************************)
EXTENDS Integers, Sequences

CONSTANTS
  Data,      \* the values a Buffer may hold
  NoBuffer   \* a slot whose Buffer was never filled, or was moved out

ASSUME NoBufferAssumption == NoBuffer \notin Data

(* The fields capacity_, pos_, count_, closed_ and buffers_. *)
Queues(capacity) ==
  [capacity : {capacity},
   pos      : 0 .. (capacity - 1),
   count    : 0 .. capacity,
   closed   : BOOLEAN,
   buffers  : [0 .. (capacity - 1) -> Data \cup {NoBuffer}]]

NewQueue(capacity) ==
  [capacity |-> capacity,
   pos      |-> 0,
   count    |-> 0,
   closed   |-> FALSE,
   buffers  |-> [i \in 0 .. (capacity - 1) |-> NoBuffer]]

(* The ring index n places after pos_, wrapped once as the code does. *)
Slot(q, n) ==
  IF q.pos + n >= q.capacity THEN q.pos + n - q.capacity ELSE q.pos + n

IsFull(q)  == q.count = q.capacity
IsEmpty(q) == q.count = 0

\* Mutants of CanPush: without the capacity test, without the closed test.
CanPushUnbounded(q) == ~q.closed
CanPushClosed(q) == q.count < q.capacity

(* try_push_locked succeeds exactly here. *)
CanPush(q) == ~q.closed /\ q.count < q.capacity

\* Mutant of Pushed: stores at pos_ instead of pos_ + count_.
PushedAtFront(q, b) ==
  [q EXCEPT !.count = @ + 1, !.buffers = [@ EXCEPT ![q.pos] = b]]

Pushed(q, b) ==
  [capacity |-> q.capacity,
   pos      |-> q.pos,
   count    |-> q.count + 1,
   closed   |-> q.closed,
   buffers  |-> [q.buffers EXCEPT ![Slot(q, q.count)] = b]]

\* Mutant of WakesPopper: ++count_ == 0.
WakesPopperNever(q) == q.count + 1 = 0

WakesPopper(q) == q.count = 0

CanPop(q) == q.count > 0

FrontBuffer(q) == q.buffers[q.pos]

Popped(q) ==
  [capacity |-> q.capacity,
   pos      |-> Slot(q, 1),
   count    |-> q.count - 1,
   closed   |-> q.closed,
   buffers  |-> [q.buffers EXCEPT ![q.pos] = NoBuffer]]

WakesPusher(q) == q.count = q.capacity

Closed(q) == [q EXCEPT !.closed = TRUE]

(* The items in the order in which they will be popped. *)
Contents(q) == [i \in 1 .. q.count |-> q.buffers[Slot(q, i - 1)]]
=============================================================================
