------------------------- MODULE BufferQueueProofs -------------------------
(***************************************************************************)
(* Theorems about BufferQueue, for every capacity, every set of data and   *)
(* every set of threads; and about BufferedIOStream, the stream of two     *)
(* such queues, for every size of its queues and buffers.                  *)
(***************************************************************************)
EXTENDS BufferQueue, BufferedIOStream, SequenceTheorems, TLAPS

(* The index computed by pos_ + n with one conditional subtraction stays   *)
(* inside the ring as long as n does not exceed the capacity.              *)
LEMMA SlotInRing ==
  ASSUME NEW C \in Nat \ {0}, NEW q \in Queues(C), NEW n \in 0 .. C
  PROVE  Slot(q, n) \in 0 .. (C - 1)
BY DEF Slot, Queues

(* Two different offsets below the capacity are two different slots.       *)
LEMMA SlotsDistinct ==
  ASSUME NEW C \in Nat \ {0}, NEW q \in Queues(C),
         NEW m \in 0 .. (C - 1), NEW n \in 0 .. (C - 1),
         Slot(q, m) = Slot(q, n)
  PROVE  m = n
BY DEF Slot, Queues

(* After a pop the slot n places from the front is the one that was n + 1  *)
(* places from it: moving pos_ shifts every offset by one.                 *)
LEMMA SlotAfterPop ==
  ASSUME NEW C \in Nat \ {0}, NEW q \in Queues(C), q.count > 0,
         NEW n \in 0 .. (C - 1)
  PROVE  /\ n + 1 < C => Slot(Popped(q), n) = Slot(q, n + 1)
         /\ n + 1 = C => Slot(Popped(q), n) = q.pos
BY DEF Slot, Queues, Popped

(* The operations keep the fields of a queue in their ranges. *)
LEMMA PushedType ==
  ASSUME NEW C \in Nat \ {0}, NEW q \in Queues(C), CanPush(q), NEW b \in Data
  PROVE  Pushed(q, b) \in Queues(C)
<1>1. q.count \in 0 .. (C - 1)
  BY DEF Queues, CanPush
<1>2. Slot(q, q.count) \in 0 .. (C - 1)
  BY <1>1, SlotInRing
<1> QED
  BY <1>1, <1>2 DEF Queues, Pushed

LEMMA PoppedType ==
  ASSUME NEW C \in Nat \ {0}, NEW q \in Queues(C), CanPop(q)
  PROVE  Popped(q) \in Queues(C)
<1>1. Slot(q, 1) \in 0 .. (C - 1)
  BY SlotInRing
<1> QED
  BY <1>1 DEF Queues, Popped, CanPop

LEMMA ClosedType ==
  ASSUME NEW C \in Nat \ {0}, NEW q \in Queues(C)
  PROVE  Closed(q) \in Queues(C)
BY DEF Queues, Closed

----------------------------------------------------------------------------
(* Notified threads go back to the test of the loop they were in, and the  *)
(* others stay where they are.                                             *)
LEMMA WakeType ==
  ASSUME NEW p \in [Threads -> ProducerPCs \cup ConsumerPCs],
         \A t \in Producers : p[t] \in ProducerPCs,
         \A t \in Consumers : p[t] \in ConsumerPCs,
         NEW S
  PROVE  /\ Wake(p, S) \in [Threads -> ProducerPCs \cup ConsumerPCs]
         /\ \A t \in Producers : Wake(p, S)[t] \in ProducerPCs
         /\ \A t \in Consumers : Wake(p, S)[t] \in ConsumerPCs
         /\ \A t \in Threads : Wake(p, S)[t] = "out" <=> p[t] = "out"
<1>1. \A t \in Threads : Wake(p, S)[t] = IF t \in S THEN AwakePC(p[t]) ELSE p[t]
  BY DEF Wake
<1>2. \A at \in ProducerPCs : AwakePC(at) \in ProducerPCs
  BY DEF ProducerPCs, AwakePC
<1>3. \A at \in ConsumerPCs : AwakePC(at) \in ConsumerPCs
  BY DEF ConsumerPCs, AwakePC
<1>4. \A at \in ProducerPCs \cup ConsumerPCs : AwakePC(at) = "out" <=> at = "out"
  BY DEF ProducerPCs, ConsumerPCs, AwakePC
<1>5. \A t \in Producers : Wake(p, S)[t] \in ProducerPCs
  BY <1>1, <1>2 DEF Threads
<1>6. \A t \in Consumers : Wake(p, S)[t] \in ConsumerPCs
  BY <1>1, <1>3 DEF Threads
<1>7. Wake(p, S) \in [Threads -> ProducerPCs \cup ConsumerPCs]
  BY <1>2, <1>3, <1>1 DEF Wake, Threads
<1> QED
  BY <1>1, <1>4, <1>5, <1>6, <1>7

(* Spec => []TypeOK: the fields of the ring stay in range, so no slot      *)
(* outside buffers_ is touched by any interleaving of pushes, pops, closes *)
(* and wakeups.                                                            *)
THEOREM TypeCorrect == Spec => []TypeOK
<1>1. Init => TypeOK
  BY CapacityAssumption
  DEF Init, TypeOK, Queues, NewQueue, Threads, ProducerPCs, ConsumerPCs
<1>2. TypeOK /\ [Next]_vars => TypeOK'
  <2> SUFFICES ASSUME TypeOK, [Next]_vars PROVE TypeOK'
    OBVIOUS
  <2> USE ThreadsAssumption
  <2>1. ASSUME NEW t \in Producers, NEW b \in Data, CallPush(t, b) PROVE TypeOK'
    BY <2>1 DEF TypeOK, CallPush, Threads, ProducerPCs, ConsumerPCs
  <2>2. ASSUME NEW t \in Producers, PushWaits(t) PROVE TypeOK'
    BY <2>2 DEF TypeOK, PushWaits, Threads, ProducerPCs, ConsumerPCs
  <2>3. ASSUME NEW t \in Producers, PushFails(t) PROVE TypeOK'
    BY <2>3 DEF TypeOK, PushFails, Threads, ProducerPCs, ConsumerPCs
  <2>4. ASSUME NEW t \in Producers, PushStores(t) PROVE TypeOK'
    <3>1. PICK S : pc' = Wake([pc EXCEPT ![t] = "out"], S)
      BY <2>4 DEF PushStores
    <3>2. queue' \in Queues(Capacity)
      BY <2>4, PushedType, CapacityAssumption DEF PushStores, TypeOK
    <3> DEFINE p == [pc EXCEPT ![t] = "out"]
    <3>3. /\ p \in [Threads -> ProducerPCs \cup ConsumerPCs]
          /\ \A u \in Producers : p[u] \in ProducerPCs
          /\ \A u \in Consumers : p[u] \in ConsumerPCs
          /\ \A u \in Threads : p[u] = IF u = t THEN "out" ELSE pc[u]
      BY DEF TypeOK, Threads, ProducerPCs, ConsumerPCs
    <3> HIDE DEF p
    <3>4. /\ pc' \in [Threads -> ProducerPCs \cup ConsumerPCs]
          /\ \A u \in Producers : pc'[u] \in ProducerPCs
          /\ \A u \in Consumers : pc'[u] \in ConsumerPCs
          /\ \A u \in Threads : pc'[u] = "out" <=> p[u] = "out"
      BY <3>1, <3>3, WakeType DEF p
    <3>5. /\ item' \in [Producers -> Data \cup {NoBuffer}]
          /\ \A u \in Producers : pc'[u] # "out" => item'[u] \in Data
      BY <2>4, <3>3, <3>4 DEF PushStores, TypeOK, Threads
    <3> QED
      BY <3>2, <3>4, <3>5 DEF TypeOK
  <2>5. ASSUME NEW t \in Consumers, CallPop(t) PROVE TypeOK'
    BY <2>5 DEF TypeOK, CallPop, Threads, ProducerPCs, ConsumerPCs
  <2>6. ASSUME NEW t \in Consumers, PopWaits(t) PROVE TypeOK'
    BY <2>6 DEF TypeOK, PopWaits, Threads, ProducerPCs, ConsumerPCs
  <2>7. ASSUME NEW t \in Consumers, PopFails(t) PROVE TypeOK'
    BY <2>7 DEF TypeOK, PopFails, Threads, ProducerPCs, ConsumerPCs
  <2>8. ASSUME NEW t \in Consumers, PeekReturns(t) PROVE TypeOK'
    BY <2>8 DEF TypeOK, PeekReturns, Threads, ProducerPCs, ConsumerPCs
  <2>9. ASSUME NEW t \in Consumers, PopTakes(t) PROVE TypeOK'
    <3>1. PICK S : pc' = Wake([pc EXCEPT ![t] = "out"], S)
      BY <2>9 DEF PopTakes
    <3>2. queue' \in Queues(Capacity)
      BY <2>9, PoppedType, CapacityAssumption DEF PopTakes, TypeOK
    <3> DEFINE p == [pc EXCEPT ![t] = "out"]
    <3>3. /\ p \in [Threads -> ProducerPCs \cup ConsumerPCs]
          /\ \A u \in Producers : p[u] \in ProducerPCs
          /\ \A u \in Consumers : p[u] \in ConsumerPCs
          /\ \A u \in Producers : p[u] = pc[u]
      BY DEF TypeOK, Threads, ProducerPCs, ConsumerPCs
    <3> HIDE DEF p
    <3>4. /\ pc' \in [Threads -> ProducerPCs \cup ConsumerPCs]
          /\ \A u \in Producers : pc'[u] \in ProducerPCs
          /\ \A u \in Consumers : pc'[u] \in ConsumerPCs
          /\ \A u \in Threads : pc'[u] = "out" <=> p[u] = "out"
      BY <3>1, <3>3, WakeType DEF p
    <3> QED
      BY <2>9, <3>2, <3>3, <3>4 DEF PopTakes, TypeOK, Threads
  <2>10. ASSUME CloseLocked PROVE TypeOK'
    <3>1. PICK S : pc' = Wake(pc, S)
      BY <2>10 DEF CloseLocked
    <3>2. queue' \in Queues(Capacity)
      BY <2>10, ClosedType, CapacityAssumption DEF CloseLocked, TypeOK
    <3>3. /\ pc' \in [Threads -> ProducerPCs \cup ConsumerPCs]
          /\ \A u \in Producers : pc'[u] \in ProducerPCs
          /\ \A u \in Consumers : pc'[u] \in ConsumerPCs
          /\ \A u \in Threads : pc'[u] = "out" <=> pc[u] = "out"
      BY <3>1, WakeType DEF TypeOK
    <3> QED
      BY <2>10, <3>2, <3>3 DEF CloseLocked, TypeOK, Threads
  <2>11. ASSUME NEW t \in Threads, SpuriousWakeup(t) PROVE TypeOK'
    <3>1. /\ pc' \in [Threads -> ProducerPCs \cup ConsumerPCs]
          /\ \A u \in Producers : pc'[u] \in ProducerPCs
          /\ \A u \in Consumers : pc'[u] \in ConsumerPCs
          /\ \A u \in Threads : pc'[u] = "out" <=> pc[u] = "out"
      BY <2>11, WakeType DEF SpuriousWakeup, TypeOK
    <3> QED
      BY <2>11, <3>1 DEF SpuriousWakeup, TypeOK, Threads
  <2>12. CASE UNCHANGED vars
    BY <2>12 DEF TypeOK, vars
  <2> QED
    BY <2>1, <2>2, <2>3, <2>4, <2>5, <2>6, <2>7, <2>8, <2>9, <2>10, <2>11, <2>12
    DEF Next, Push, Pop
<1> QED
  BY <1>1, <1>2, PTL DEF Spec

----------------------------------------------------------------------------
(* A push fills exactly the first free slot, and a pop frees exactly the   *)
(* front one, wherever pos_ stands.                                        *)
LEMMA PushedSlots ==
  ASSUME NEW C \in Nat \ {0}, NEW q \in Queues(C), CanPush(q), NEW b \in Data,
         NEW i \in 0 .. (C - 1)
  PROVE  Pushed(q, b).buffers[Slot(Pushed(q, b), i)]
           = IF i = q.count THEN b ELSE q.buffers[Slot(q, i)]
<1>1. Slot(Pushed(q, b), i) = Slot(q, i)
  BY DEF Slot, Pushed
<1>2. q.count \in 0 .. (C - 1)
  BY DEF Queues, CanPush
<1>3. Slot(q, i) \in 0 .. (C - 1)
  BY SlotInRing
<1>4. i # q.count => Slot(q, i) # Slot(q, q.count)
  BY <1>2, SlotsDistinct
<1> QED
  BY <1>1, <1>3, <1>4 DEF Pushed, Queues

LEMMA PoppedSlots ==
  ASSUME NEW C \in Nat \ {0}, NEW q \in Queues(C), CanPop(q), NEW i \in 0 .. (C - 1)
  PROVE  Popped(q).buffers[Slot(Popped(q), i)]
           = IF i + 1 < C THEN q.buffers[Slot(q, i + 1)] ELSE NoBuffer
<1>1. CASE i + 1 < C
  <2>1. Slot(Popped(q), i) = Slot(q, i + 1)
    BY <1>1, SlotAfterPop DEF CanPop
  <2>2. /\ Slot(q, i + 1) \in 0 .. (C - 1)
        /\ Slot(q, i + 1) # q.pos
    BY <1>1 DEF Slot, Queues
  <2> QED
    BY <1>1, <2>1, <2>2 DEF Popped, Queues
<1>2. CASE i + 1 = C
  <2>1. Slot(Popped(q), i) = q.pos
    BY <1>2, SlotAfterPop DEF CanPop
  <2> QED
    BY <1>2, <2>1 DEF Popped, Queues
<1> QED
  BY <1>1, <1>2

(* Spec => []OccupiedSlotsHoldData: what try_pop_locked moves out is       *)
(* always a Buffer that was pushed, never a moved-from or unused slot.     *)
THEOREM SlotsCorrect == Spec => []OccupiedSlotsHoldData
<1>1. Init => OccupiedSlotsHoldData
  BY CapacityAssumption, NoBufferAssumption
  DEF Init, OccupiedSlotsHoldData, NewQueue, Slot
<1>2. TypeOK /\ OccupiedSlotsHoldData /\ [Next]_vars => OccupiedSlotsHoldData'
  <2> SUFFICES ASSUME TypeOK, OccupiedSlotsHoldData, [Next]_vars
               PROVE  OccupiedSlotsHoldData'
    OBVIOUS
  <2>0. queue \in Queues(Capacity)
    BY DEF TypeOK
  <2>1. ASSUME NEW t \in Producers, PushStores(t) PROVE OccupiedSlotsHoldData'
    <3>1. item[t] \in Data /\ CanPush(queue) /\ queue' = Pushed(queue, item[t])
      BY <2>1 DEF PushStores, TypeOK
    <3> SUFFICES ASSUME NEW i \in 0 .. (Capacity - 1)
                 PROVE  queue'.buffers[Slot(queue', i)] \in Data
                          <=> i < queue'.count
      BY DEF OccupiedSlotsHoldData
    <3>2. queue'.buffers[Slot(queue', i)]
            = IF i = queue.count THEN item[t] ELSE queue.buffers[Slot(queue, i)]
      BY <2>0, <3>1, PushedSlots, CapacityAssumption
    <3>3. queue'.count = queue.count + 1
      BY <3>1 DEF Pushed
    <3>4. queue.count \in 0 .. Capacity
      BY <2>0 DEF Queues
    <3>5. queue.buffers[Slot(queue, i)] \in Data <=> i < queue.count
      BY DEF OccupiedSlotsHoldData
    <3> QED
      BY <3>1, <3>2, <3>3, <3>4, <3>5, CapacityAssumption
  <2>2. ASSUME NEW t \in Consumers, PopTakes(t) PROVE OccupiedSlotsHoldData'
    <3>1. CanPop(queue) /\ queue' = Popped(queue)
      BY <2>2 DEF PopTakes
    <3> SUFFICES ASSUME NEW i \in 0 .. (Capacity - 1)
                 PROVE  queue'.buffers[Slot(queue', i)] \in Data
                          <=> i < queue'.count
      BY DEF OccupiedSlotsHoldData
    <3>2. queue'.buffers[Slot(queue', i)]
            = IF i + 1 < Capacity THEN queue.buffers[Slot(queue, i + 1)]
                                  ELSE NoBuffer
      BY <2>0, <3>1, PoppedSlots, CapacityAssumption
    <3>3. queue'.count = queue.count - 1
      BY <3>1 DEF Popped
    <3>4. queue.count \in 0 .. Capacity
      BY <2>0 DEF Queues
    <3>5. i + 1 < Capacity =>
            (queue.buffers[Slot(queue, i + 1)] \in Data <=> i + 1 < queue.count)
      BY CapacityAssumption DEF OccupiedSlotsHoldData
    <3> QED
      BY <3>2, <3>3, <3>4, <3>5, CapacityAssumption, NoBufferAssumption
  <2>3. ASSUME CloseLocked PROVE OccupiedSlotsHoldData'
    <3>1. /\ queue'.capacity = queue.capacity /\ queue'.pos = queue.pos
          /\ queue'.count = queue.count /\ queue'.buffers = queue.buffers
      BY <2>0, <2>3 DEF CloseLocked, Closed, Queues
    <3> QED
      BY <3>1 DEF OccupiedSlotsHoldData, Slot
  <2>4. ASSUME UNCHANGED queue PROVE OccupiedSlotsHoldData'
    BY <2>4 DEF OccupiedSlotsHoldData
  <2> QED
    BY <2>1, <2>2, <2>3, <2>4
    DEF Next, vars, Push, Pop, CallPush, PushWaits, PushFails, CallPop, PopWaits,
        PopFails, PeekReturns, SpuriousWakeup
<1> QED
  BY <1>1, <1>2, TypeCorrect, PTL DEF Spec

----------------------------------------------------------------------------
(* Waking the threads of S leaves asleep those that were and are not in S. *)
LEMMA WakeAsleep ==
  ASSUME NEW p \in [Threads -> ProducerPCs \cup ConsumerPCs], NEW S,
         NEW t \in Threads
  PROVE  /\ Wake(p, S)[t] = "waitPush" <=> p[t] = "waitPush" /\ t \notin S
         /\ Wake(p, S)[t] \in {"waitPop", "waitPeek"}
              <=> p[t] \in {"waitPop", "waitPeek"} /\ t \notin S
<1>1. Wake(p, S)[t] = IF t \in S THEN AwakePC(p[t]) ELSE p[t]
  BY DEF Wake
<1>2. p[t] \in ProducerPCs \cup ConsumerPCs
  OBVIOUS
<1>3. \A at \in ProducerPCs \cup ConsumerPCs :
        AwakePC(at) \notin {"waitPush", "waitPop", "waitPeek"}
  BY DEF ProducerPCs, ConsumerPCs, AwakePC
<1> QED
  BY <1>1, <1>2, <1>3

(* With one thread on each side, Spec => []NoLostWakeup: notify_one on the *)
(* steps from empty and from full, and notify_all on close only when the   *)
(* queue is full or empty, never leave a thread asleep that could go on.   *)
THEOREM NoWakeupLost ==
  ASSUME \A t, u \in Producers : t = u,
         \A t, u \in Consumers : t = u
  PROVE  Spec => []NoLostWakeup
<1>1. Init => NoLostWakeup
  BY DEF Init, NoLostWakeup, AsleepInPop, AsleepInPush, Threads
<1>2. TypeOK /\ NoLostWakeup /\ [Next]_vars => NoLostWakeup'
  <2> SUFFICES ASSUME TypeOK, NoLostWakeup, [Next]_vars PROVE NoLostWakeup'
    OBVIOUS
  <2>0. /\ queue \in Queues(Capacity)
        /\ pc \in [Threads -> ProducerPCs \cup ConsumerPCs]
        /\ queue.count \in 0 .. Capacity /\ queue.capacity = Capacity
    BY DEF TypeOK, Queues
  <2>1. ASSUME NEW t \in Producers, PushStores(t) PROVE NoLostWakeup'
    <3>1. PICK S \in (IF WakesPopper(queue) THEN OneOf(AsleepInPop) ELSE {{}}) :
            pc' = Wake([pc EXCEPT ![t] = "out"], S)
      BY <2>1 DEF PushStores
    <3> DEFINE p == [pc EXCEPT ![t] = "out"]
    <3>2. /\ p \in [Threads -> ProducerPCs \cup ConsumerPCs]
          /\ pc' = Wake(p, S)
          /\ p[t] = "out"
          /\ \A u \in Threads : u # t => p[u] = pc[u]
      BY <2>0, <3>1 DEF ProducerPCs, ConsumerPCs, Threads
    <3> HIDE DEF p
    <3>3. \A u \in Threads :
            /\ pc'[u] = "waitPush" <=> p[u] = "waitPush" /\ u \notin S
            /\ pc'[u] \in {"waitPop", "waitPeek"}
                 <=> p[u] \in {"waitPop", "waitPeek"} /\ u \notin S
      BY <3>2, WakeAsleep
    <3>4. AsleepInPush' = {}
      BY <3>2, <3>3 DEF AsleepInPush, Threads
    <3>5. AsleepInPop' = AsleepInPop \ S
      BY <3>2, <3>3, ThreadsAssumption DEF AsleepInPop, Threads
    <3>6. AsleepInPop # {} => S = AsleepInPop
      <4>1. SUFFICES ASSUME NEW c \in AsleepInPop PROVE S = AsleepInPop
        OBVIOUS
      <4>2. WakesPopper(queue)
        BY <4>1 DEF NoLostWakeup, IsEmpty, WakesPopper
      <4>3. PICK u \in AsleepInPop : S = {u}
        BY <3>1, <4>1, <4>2 DEF OneOf
      <4> QED
        BY <4>3 DEF AsleepInPop
    <3> QED
      BY <3>4, <3>5, <3>6 DEF NoLostWakeup
  <2>2. ASSUME NEW t \in Consumers, PopTakes(t) PROVE NoLostWakeup'
    <3>1. PICK S \in (IF WakesPusher(queue) THEN OneOf(AsleepInPush) ELSE {{}}) :
            pc' = Wake([pc EXCEPT ![t] = "out"], S)
      BY <2>2 DEF PopTakes
    <3> DEFINE p == [pc EXCEPT ![t] = "out"]
    <3>2. /\ p \in [Threads -> ProducerPCs \cup ConsumerPCs]
          /\ pc' = Wake(p, S)
          /\ p[t] = "out"
          /\ \A u \in Threads : u # t => p[u] = pc[u]
      BY <2>0, <3>1 DEF ProducerPCs, ConsumerPCs, Threads
    <3> HIDE DEF p
    <3>3. \A u \in Threads :
            /\ pc'[u] = "waitPush" <=> p[u] = "waitPush" /\ u \notin S
            /\ pc'[u] \in {"waitPop", "waitPeek"}
                 <=> p[u] \in {"waitPop", "waitPeek"} /\ u \notin S
      BY <3>2, WakeAsleep
    <3>4. AsleepInPop' = {}
      BY <3>2, <3>3 DEF AsleepInPop, Threads
    <3>5. AsleepInPush' = AsleepInPush \ S
      BY <3>2, <3>3, ThreadsAssumption DEF AsleepInPush, Threads
    <3>6. AsleepInPush # {} => S = AsleepInPush
      <4>1. SUFFICES ASSUME NEW c \in AsleepInPush PROVE S = AsleepInPush
        OBVIOUS
      <4>2. WakesPusher(queue)
        BY <4>1 DEF NoLostWakeup, IsFull, WakesPusher
      <4>3. PICK u \in AsleepInPush : S = {u}
        BY <3>1, <4>1, <4>2 DEF OneOf
      <4> QED
        BY <4>3 DEF AsleepInPush
    <3> QED
      BY <3>4, <3>5, <3>6 DEF NoLostWakeup
  <2>3. ASSUME CloseLocked PROVE NoLostWakeup'
    <3> DEFINE S == (IF IsFull(queue) THEN AsleepInPush ELSE {})
                      \cup (IF IsEmpty(queue) THEN AsleepInPop ELSE {})
    <3>1. pc' = Wake(pc, S)
      BY <2>3 DEF CloseLocked
    <3>2. AsleepInPush \subseteq S /\ AsleepInPop \subseteq S
      BY DEF NoLostWakeup
    <3> HIDE DEF S
    <3>3. AsleepInPush' = {} /\ AsleepInPop' = {}
      BY <2>0, <3>1, <3>2, WakeAsleep DEF AsleepInPush, AsleepInPop, Threads
    <3> QED
      BY <3>3 DEF NoLostWakeup
  <2>4. ASSUME NEW t \in Threads, SpuriousWakeup(t) PROVE NoLostWakeup'
    <3>1. AsleepInPush' \subseteq AsleepInPush /\ AsleepInPop' \subseteq AsleepInPop
      BY <2>0, <2>4, WakeAsleep DEF SpuriousWakeup, AsleepInPush, AsleepInPop, Threads
    <3> QED
      BY <2>4, <3>1 DEF SpuriousWakeup, NoLostWakeup
  <2>5. ASSUME NEW t \in Producers, PushWaits(t) PROVE NoLostWakeup'
    <3>1. AsleepInPop' = AsleepInPop
      BY <2>0, <2>5, ThreadsAssumption DEF PushWaits, AsleepInPop, Threads
    <3> QED
      BY <2>5, <3>1 DEF PushWaits, NoLostWakeup
  <2>6. ASSUME NEW t \in Consumers, PopWaits(t) PROVE NoLostWakeup'
    <3>1. AsleepInPush' = AsleepInPush
      BY <2>0, <2>6, ThreadsAssumption DEF PopWaits, AsleepInPush, Threads
    <3> QED
      BY <2>6, <3>1 DEF PopWaits, NoLostWakeup
  <2>7. ASSUME UNCHANGED queue, NEW t \in Threads,
               NEW at \in {"out", "push", "pop", "peek"},
               pc' = [pc EXCEPT ![t] = at]
        PROVE  NoLostWakeup'
    <3>1. AsleepInPush' \subseteq AsleepInPush /\ AsleepInPop' \subseteq AsleepInPop
      BY <2>0, <2>7 DEF AsleepInPush, AsleepInPop, Threads
    <3> QED
      BY <2>7, <3>1 DEF NoLostWakeup
  <2>8. ASSUME UNCHANGED vars PROVE NoLostWakeup'
    BY <2>8 DEF NoLostWakeup, AsleepInPush, AsleepInPop, vars
  <2>9. ASSUME NEW t \in Producers, NEW b \in Data, CallPush(t, b)
        PROVE  NoLostWakeup'
    BY <2>7, <2>9 DEF CallPush, Threads
  <2>10. ASSUME NEW t \in Producers, PushFails(t) PROVE NoLostWakeup'
    BY <2>7, <2>10 DEF PushFails, Threads
  <2>11. ASSUME NEW t \in Consumers, CallPop(t) \/ PopFails(t) \/ PeekReturns(t)
         PROVE  NoLostWakeup'
    BY <2>7, <2>11 DEF CallPop, PopFails, PeekReturns, Threads
  <2> QED
    BY <2>1, <2>2, <2>3, <2>4, <2>5, <2>6, <2>8, <2>9, <2>10, <2>11
    DEF Next, Push, Pop
<1> QED
  BY <1>1, <1>2, TypeCorrect, PTL DEF Spec

----------------------------------------------------------------------------
(* On the contents, a push is an append and a pop is a tail. *)
LEMMA PushedContents ==
  ASSUME NEW C \in Nat \ {0}, NEW q \in Queues(C), CanPush(q), NEW b \in Data
  PROVE  Contents(Pushed(q, b)) = Append(Contents(q), b)
<1> DEFINE r == Pushed(q, b)
<1>1. q.count \in 0 .. (C - 1) /\ r.count = q.count + 1
  BY DEF Queues, CanPush, Pushed
<1>2. \A i \in 1 .. (q.count + 1) :
        r.buffers[Slot(r, i - 1)]
          = IF i = q.count + 1 THEN b ELSE q.buffers[Slot(q, i - 1)]
  <2> SUFFICES ASSUME NEW i \in 1 .. (q.count + 1)
               PROVE  r.buffers[Slot(r, i - 1)]
                        = IF i = q.count + 1 THEN b ELSE q.buffers[Slot(q, i - 1)]
    OBVIOUS
  <2>1. i - 1 \in 0 .. (C - 1) /\ (i - 1 = q.count <=> i = q.count + 1)
    BY <1>1
  <2> QED
    BY <2>1, PushedSlots
<1> HIDE DEF r
<1>3. Contents(r) = [i \in 1 .. (q.count + 1) |-> r.buffers[Slot(r, i - 1)]]
  BY <1>1 DEF Contents
<1>4. Contents(r) = [i \in 1 .. (q.count + 1) |->
                       IF i = q.count + 1 THEN b ELSE q.buffers[Slot(q, i - 1)]]
  BY <1>2, <1>3
<1>5. Append(Contents(q), b)
        = [i \in 1 .. (q.count + 1) |->
             IF i = q.count + 1 THEN b ELSE q.buffers[Slot(q, i - 1)]]
  BY <1>1 DEF Contents
<1> QED
  BY <1>4, <1>5 DEF r

LEMMA PoppedContents ==
  ASSUME NEW C \in Nat \ {0}, NEW q \in Queues(C), CanPop(q)
  PROVE  /\ Contents(q) # << >>
         /\ Contents(Popped(q)) = Tail(Contents(q))
<1> DEFINE r == Popped(q)
<1>1. q.count \in 1 .. C /\ r.count = q.count - 1
  BY DEF Queues, CanPop, Popped
<1>2. \A i \in 1 .. (q.count - 1) :
        r.buffers[Slot(r, i - 1)] = q.buffers[Slot(q, i)]
  <2> SUFFICES ASSUME NEW i \in 1 .. (q.count - 1)
               PROVE  r.buffers[Slot(r, i - 1)] = q.buffers[Slot(q, i)]
    OBVIOUS
  <2>1. i - 1 \in 0 .. (C - 1) /\ (i - 1) + 1 < C /\ (i - 1) + 1 = i
    BY <1>1
  <2> QED
    BY <2>1, PoppedSlots
<1> HIDE DEF r
<1>3. Contents(r) = [i \in 1 .. (q.count - 1) |-> q.buffers[Slot(q, i)]]
  BY <1>1, <1>2 DEF Contents
<1>4. Tail(Contents(q)) = [i \in 1 .. (q.count - 1) |-> q.buffers[Slot(q, i)]]
  <2>1. PICK n \in Nat \ {0} : n = q.count
    BY <1>1
  <2>2. PICK f : f = Contents(q)
    OBVIOUS
  <2>3. f = [i \in 1 .. n |-> q.buffers[Slot(q, i - 1)]]
    BY <2>1, <2>2 DEF Contents
  <2>4. Len(f) = n /\ DOMAIN Tail(f) = 1 .. (n - 1)
    BY <2>3
  <2>5. Tail(f) = [i \in 1 .. (n - 1) |-> f[i + 1]]
    BY <2>3, <2>4
  <2>6. \A i \in 1 .. (n - 1) : f[i + 1] = q.buffers[Slot(q, i)]
    BY <2>3
  <2>. QED
    BY <2>1, <2>2, <2>5, <2>6
<1>5. Contents(q) # << >>
  BY <1>1 DEF Contents
<1> QED
  BY <1>3, <1>4, <1>5 DEF r

(* Spec => ImplementsFifo: under the mapping of the ring to its contents   *)
(* every step of every thread is a step of the closable FIFO or leaves it  *)
(* unchanged.                                                              *)
THEOREM Refinement == Spec => ImplementsFifo
<1>1. Init => Fifo!Init
  BY DEF Init, Fifo!Init, NewQueue, Contents
<1>2. TypeOK /\ [Next]_vars => [Fifo!Next]_(Fifo!vars)
  <2> SUFFICES ASSUME TypeOK, [Next]_vars PROVE [Fifo!Next]_(Fifo!vars)
    OBVIOUS
  <2>0. queue \in Queues(Capacity)
    BY DEF TypeOK
  <2>1. ASSUME NEW t \in Producers, PushStores(t) PROVE Fifo!Next
    <3>1. item[t] \in Data /\ CanPush(queue) /\ queue' = Pushed(queue, item[t])
      BY <2>1 DEF PushStores, TypeOK
    <3>2. Contents(queue)' = Append(Contents(queue), item[t])
      BY <2>0, <3>1, PushedContents, CapacityAssumption
    <3>3. queue'.closed = queue.closed /\ ~queue.closed
      BY <3>1 DEF Pushed, CanPush
    <3>4. Len(Contents(queue)) < Capacity
      BY <2>0, <3>1 DEF Contents, CanPush, Queues
    <3> QED
      BY <3>1, <3>2, <3>3, <3>4 DEF Fifo!Next, Fifo!Push
  <2>2. ASSUME NEW t \in Consumers, PopTakes(t) PROVE Fifo!Next
    <3>1. CanPop(queue) /\ queue' = Popped(queue)
      BY <2>2 DEF PopTakes
    <3>2. Contents(queue) # << >> /\ Contents(queue)' = Tail(Contents(queue))
      BY <2>0, <3>1, PoppedContents, CapacityAssumption
    <3>3. queue'.closed = queue.closed
      BY <3>1 DEF Popped
    <3> QED
      BY <3>2, <3>3 DEF Fifo!Next, Fifo!Pop
  <2>3. ASSUME CloseLocked PROVE Fifo!Next
    <3>1. /\ queue'.capacity = queue.capacity /\ queue'.pos = queue.pos
          /\ queue'.count = queue.count /\ queue'.buffers = queue.buffers
          /\ queue'.closed = TRUE
      BY <2>0, <2>3 DEF CloseLocked, Closed, Queues
    <3>2. Contents(queue)' = Contents(queue)
      BY <3>1 DEF Contents, Slot
    <3> QED
      BY <3>1, <3>2 DEF Fifo!Next, Fifo!Close
  <2>4. ASSUME UNCHANGED queue PROVE UNCHANGED Fifo!vars
    BY <2>4 DEF Fifo!vars, Contents
  <2> QED
    BY <2>1, <2>2, <2>3, <2>4
    DEF Next, vars, Push, Pop, CallPush, PushWaits, PushFails, CallPop, PopWaits,
        PopFails, PeekReturns, SpuriousWakeup
<1> QED
  BY <1>1, <1>2, TypeCorrect, PTL DEF Spec, ImplementsFifo, Fifo!Spec

----------------------------------------------------------------------------
(* BufferedIOStream.  First, runs of consecutive bytes and queues that     *)
(* carry them.                                                             *)

(* The byte numbers from, from + 1, ... as a sequence. *)
LEMMA BytesAreSeq ==
  ASSUME NEW from \in Nat, NEW n \in Nat
  PROVE  /\ Bytes(from, n) \in Seq(Nat) /\ Len(Bytes(from, n)) = n
         /\ \A k \in 1 .. n : Bytes(from, n)[k] = from + k - 1
<1>1. \A k \in 1 .. n : from + k - 1 \in Nat
  OBVIOUS
<1>. QED
  BY <1>1 DEF Bytes

(* A sequence of consecutive numbers is known by its first and its length. *)
LEMMA IsBytes ==
  ASSUME NEW s \in Seq(Nat), NEW from \in Nat,
         \A k \in 1 .. Len(s) : s[k] = from + k - 1
  PROVE  s = Bytes(from, Len(s))
<1>1. Len(s) \in Nat
  OBVIOUS
<1>. QED
  BY <1>1, BytesAreSeq, SeqEqual

(* Two runs that meet are one run. *)
LEMMA BytesJoin ==
  ASSUME NEW from \in Nat, NEW m \in Nat, NEW n \in Nat
  PROVE  Bytes(from, m) \o Bytes(from + m, n) = Bytes(from, m + n)
<1> DEFINE x == Bytes(from, m)
           y == Bytes(from + m, n)
<1>1. x \in Seq(Nat) /\ Len(x) = m /\ \A k \in 1 .. m : x[k] = from + k - 1
  BY BytesAreSeq
<1>2. y \in Seq(Nat) /\ Len(y) = n /\ \A k \in 1 .. n : y[k] = (from + m) + k - 1
  <2>1. from + m \in Nat
    OBVIOUS
  <2>. QED
    BY <2>1, BytesAreSeq
<1> HIDE DEF x, y
<1>3. x \o y \in Seq(Nat) /\ Len(x \o y) = m + n
  BY <1>1, <1>2, ConcatProperties
<1>4. ASSUME NEW k \in 1 .. (m + n) PROVE (x \o y)[k] = from + k - 1
  <2>1. CASE k <= m
    BY <1>1, <1>2, <2>1
  <2>2. CASE ~(k <= m)
    <3>1. k - m \in 1 .. n /\ (x \o y)[k] = y[k - m]
      BY <1>1, <1>2, <2>2, ConcatProperties
    <3>. QED
      BY <1>2, <3>1
  <2>. QED
    BY <2>1, <2>2
<1>5. x \o y = Bytes(from, m + n)
  BY <1>3, <1>4, IsBytes
<1>. QED
  BY <1>5 DEF x, y

(* A sequence is its first n members and the rest. *)
LEMMA SplitSeq ==
  ASSUME NEW s \in Seq(Nat), NEW n \in 1 .. Len(s)
  PROVE  /\ FirstBytes(s, n) \in Seq(Nat) /\ DropBytes(s, n) \in Seq(Nat)
         /\ Len(FirstBytes(s, n)) = n /\ Len(DropBytes(s, n)) = Len(s) - n
         /\ FirstBytes(s, n) \o DropBytes(s, n) = s
<1>0. Len(s) \in Nat /\ n \in Nat
  OBVIOUS
<1> DEFINE x == FirstBytes(s, n)
           y == DropBytes(s, n)
<1>1. x \in Seq(Nat) /\ Len(x) = n /\ \A k \in 1 .. n : x[k] = s[k]
  BY <1>0 DEF FirstBytes
<1>2. y \in Seq(Nat) /\ Len(y) = Len(s) - n /\ \A k \in 1 .. (Len(s) - n) : y[k] = s[n + k]
  BY <1>0 DEF DropBytes
<1> HIDE DEF x, y
<1>3. x \o y \in Seq(Nat) /\ Len(x \o y) = Len(s)
  <2>1. Len(x) + Len(y) = Len(s)
    BY <1>0, <1>1, <1>2
  <2>. QED
    BY <1>1, <1>2, <2>1, ConcatProperties
<1>4. ASSUME NEW k \in 1 .. Len(s) PROVE (x \o y)[k] = s[k]
  <2>1. CASE k <= n
    BY <1>0, <1>1, <1>2, <2>1
  <2>2. CASE ~(k <= n)
    <3>1. k - n \in 1 .. (Len(s) - n) /\ n + (k - n) = k
      BY <1>0, <2>2
    <3>2. k \in 1 .. (Len(x) + Len(y)) /\ ~(k <= Len(x)) /\ k - Len(x) = k - n
      BY <1>0, <1>1, <1>2, <2>2
    <3>3. (x \o y)[k] = y[k - n]
      BY <1>1, <1>2, <3>2, ConcatProperties
    <3>. QED
      BY <1>2, <3>1, <3>3
  <2>. QED
    BY <2>1, <2>2
<1>5. x \o y = s
  BY <1>3, <1>4, SeqEqual
<1>. QED
  BY <1>1, <1>2, <1>5 DEF x, y

(* Concatenation under a name that the provers do not interpret. *)
Cat(x, y) == x \o y

(* Concatenation of bytes is closed and associative. *)
LEMMA CatType == \A x, y \in Seq(Nat) : Cat(x, y) \in Seq(Nat)
BY ConcatProperties DEF Cat

(* The same, for three sequences. *)
LEMMA CatAssociative ==
  ASSUME NEW x \in Seq(Nat), NEW y \in Seq(Nat), NEW z \in Seq(Nat)
  PROVE  Cat(Cat(x, y), z) = Cat(x, Cat(y, z))
BY DEF Cat

(* Moving the first n bytes of r behind x or behind g leaves the whole. *)
LEMMA FirstMoves ==
  ASSUME NEW x \in Seq(Nat), NEW g \in Seq(Nat), NEW r \in Seq(Nat), NEW n \in 1 .. Len(r)
  PROVE  /\ Cat(x, FirstBytes(r, n)) \in Seq(Nat) /\ Cat(g, FirstBytes(r, n)) \in Seq(Nat)
         /\ Cat(Cat(x, FirstBytes(r, n)), DropBytes(r, n)) = Cat(x, r)
         /\ Cat(Cat(x, Cat(g, FirstBytes(r, n))), DropBytes(r, n)) = Cat(Cat(x, g), r)
<1> DEFINE f == FirstBytes(r, n)
           e == DropBytes(r, n)
<1>1. f \in Seq(Nat) /\ e \in Seq(Nat) /\ Cat(f, e) = r
  BY SplitSeq DEF Cat
<1> HIDE DEF f, e
<1>2. /\ Cat(x, f) \in Seq(Nat) /\ Cat(g, f) \in Seq(Nat) /\ Cat(x, g) \in Seq(Nat)
      /\ Cat(Cat(x, f), e) = Cat(x, Cat(f, e))
  BY <1>1, CatType, CatAssociative
<1>3. Cat(x, Cat(g, f)) = Cat(Cat(x, g), f)
  BY <1>1, CatAssociative
<1>4. Cat(Cat(Cat(x, g), f), e) = Cat(Cat(x, g), Cat(f, e))
  BY <1>1, <1>2, CatAssociative
<1>. QED
  BY <1>1, <1>2, <1>3, <1>4 DEF f, e

(* The beginning of a run of bytes is a run of bytes. *)
LEMMA BytesPrefix ==
  ASSUME NEW s \in Seq(Nat), NEW t \in Seq(Nat), s \o t = Bytes(1, Len(s \o t))
  PROVE  s = Bytes(1, Len(s)) /\ t = Bytes(Len(s) + 1, Len(t))
<1>1. Len(s) \in Nat /\ Len(t) \in Nat /\ Len(s \o t) = Len(s) + Len(t)
  OBVIOUS
<1>2. \A k \in 1 .. (Len(s) + Len(t)) : (s \o t)[k] = k
  <2>1. PICK n \in Nat : n = Len(s) + Len(t)
    BY <1>1
  <2>2. 1 \in Nat /\ \A k \in 1 .. n : Bytes(1, n)[k] = 1 + k - 1
    BY BytesAreSeq
  <2>3. s \o t = Bytes(1, n)
    BY <1>1, <2>1
  <2>. QED
    BY <2>1, <2>2, <2>3
<1>3. \A k \in 1 .. Len(s) : s[k] = k
  BY <1>1, <1>2
<1>4. \A k \in 1 .. Len(t) : t[k] = Len(s) + k
  <2>1. ASSUME NEW k \in 1 .. Len(t) PROVE t[k] = Len(s) + k
    <3>1. Len(s) + k \in 1 .. (Len(s) + Len(t)) /\ (s \o t)[Len(s) + k] = t[k]
      BY <1>1
    <3>. QED
      BY <1>2, <3>1
  <2>. QED
    BY <2>1
<1>5. \A k \in 1 .. Len(s) : s[k] = 1 + k - 1
  BY <1>1, <1>3
<1>6. \A k \in 1 .. Len(t) : t[k] = (Len(s) + 1) + k - 1
  BY <1>1, <1>4
<1>7. Len(s) + 1 \in Nat
  BY <1>1
<1>. QED
  BY <1>5, <1>6, <1>7, IsBytes

----------------------------------------------------------------------------
(* Carries, with the bounds that the Buffers of the queue stay in. *)
Chain(c, from, next) ==
  Carries(c, from, next) /\ \A i \in 1 .. (Len(c) + 1) : StartOf(c, i, next) \in 1 .. next

(* An empty queue carries nothing. *)
LEMMA EmptyChain ==
  ASSUME NEW from \in Nat \ {0}, NEW c, c = << >>
  PROVE  Chain(c, from, from)
BY DEF Chain, Carries, StartOf

(* What a queue carries begins at the latest where it ends. *)
LEMMA ChainBounds ==
  ASSUME NEW S, NEW c \in Seq(S), NEW from, NEW next \in Nat, Chain(c, from, next)
  PROVE  from \in 1 .. next /\ (c = << >> => from = next)
<1>1. 1 \in 1 .. (Len(c) + 1)
  OBVIOUS
<1>. QED
  BY <1>1 DEF Chain, Carries, StartOf

(* Pushing the next bytes. *)
LEMMA ChainPush ==
  ASSUME NEW S, NEW c \in Seq(S), NEW from, NEW next \in Nat, NEW n \in Nat \ {0},
         Chain(c, from, next), Bytes(next, n) \in S
  PROVE  Chain(Append(c, Bytes(next, n)), from, next + n)
<1> DEFINE b == Bytes(next, n)
           e == Append(c, b)
           L == Len(c)
<1>0. next \in Nat /\ L \in Nat /\ b \in S
  OBVIOUS
<1>1. b[1] = next
  <2>1. 1 \in 1 .. n /\ next + 1 - 1 = next
    BY <1>0
  <2>2. \A k \in 1 .. n : b[k] = next + k - 1
    BY <1>0, BytesAreSeq
  <2>. QED
    BY <2>1, <2>2
<1>2. Len(e) = L + 1 /\ e[L + 1] = b /\ \A i \in 1 .. L : e[i] = c[i]
  BY <1>0
<1> HIDE DEF e, L
<1>3. \A i \in 1 .. (L + 1) : StartOf(e, i, next + n) = StartOf(c, i, next)
  <2>1. ASSUME NEW i \in 1 .. (L + 1) PROVE StartOf(e, i, next + n) = StartOf(c, i, next)
    <3>1. CASE i <= L
      BY <1>0, <1>2, <3>1 DEF StartOf, L
    <3>2. CASE i = L + 1
      BY <1>0, <1>1, <1>2, <3>2 DEF StartOf, L
    <3>. QED
      BY <1>0, <2>1, <3>1, <3>2
  <2>. QED
    BY <2>1
<1>4. StartOf(e, L + 2, next + n) = next + n /\ StartOf(c, L + 1, next) = next
  BY <1>0, <1>2 DEF StartOf, L
<1>5. /\ StartOf(c, 1, next) = from
      /\ \A i \in 1 .. L : /\ StartOf(c, i, next) < StartOf(c, i + 1, next)
                           /\ c[i] = Bytes(StartOf(c, i, next),
                                           StartOf(c, i + 1, next) - StartOf(c, i, next))
      /\ \A i \in 1 .. (L + 1) : StartOf(c, i, next) \in 1 .. next
  BY DEF Chain, Carries, L
<1>6. StartOf(e, 1, next + n) = from
  BY <1>0, <1>3, <1>5
<1>7. ASSUME NEW i \in 1 .. (L + 1)
      PROVE  /\ StartOf(e, i, next + n) < StartOf(e, i + 1, next + n)
             /\ e[i] = Bytes(StartOf(e, i, next + n),
                             StartOf(e, i + 1, next + n) - StartOf(e, i, next + n))
  <2>1. CASE i <= L
    <3>1. i \in 1 .. L /\ i + 1 \in 1 .. (L + 1)
      BY <1>0, <2>1
    <3>. QED
      BY <1>2, <1>3, <1>5, <3>1
  <2>2. CASE i = L + 1
    <3>1. StartOf(e, i, next + n) = next /\ StartOf(e, i + 1, next + n) = next + n
      BY <1>0, <1>3, <1>4, <2>2
    <3>2. next < next + n /\ (next + n) - next = n
      BY <1>0
    <3>. QED
      BY <1>2, <2>2, <3>1, <3>2
  <2>. QED
    BY <1>0, <2>1, <2>2
<1>8. ASSUME NEW i \in 1 .. (L + 2) PROVE StartOf(e, i, next + n) \in 1 .. (next + n)
  <2>1. CASE i <= L + 1
    <3>1. StartOf(e, i, next + n) \in 1 .. next
      BY <1>0, <1>3, <1>5, <2>1
    <3>. QED
      BY <1>0, <3>1
  <2>2. CASE i = L + 2
    BY <1>0, <1>4, <2>2
  <2>. QED
    BY <1>0, <2>1, <2>2
<1>9. Carries(e, from, next + n)
  BY <1>2, <1>6, <1>7 DEF Carries
<1>10. \A i \in 1 .. (Len(e) + 1) : StartOf(e, i, next + n) \in 1 .. (next + n)
  <2>1. Len(e) + 1 = L + 2
    BY <1>0, <1>2
  <2>. QED
    BY <1>8, <2>1
<1>. QED
  BY <1>9, <1>10 DEF Chain, e

(* Popping the front: it holds the first bytes, and the rest goes on from  *)
(* there.                                                                  *)
LEMMA ChainPop ==
  ASSUME NEW S, NEW c \in Seq(S), NEW from, NEW next \in Nat, Chain(c, from, next),
         c # << >>
  PROVE  /\ c[1] \in Seq(Nat) /\ Len(c[1]) > 0
         /\ c[1] = Bytes(from, Len(c[1]))
         /\ Chain(Tail(c), from + Len(c[1]), next)
<1> DEFINE e == Tail(c)
           L == Len(c)
           st(i) == StartOf(c, i, next)
<1>0. L \in Nat \ {0}
  OBVIOUS
<1>1. Len(e) = L - 1 /\ \A i \in 1 .. (L - 1) : e[i] = c[i + 1]
  OBVIOUS
<1>2. /\ st(1) = from
      /\ \A i \in 1 .. L : st(i) < st(i + 1) /\ c[i] = Bytes(st(i), st(i + 1) - st(i))
      /\ \A i \in 1 .. (L + 1) : st(i) \in 1 .. next
  BY DEF Chain, Carries
<1>3. \A i \in 1 .. L : StartOf(e, i, next) = st(i + 1)
  <2>1. ASSUME NEW i \in 1 .. L PROVE StartOf(e, i, next) = st(i + 1)
    <3>1. CASE i <= L - 1
      <4>1. i \in 1 .. (L - 1) /\ i + 1 <= L
        BY <1>0, <3>1
      <4>2. e[i] = c[i + 1] /\ i <= Len(e)
        BY <1>1, <4>1
      <4>. QED
        BY <4>1, <4>2 DEF StartOf
    <3>2. CASE i = L
      BY <1>0, <1>1, <3>2 DEF StartOf
    <3>. QED
      BY <1>0, <3>1, <3>2
  <2>. QED
    BY <2>1
<1> HIDE DEF e, L, st
<1>4. 1 \in 1 .. L /\ 1 \in 1 .. (L + 1) /\ 1 + 1 \in 1 .. (L + 1)
  BY <1>0
<1>5. from \in 1 .. next /\ st(2) \in 1 .. next /\ from < st(2)
      /\ c[1] = Bytes(from, st(2) - from)
  BY <1>2, <1>4
<1>6. from \in Nat /\ st(2) - from \in Nat /\ st(2) - from > 0
  BY <1>5
<1>7. c[1] \in Seq(Nat) /\ Len(c[1]) = st(2) - from
  BY <1>5, <1>6, BytesAreSeq
<1>8. from + Len(c[1]) = st(2)
  BY <1>5, <1>7
<1>9. StartOf(e, 1, next) = from + Len(c[1])
  BY <1>3, <1>4, <1>8
<1>10. ASSUME NEW i \in 1 .. Len(e)
       PROVE  /\ StartOf(e, i, next) < StartOf(e, i + 1, next)
              /\ e[i] = Bytes(StartOf(e, i, next), StartOf(e, i + 1, next) - StartOf(e, i, next))
  <2>1. i \in 1 .. (L - 1) /\ i \in 1 .. L /\ i + 1 \in 1 .. L
    BY <1>0, <1>1
  <2>2. StartOf(e, i, next) = st(i + 1) /\ StartOf(e, i + 1, next) = st((i + 1) + 1)
        /\ e[i] = c[i + 1]
    BY <1>1, <1>3, <2>1
  <2>. QED
    BY <1>2, <2>1, <2>2
<1>11. ASSUME NEW i \in 1 .. (Len(e) + 1) PROVE StartOf(e, i, next) \in 1 .. next
  <2>1. i \in 1 .. L /\ i + 1 \in 1 .. (L + 1)
    BY <1>0, <1>1
  <2>. QED
    BY <1>2, <1>3, <2>1
<1>12. Carries(e, from + Len(c[1]), next)
  BY <1>9, <1>10 DEF Carries
<1>13. Chain(e, from + Len(c[1]), next)
  BY <1>11, <1>12 DEF Chain
<1>14. Len(c[1]) > 0 /\ c[1] = Bytes(from, Len(c[1]))
  BY <1>5, <1>6, <1>7
<1>. QED
  BY <1>7, <1>13, <1>14 DEF e

(* The contents of a queue are a sequence of Buffers, front first. *)
LEMMA ContentsSeq ==
  ASSUME NEW C \in Nat \ {0}, NEW q \in Queues(C)
  PROVE  /\ Contents(q) \in Seq(Data \cup {NoBuffer}) /\ Len(Contents(q)) = q.count
         /\ IsEmpty(q) <=> Contents(q) = << >>
         /\ CanPop(q) => Contents(q)[1] = FrontBuffer(q)
<1>1. q.count \in 0 .. C /\ q.pos \in 0 .. (C - 1) /\ q.capacity = C
      /\ q.buffers \in [0 .. (C - 1) -> Data \cup {NoBuffer}]
  BY DEF Queues
<1>2. ASSUME NEW i \in 1 .. q.count PROVE q.buffers[Slot(q, i - 1)] \in Data \cup {NoBuffer}
  <2>1. i - 1 \in 0 .. C
    BY <1>1
  <2>2. Slot(q, i - 1) \in 0 .. (C - 1)
    BY <2>1, SlotInRing
  <2>. QED
    BY <1>1, <2>2
<1>3. q.count \in Nat
  BY <1>1
<1>4. Contents(q) \in Seq(Data \cup {NoBuffer}) /\ Len(Contents(q)) = q.count
  BY <1>2, <1>3 DEF Contents
<1>5. IsEmpty(q) <=> Contents(q) = << >>
  BY <1>3, <1>4 DEF IsEmpty
<1>6. CanPop(q) => Contents(q)[1] = FrontBuffer(q)
  <2>1. Slot(q, 1 - 1) = q.pos
    BY <1>1 DEF Slot
  <2>. QED
    BY <1>3, <2>1 DEF CanPop, Contents, FrontBuffer
<1>. QED
  BY <1>4, <1>5, <1>6

----------------------------------------------------------------------------
(* The places of conn with a Buffer to post, and of render with a reply to *)
(* push.                                                                   *)
Posting == {"post", "postAsleep"}
Committing == {"commit", "pushTest", "pushWait", "pushAsleep"}

(* The half of the stream from the guest to the decoders: conn has a       *)
(* Buffer in hand exactly while it posts it, read() has copied bytes only  *)
(* inside its loop.  in_queue_ is closed by the thread that posts, after   *)
(* its last post, and the render thread leaves when nothing is left in it. *)
InType ==
  /\ inQueue \in Queues(InCapacity) /\ bufSize \in Nat
  /\ chunk \in Seq(Nat) /\ nextIn \in 1 .. (MaxIn + 1)
  /\ decoded \in Seq(Nat) /\ valid \in Seq(Nat) /\ got \in Seq(Nat) /\ readLeft \in Seq(Nat)
ChunkInHand ==
  /\ IF connPC \in Posting THEN chunk # << >> /\ chunk \in Data ELSE chunk = << >>
  /\ got # << >> => renderPC = "reading"
StopSoFar ==
  /\ inQueue.closed => connPC \notin {"receive"} \cup Posting
  /\ renderPC = "done" => inQueue.closed /\ IsEmpty(inQueue) /\ readLeft = << >>
InChain ==
  /\ Taken = Bytes(1, Len(Taken))
  /\ Chain(Contents(inQueue), Len(Taken) + 1, nextIn - Len(chunk))
  /\ chunk = Bytes(nextIn - Len(chunk), Len(chunk)) /\ Len(chunk) < nextIn
InInv == InType /\ ChunkInHand /\ StopSoFar /\ InChain

(* The other half: a closed out_queue_ carries the replies up to some      *)
(* point, an open one all of them.  Once a send has failed for good the    *)
(* worker drops what it pops.                                              *)
OutType ==
  /\ outQueue \in Queues(OutCapacity) /\ reply \in Seq(Nat) /\ nextOut \in 1 .. (MaxOut + 1)
  /\ delivered \in Seq(Nat)
ReplyInHand ==
  /\ IF renderPC \in Committing THEN reply # << >> /\ reply \in Data ELSE reply = << >>
  /\ sending # << >> => workerPC = "send"
OutOpen ==
  /\ sending \in Seq(Nat) /\ Sent = Bytes(1, Len(Sent))
  /\ \E m \in 1 .. (nextOut - Len(reply)) :
       /\ Chain(Contents(outQueue), Len(Sent) + 1, m)
       /\ ~outQueue.closed => m = nextOut - Len(reply)
OutChain ==
  /\ delivered = Bytes(1, Len(delivered)) /\ Len(delivered) < nextOut
  /\ reply = Bytes(nextOut - Len(reply), Len(reply)) /\ Len(reply) < nextOut
  /\ socket = "open" => OutOpen
OutInv == OutType /\ ReplyInHand /\ OutChain

----------------------------------------------------------------------------
(* The constants of the stream are positive. *)
LEMMA StreamConstants ==
  /\ InCapacity \in Nat \ {0} /\ OutCapacity \in Nat \ {0} /\ StreamBuffer \in Nat \ {0}
  /\ MaxChunk \in Nat \ {0} /\ MaxIn \in Nat \ {0} /\ MaxOut \in Nat \ {0}
BY StreamAssumption

(* The empty run of bytes. *)
LEMMA NoBytes == \A i : Bytes(i, 0) = << >>
BY DEF Bytes

(* What the render thread has taken, and how much it is. *)
LEMMA TakenType ==
  ASSUME InType
  PROVE  /\ Taken \in Seq(Nat) /\ Len(Taken) \in Nat
         /\ Len(Taken) = Len(decoded) + Len(valid) + Len(got) + Len(readLeft)
<1>1. decoded \o valid \in Seq(Nat) /\ Len(decoded \o valid) = Len(decoded) + Len(valid)
  BY DEF InType
<1>2. decoded \o valid \o got \in Seq(Nat)
      /\ Len(decoded \o valid \o got) = Len(decoded) + Len(valid) + Len(got)
  BY <1>1 DEF InType
<1>. QED
  BY <1>1, <1>2 DEF InType, Taken

(* Nothing is received yet. *)
LEMMA InitIn == StreamInit => InInv
<1> SUFFICES ASSUME StreamInit PROVE InInv
  OBVIOUS
<1>0. << >> \in Seq(Nat) /\ Len(<< >>) = 0
  OBVIOUS
<1>1. inQueue \in Queues(InCapacity) /\ ~inQueue.closed /\ Contents(inQueue) = << >>
  BY StreamConstants DEF StreamInit, NewQueue, Queues, Contents
<1>2. InType
  BY <1>0, <1>1, StreamConstants DEF StreamInit, InType
<1>3. ChunkInHand /\ StopSoFar
  BY <1>1 DEF StreamInit, ChunkInHand, StopSoFar, Posting
<1>4. Taken = << >>
  BY DEF StreamInit, Taken
<1>5. nextIn - Len(chunk) = 1 /\ Len(Taken) + 1 = 1 /\ chunk = << >> /\ Len(chunk) < nextIn
  BY <1>0, <1>4 DEF StreamInit
<1>6. Chain(Contents(inQueue), 1, 1)
  BY <1>1, EmptyChain
<1>7. InChain
  BY <1>0, <1>4, <1>5, <1>6, NoBytes DEF InChain
<1>. QED
  BY <1>2, <1>3, <1>7 DEF InInv

(* A step that moves no byte on this half. *)
LEMMA InFrame ==
  ASSUME InInv, UNCHANGED <<inQueue, chunk, nextIn, decoded, valid, got, readLeft>>,
         bufSize' \in Nat,
         connPC' \in Posting <=> connPC \in Posting,
         connPC' = "receive" => connPC = "receive",
         got # << >> => renderPC' = "reading",
         renderPC' = "done" => renderPC = "done"
  PROVE  InInv'
<1>1. InType'
  BY DEF InInv, InType
<1>2. ChunkInHand'
  BY DEF InInv, ChunkInHand
<1>3. StopSoFar'
  BY DEF InInv, StopSoFar
<1>4. Taken' = Taken
  BY DEF Taken
<1>5. InChain'
  BY <1>4 DEF InInv, InChain
<1>. QED
  BY <1>1, <1>2, <1>3, <1>5 DEF InInv

(* The next Buffer of the guest takes the next numbers. *)
LEMMA ConnReceivesIn ==
  ASSUME InInv, ConnReceives
  PROVE  InInv'
<1>0. InType /\ ChunkInHand /\ StopSoFar /\ InChain
  BY DEF InInv
<1>1. PICK n \in 1 .. MaxChunk : nextIn + n <= MaxIn + 1 /\ chunk' = Bytes(nextIn, n)
                                 /\ nextIn' = nextIn + n
  BY DEF ConnReceives
<1>2. /\ connPC = "receive" /\ connPC' = "post"
      /\ UNCHANGED <<inQueue, decoded, valid, got, readLeft, bufSize, renderPC>>
  BY DEF ConnReceives, readVars
<1>3. nextIn \in 1 .. (MaxIn + 1) /\ nextIn \in Nat /\ n \in Nat /\ n > 0 /\ MaxIn \in Nat
  BY <1>0, StreamConstants DEF InType
<1>4. chunk = << >> /\ Len(chunk) = 0
  BY <1>0, <1>2 DEF ChunkInHand, Posting
<1>5. chunk' \in Seq(Nat) /\ Len(chunk') = n
  BY <1>1, <1>3, BytesAreSeq
<1>6. chunk' \in Data
  <2>1. nextIn \in 1 .. MaxIn
    BY <1>1, <1>3
  <2>. QED
    BY <1>1, <2>1, BufferAssumption
<1>7. nextIn' \in 1 .. (MaxIn + 1)
  BY <1>1, <1>3
<1>8. InType'
  BY <1>0, <1>2, <1>5, <1>7 DEF InType
<1>9. ChunkInHand'
  <2>1. chunk' # << >>
    BY <1>3, <1>5
  <2>2. connPC' \in Posting
    BY <1>2 DEF Posting
  <2>. QED
    BY <1>0, <1>2, <1>6, <2>1, <2>2 DEF ChunkInHand
<1>10. StopSoFar'
  BY <1>0, <1>2 DEF StopSoFar
<1>11. nextIn' - Len(chunk') = nextIn /\ nextIn - Len(chunk) = nextIn /\ Len(chunk') < nextIn'
  BY <1>1, <1>3, <1>4, <1>5
<1>12. Taken' = Taken
  BY <1>2 DEF Taken
<1>13. InChain'
  <2>1. Taken = Bytes(1, Len(Taken)) /\ Chain(Contents(inQueue), Len(Taken) + 1, nextIn)
    BY <1>0, <1>11 DEF InChain
  <2>. QED
    BY <1>1, <1>2, <1>5, <1>11, <1>12, <2>1 DEF InChain
<1>. QED
  BY <1>8, <1>9, <1>10, <1>13 DEF InInv

(* post_data appends the Buffer to what in_queue_ carries. *)
LEMMA ConnPostsIn ==
  ASSUME InInv, ConnPosts
  PROVE  InInv'
<1>0. InType /\ ChunkInHand /\ StopSoFar /\ InChain
  BY DEF InInv
<1>1. /\ connPC = "post" /\ connPC' = "receive" /\ CanPush(inQueue)
      /\ inQueue' = Pushed(inQueue, chunk) /\ chunk' = << >>
      /\ UNCHANGED <<nextIn, decoded, valid, got, readLeft, bufSize>>
  BY DEF ConnPosts, readVars
<1>2. renderPC # "done" /\ renderPC' # "done" /\ (renderPC = "reading" => renderPC' = "reading")
  <2>1. ~inQueue.closed
    BY <1>1 DEF CanPush
  <2>2. renderPC # "done"
    BY <1>0, <2>1 DEF StopSoFar
  <2>. QED
    BY <2>2 DEF ConnPosts, WakeReader
<1>3. chunk # << >> /\ chunk \in Data
  BY <1>0, <1>1 DEF ChunkInHand, Posting
<1>4. PICK n \in Nat : n = Len(chunk)
  BY <1>0 DEF InType
<1>5. PICK m \in Nat : m = nextIn - Len(chunk)
  <2>1. nextIn \in Nat /\ Len(chunk) \in Nat /\ Len(chunk) < nextIn
    BY <1>0, StreamConstants DEF InType, InChain
  <2>. QED
    BY <2>1
<1>6. n > 0 /\ m + n = nextIn /\ chunk = Bytes(m, n)
  BY <1>0, <1>3, <1>4, <1>5, StreamConstants DEF InType, InChain
<1>7. inQueue \in Queues(InCapacity) /\ inQueue' \in Queues(InCapacity)
      /\ Contents(inQueue') = Append(Contents(inQueue), chunk)
  BY <1>0, <1>1, <1>3, StreamConstants, PushedType, PushedContents DEF InType
<1>8. Contents(inQueue) \in Seq(Data \cup {NoBuffer})
  BY <1>7, StreamConstants, ContentsSeq
<1>9. Chain(Contents(inQueue)', Len(Taken) + 1, m + n)
  <2>1. Chain(Contents(inQueue), Len(Taken) + 1, m)
    BY <1>0, <1>5 DEF InChain
  <2>2. Bytes(m, n) \in Data \cup {NoBuffer}
    BY <1>3, <1>6
  <2>3. Chain(Append(Contents(inQueue), Bytes(m, n)), Len(Taken) + 1, m + n)
    BY <1>6, <1>8, <2>1, <2>2, ChainPush
  <2>. QED
    BY <1>6, <1>7, <2>3
<1>10. << >> \in Seq(Nat) /\ Len(<< >>) = 0
  OBVIOUS
<1>11. InType'
  BY <1>0, <1>1, <1>7, <1>10 DEF InType
<1>12. ChunkInHand'
  BY <1>0, <1>1, <1>2 DEF ChunkInHand, Posting
<1>13. StopSoFar'
  <2>1. ~inQueue'.closed
    BY <1>1 DEF CanPush, Pushed
  <2>. QED
    BY <1>2, <2>1 DEF StopSoFar
<1>14. InChain'
  <2>1. Taken' = Taken
    BY <1>1 DEF Taken
  <2>2. nextIn' - Len(chunk') = m + n /\ Len(chunk') = 0 /\ Len(chunk') < nextIn'
    BY <1>0, <1>1, <1>6, <1>10, StreamConstants DEF InType
  <2>3. Taken = Bytes(1, Len(Taken))
    BY <1>0 DEF InChain
  <2>. QED
    BY <1>1, <1>9, <2>1, <2>2, <2>3, NoBytes DEF InChain
<1>. QED
  BY <1>11, <1>12, <1>13, <1>14 DEF InInv

(* Closing a queue leaves its contents. *)
LEMMA ClosedContents ==
  ASSUME NEW C \in Nat \ {0}, NEW q \in Queues(C)
  PROVE  /\ Closed(q) \in Queues(C) /\ Closed(q).closed /\ Contents(Closed(q)) = Contents(q)
         /\ IsEmpty(Closed(q)) <=> IsEmpty(q)
<1>1. /\ Closed(q).capacity = q.capacity /\ Closed(q).pos = q.pos /\ Closed(q).closed = TRUE
      /\ Closed(q).count = q.count /\ Closed(q).buffers = q.buffers
  BY DEF Closed, Queues
<1>2. \A i : Slot(Closed(q), i) = Slot(q, i)
  BY <1>1 DEF Slot
<1>. QED
  BY <1>1, <1>2, ClosedType DEF Contents, IsEmpty

(* The close comes after the last post of the same thread. *)
LEMMA ForceStopIn ==
  ASSUME InInv, ForceStopClosesIn
  PROVE  InInv'
<1>0. InType /\ ChunkInHand /\ StopSoFar /\ InChain
  BY DEF InInv
<1>1. /\ connPC = "closeIn" /\ connPC' = "closeOut" /\ inQueue' = Closed(inQueue)
      /\ UNCHANGED <<chunk, nextIn, decoded, valid, got, readLeft, bufSize>>
  BY DEF ForceStopClosesIn, readVars
<1>2. (renderPC' = "done" => renderPC = "done") /\ (renderPC = "reading" => renderPC' = "reading")
  BY DEF ForceStopClosesIn, WakeReader
<1>3. /\ inQueue' \in Queues(InCapacity) /\ inQueue'.closed
      /\ Contents(inQueue') = Contents(inQueue)
      /\ IsEmpty(inQueue') <=> IsEmpty(inQueue)
  BY <1>0, <1>1, StreamConstants, ClosedContents DEF InType
<1>4. InType'
  BY <1>0, <1>1, <1>3 DEF InType
<1>5. ChunkInHand' /\ StopSoFar'
  BY <1>0, <1>1, <1>2, <1>3 DEF ChunkInHand, StopSoFar, Posting
<1>6. Taken' = Taken
  BY <1>1 DEF Taken
<1>7. InChain'
  BY <1>0, <1>1, <1>3, <1>6 DEF InChain
<1>. QED
  BY <1>4, <1>5, <1>7 DEF InInv

(* A step of read() that moves bytes from one place to the next. *)
LEMMA MovesIn ==
  ASSUME InInv, UNCHANGED <<inQueue, chunk, nextIn, connPC, bufSize>>,
         decoded' \in Seq(Nat), valid' \in Seq(Nat), got' \in Seq(Nat), readLeft' \in Seq(Nat),
         Taken' = Taken,
         got' # << >> => renderPC' = "reading", renderPC' # "done"
  PROVE  InInv'
<1>1. InType'
  BY DEF InInv, InType
<1>2. ChunkInHand'
  BY DEF InInv, ChunkInHand
<1>3. StopSoFar'
  BY DEF InInv, StopSoFar
<1>4. InChain'
  BY DEF InInv, InChain
<1>. QED
  BY <1>1, <1>2, <1>3, <1>4 DEF InInv

(* read() copies the part of the Buffer that there is room for. *)
LEMMA ReadCopiesIn ==
  ASSUME InInv, ReadCopies
  PROVE  InInv'
<1>0. InType
  BY DEF InInv
<1>1. /\ renderPC = "reading" /\ Wanted > 0 /\ readLeft # << >>
      /\ UNCHANGED <<inQueue, chunk, nextIn, connPC, bufSize, renderPC, valid, decoded>>
  BY DEF ReadCopies, connVars
<1>2. Wanted \in Int
  BY <1>0 DEF InType, Wanted
<1>3. PICK n \in 1 .. Len(readLeft) :
        got' = got \o FirstBytes(readLeft, n) /\ readLeft' = DropBytes(readLeft, n)
  <2> DEFINE avail == IF Wanted < Len(readLeft) THEN Wanted ELSE Len(readLeft)
  <2>1. avail \in 1 .. Len(readLeft)
    BY <1>0, <1>1, <1>2 DEF InType
  <2>2. got' = got \o FirstBytes(readLeft, avail) /\ readLeft' = DropBytes(readLeft, avail)
    BY DEF ReadCopies
  <2>. QED
    BY <2>1, <2>2
<1>4. PICK r \in Seq(Nat) : r = readLeft
  BY <1>0 DEF InType
<1>5. PICK g \in Seq(Nat) : g = got
  BY <1>0 DEF InType
<1>6. PICK x \in Seq(Nat) : x = Cat(decoded, valid)
  BY <1>0, CatType DEF InType
<1>7. /\ n \in 1 .. Len(r)
      /\ Cat(g, FirstBytes(r, n)) \in Seq(Nat) /\ DropBytes(r, n) \in Seq(Nat)
  BY <1>3, <1>4, FirstMoves, SplitSeq
<1>10. /\ got' = Cat(g, FirstBytes(r, n)) /\ readLeft' = DropBytes(r, n)
       /\ got' \in Seq(Nat) /\ readLeft' \in Seq(Nat)
  <2>1. got' = Cat(got, FirstBytes(readLeft, n))
    BY <1>3 DEF Cat
  <2>. QED
    BY <1>3, <1>4, <1>5, <1>7, <2>1
<1>11. Cat(Cat(x, Cat(g, FirstBytes(r, n))), DropBytes(r, n)) = Cat(Cat(x, g), r)
  BY <1>7, FirstMoves
<1>12. Taken = Cat(Cat(x, g), r) /\ Taken' = Cat(Cat(x, Cat(g, FirstBytes(r, n))), DropBytes(r, n))
  <2>1. /\ Taken = Cat(Cat(Cat(decoded, valid), got), readLeft)
        /\ Taken' = Cat(Cat(Cat(decoded', valid'), got'), readLeft')
    BY DEF Taken, Cat
  <2>. QED
    BY <1>1, <1>4, <1>5, <1>6, <1>10, <2>1
<1>13. Taken' = Taken
  BY <1>11, <1>12
<1>14. decoded' \in Seq(Nat) /\ valid' \in Seq(Nat) /\ got' \in Seq(Nat) /\ readLeft' \in Seq(Nat)
  BY <1>0, <1>1, <1>10 DEF InType
<1>15. renderPC' = "reading" /\ renderPC' # "done"
  BY <1>1
<1>16. UNCHANGED <<inQueue, chunk, nextIn, connPC, bufSize>>
  BY <1>1
<1>. QED
  BY <1>13, <1>14, <1>15, <1>16, MovesIn

(* What read() copied is now in the ReadBuffer. *)
LEMMA ReadReturnsIn ==
  ASSUME InInv, ReadReturns
  PROVE  InInv'
<1>0. InType
  BY DEF InInv
<1>1. /\ valid' = valid \o got /\ got' = << >> /\ renderPC' = "decode"
      /\ UNCHANGED <<inQueue, chunk, nextIn, connPC, bufSize, readLeft, decoded>>
  BY DEF ReadReturns, connVars
<1>2. PICK x \in Seq(Nat) : x = decoded
  BY <1>0 DEF InType
<1>3. PICK y \in Seq(Nat) : y = valid
  BY <1>0 DEF InType
<1>4. PICK g \in Seq(Nat) : g = got
  BY <1>0 DEF InType
<1>5. Cat(x, y) \in Seq(Nat) /\ Cat(y, g) \in Seq(Nat) /\ Cat(Cat(x, y), g) = Cat(x, Cat(y, g))
  BY CatType, CatAssociative
<1>6. Cat(x, Cat(y, g)) \in Seq(Nat)
  BY <1>5, CatType
<1>7. Cat(Cat(x, Cat(y, g)), << >>) = Cat(Cat(x, y), g)
  BY <1>5, <1>6, ConcatEmptySeq DEF Cat
<1>8. /\ Taken = Cat(Cat(Cat(x, y), g), readLeft) /\ valid' = Cat(y, g)
      /\ Taken' = Cat(Cat(Cat(x, Cat(y, g)), << >>), readLeft)
  <2>1. /\ Taken = Cat(Cat(Cat(decoded, valid), got), readLeft)
        /\ Taken' = Cat(Cat(Cat(decoded', valid'), got'), readLeft')
    BY DEF Taken, Cat
  <2>2. valid' = Cat(valid, got)
    BY <1>1 DEF Cat
  <2>. QED
    BY <1>1, <1>2, <1>3, <1>4, <2>1, <2>2
<1>9. Taken' = Taken
  BY <1>7, <1>8
<1>10. decoded' \in Seq(Nat) /\ valid' \in Seq(Nat) /\ got' \in Seq(Nat) /\ readLeft' \in Seq(Nat)
  BY <1>0, <1>1, <1>5, <1>8 DEF InType
<1>11. got' = << >> /\ renderPC' # "done" /\ UNCHANGED <<inQueue, chunk, nextIn, connPC, bufSize>>
  BY <1>1
<1>. QED
  BY <1>9, <1>10, <1>11, MovesIn

(* The decoders consume the first bytes of the ReadBuffer. *)
LEMMA DecodeConsumesIn ==
  ASSUME InInv, DecodeConsumes
  PROVE  InInv'
<1>0. InType /\ ChunkInHand
  BY DEF InInv
<1>1. PICK n \in 1 .. Len(valid) :
        decoded' = decoded \o FirstBytes(valid, n) /\ valid' = DropBytes(valid, n)
  BY DEF DecodeConsumes
<1>2. /\ renderPC = "decoding" /\ renderPC' \in {"decoding", "commit"}
      /\ UNCHANGED <<inQueue, chunk, nextIn, connPC, bufSize, got, readLeft>>
  BY DEF DecodeConsumes, connVars
<1>3. PICK x \in Seq(Nat) : x = decoded
  BY <1>0 DEF InType
<1>4. PICK y \in Seq(Nat) : y = valid
  BY <1>0 DEF InType
<1>5. n \in 1 .. Len(y) /\ DropBytes(y, n) \in Seq(Nat)
  BY <1>1, <1>4, SplitSeq
<1>8. /\ Cat(x, FirstBytes(y, n)) \in Seq(Nat)
      /\ Cat(Cat(x, FirstBytes(y, n)), DropBytes(y, n)) = Cat(x, y)
  BY <1>5, FirstMoves
<1>9. /\ decoded' = Cat(x, FirstBytes(y, n)) /\ valid' = DropBytes(y, n)
      /\ decoded' \in Seq(Nat) /\ valid' \in Seq(Nat)
  <2>1. decoded' = Cat(decoded, FirstBytes(valid, n))
    BY <1>1 DEF Cat
  <2>. QED
    BY <1>1, <1>3, <1>4, <1>5, <1>8, <2>1
<1>10. /\ Taken = Cat(Cat(Cat(x, y), got), readLeft)
       /\ Taken' = Cat(Cat(Cat(Cat(x, FirstBytes(y, n)), DropBytes(y, n)), got), readLeft)
  <2>1. /\ Taken = Cat(Cat(Cat(decoded, valid), got), readLeft)
        /\ Taken' = Cat(Cat(Cat(decoded', valid'), got'), readLeft')
    BY DEF Taken, Cat
  <2>. QED
    BY <1>2, <1>3, <1>4, <1>9, <2>1
<1>11. Taken' = Taken
  BY <1>8, <1>10
<1>12. decoded' \in Seq(Nat) /\ valid' \in Seq(Nat) /\ got' \in Seq(Nat) /\ readLeft' \in Seq(Nat)
  BY <1>0, <1>2, <1>9 DEF InType
<1>13. got' = << >> /\ renderPC' # "done" /\ UNCHANGED <<inQueue, chunk, nextIn, connPC, bufSize>>
  BY <1>0, <1>2 DEF ChunkInHand
<1>. QED
  BY <1>11, <1>12, <1>13, MovesIn

(* read() takes the front Buffer: it goes on where the last one ended. *)
LEMMA ReadPopsIn ==
  ASSUME InInv, ReadPops
  PROVE  InInv'
<1>0. InType /\ ChunkInHand /\ StopSoFar /\ InChain
  BY DEF InInv
<1>1. /\ renderPC = "reading" /\ renderPC' = "reading" /\ readLeft = << >> /\ CanPop(inQueue)
      /\ readLeft' = FrontBuffer(inQueue) /\ inQueue' = Popped(inQueue)
      /\ UNCHANGED <<chunk, nextIn, bufSize, got, valid, decoded>>
  BY DEF ReadPops, connVars
<1>2. connPC' = connPC \/ (connPC = "postAsleep" /\ connPC' = "post")
  BY DEF ReadPops, WakePoster
<1>3. /\ inQueue' \in Queues(InCapacity)
      /\ Contents(inQueue) # << >> /\ Contents(inQueue') = Tail(Contents(inQueue))
      /\ Contents(inQueue) \in Seq(Data \cup {NoBuffer})
      /\ Contents(inQueue)[1] = FrontBuffer(inQueue)
  BY <1>0, <1>1, StreamConstants, PoppedType, PoppedContents, ContentsSeq DEF InType
<1>4. PICK m \in Nat : m = nextIn - Len(chunk)
  <2>1. nextIn \in Nat /\ Len(chunk) \in Nat /\ Len(chunk) < nextIn
    BY <1>0, StreamConstants DEF InType, InChain
  <2>. QED
    BY <2>1
<1>5. Chain(Contents(inQueue), Len(Taken) + 1, m)
  BY <1>0, <1>4 DEF InChain
<1>6. PICK b : b = FrontBuffer(inQueue)
  OBVIOUS
<1>7. /\ b \in Seq(Nat) /\ Len(b) > 0 /\ b = Bytes(Len(Taken) + 1, Len(b))
      /\ Chain(Contents(inQueue'), (Len(Taken) + 1) + Len(b), m)
  BY <1>3, <1>5, <1>6, ChainPop
<1>8. PICK x \in Seq(Nat) : x = decoded \o valid \o got
  <2>1. decoded \in Seq(Nat) /\ valid \in Seq(Nat) /\ got \in Seq(Nat)
    BY <1>0 DEF InType
  <2>2. decoded \o valid \in Seq(Nat)
    BY <2>1, ConcatProperties
  <2>3. decoded \o valid \o got \in Seq(Nat)
    BY <2>1, <2>2, ConcatProperties
  <2>. QED
    BY <2>3
<1>9. Taken = x /\ Taken' = x \o b
  <2>1. Taken = x \o << >> /\ Taken' = x \o b
    BY <1>1, <1>6, <1>8 DEF Taken
  <2>. QED
    BY <2>1, ConcatEmptySeq
<1>10. PICK n \in Nat : n = Len(x)
  OBVIOUS
<1>11. Len(b) \in Nat /\ x = Bytes(1, n) /\ b = Bytes(1 + n, Len(b)) /\ 1 + n = n + 1
  BY <1>0, <1>7, <1>9, <1>10 DEF InChain
<1>12. Taken' = Bytes(1, n + Len(b)) /\ Len(Taken') = n + Len(b)
  <2>1. Bytes(1, n) \o Bytes(1 + n, Len(b)) = Bytes(1, n + Len(b))
    BY <1>11, BytesJoin
  <2>2. n + Len(b) \in Nat
    BY <1>11
  <2>3. Len(Bytes(1, n + Len(b))) = n + Len(b)
    BY <2>2, BytesAreSeq
  <2>. QED
    BY <1>9, <1>11, <2>1, <2>3
<1>13. Chain(Contents(inQueue'), Len(Taken') + 1, m)
  <2>1. (Len(Taken) + 1) + Len(b) = Len(Taken') + 1
    BY <1>9, <1>10, <1>11, <1>12
  <2>. QED
    BY <1>7, <2>1
<1>14. InType'
  BY <1>0, <1>1, <1>3, <1>6, <1>7 DEF InType
<1>15. ChunkInHand'
  BY <1>0, <1>1, <1>2 DEF ChunkInHand, Posting
<1>16. StopSoFar'
  <2>1. inQueue'.closed = inQueue.closed
    BY <1>1 DEF Popped
  <2>. QED
    BY <1>0, <1>1, <1>2, <2>1 DEF StopSoFar, Posting
<1>17. InChain'
  BY <1>0, <1>1, <1>4, <1>12, <1>13 DEF InChain
<1>. QED
  BY <1>14, <1>15, <1>16, <1>17 DEF InInv

(* read() finds the queue closed and empty: the render thread leaves. *)
LEMMA ReadFailsIn ==
  ASSUME InInv, ReadFails
  PROVE  InInv'
<1>1. /\ readLeft = << >> /\ got = << >> /\ IsEmpty(inQueue) /\ inQueue.closed
      /\ UNCHANGED <<inQueue, connPC, chunk, nextIn, decoded, valid, got, readLeft, bufSize>>
  BY DEF ReadFails, connVars, readVars
<1>2. InType' /\ ChunkInHand' /\ StopSoFar'
  BY <1>1 DEF InInv, InType, ChunkInHand, StopSoFar
<1>3. Taken' = Taken
  BY <1>1 DEF Taken
<1>4. InChain'
  BY <1>1, <1>3 DEF InInv, InChain
<1>. QED
  BY <1>2, <1>4 DEF InInv

(* Every step keeps the half of the stream that comes from the guest. *)
LEMMA NextIn ==
  ASSUME InInv, [StreamNext]_streamVars
  PROVE  InInv'
<1>0. bufSize \in Nat /\ (got # << >> => renderPC = "reading")
  BY DEF InInv, InType, ChunkInHand
<1>1. CASE ConnReceives
  BY <1>1, ConnReceivesIn
<1>2. CASE ConnPosts
  BY <1>2, ConnPostsIn
<1>3. CASE ForceStopClosesIn
  BY <1>3, ForceStopIn
<1>4. CASE ReadCopies \/ ReadPops \/ ReadReturns \/ ReadFails \/ DecodeConsumes
  BY <1>4, ReadCopiesIn, ReadPopsIn, ReadReturnsIn, ReadFailsIn, DecodeConsumesIn
<1>5. CASE ConnPostWaits \/ ConnEndOfFile \/ ForceStopClosesOut \/ ForceStopReturns \/ ConnJoins
  <2>1. /\ UNCHANGED <<inQueue, chunk, nextIn, decoded, valid, got, readLeft, bufSize, renderPC>>
        /\ connPC' \in Posting <=> connPC \in Posting
        /\ connPC' # "receive"
    BY <1>5 DEF ConnPostWaits, ConnEndOfFile, ForceStopClosesOut, ForceStopReturns, ConnJoins,
                readVars, Posting
  <2>. QED
    BY <1>0, <2>1, InFrame
<1>6. CASE ForceStopNotifiesOut
  <2>1. /\ UNCHANGED <<inQueue, chunk, nextIn, decoded, valid, got, readLeft, bufSize>>
        /\ connPC' \in Posting <=> connPC \in Posting
        /\ connPC' # "receive"
        /\ renderPC = "reading" => renderPC' = "reading"
        /\ renderPC' = "done" => renderPC = "done"
    BY <1>6 DEF ForceStopNotifiesOut, WakePusher, readVars, Posting
  <2>. QED
    BY <1>0, <2>1, InFrame
<1>7. CASE GetData \/ ReadWaits \/ ReadResumes
  <2>1. /\ UNCHANGED <<inQueue, chunk, nextIn, decoded, valid, got, readLeft, connPC>>
        /\ got # << >> => renderPC' = "reading"
        /\ renderPC' # "done"
    BY <1>0, <1>7 DEF GetData, ReadWaits, ReadResumes, connVars, readVars
  <2>2. bufSize' \in Nat
    BY <1>0, <1>7 DEF GetData, ReadWaits, ReadResumes, readVars
  <2>. QED
    BY <2>1, <2>2, InFrame
<1>8. CASE DecodeLocks \/ DecodeEnds \/ Commit
  <2>1. /\ UNCHANGED <<inQueue, chunk, nextIn, decoded, valid, got, readLeft, bufSize, connPC>>
        /\ renderPC # "reading" /\ renderPC' # "done"
    BY <1>8 DEF DecodeLocks, DecodeEnds, Commit, CommitLocks, CommitMustWait, CommitWaits, CommitDrops,
                CommitPushes, connVars, readVars
  <2>. QED
    BY <1>0, <2>1, InFrame
<1>9. CASE Worker
  <2>1. /\ UNCHANGED <<inQueue, chunk, nextIn, decoded, valid, got, readLeft, bufSize, connPC>>
        /\ renderPC = "reading" => renderPC' = "reading"
        /\ renderPC' = "done" => renderPC = "done"
    BY <1>9 DEF Worker, WorkerLocks, WorkerMustWait, WorkerWaits, WorkerPops, WorkerSends,
                WorkerSendFails, WorkerUnlocks, WorkerExits, WakePusher, connVars, readVars
  <2>. QED
    BY <1>0, <2>1, InFrame
<1>10. CASE OtherConnection \/ StreamWakesUp \/ AllDone \/ UNCHANGED streamVars
  <2>1. /\ UNCHANGED <<inQueue, chunk, nextIn, decoded, valid, got, readLeft, bufSize>>
        /\ connPC' = connPC \/ (connPC = "postAsleep" /\ connPC' = "post")
        /\ renderPC = "reading" => renderPC' = "reading"
        /\ renderPC' = "done" => renderPC = "done"
    BY <1>10 DEF OtherConnection, StreamWakesUp, AllDone, streamVars, connVars, readVars, WakePoster, WakeReader,
                 WakePusher
  <2>2. (connPC' \in Posting <=> connPC \in Posting) /\ (connPC' = "receive" => connPC = "receive")
    BY <2>1 DEF Posting
  <2>. QED
    BY <1>0, <2>1, <2>2, InFrame
<1>. QED
  BY <1>1, <1>2, <1>3, <1>4, <1>5, <1>6, <1>7, <1>8, <1>9, <1>10
  DEF StreamNext, PostData, ForceStop, Render, Read, Decode

(* Whatever the sizes of reads, Buffers and queues and wherever forceStop  *)
(* comes, the decoders get the guest's bytes complete and in order.        *)
THEOREM NoInputLost == StreamSpec => []InputConserved
<1>1. InInv => InputConserved
  <2>1. SUFFICES ASSUME InInv PROVE InputConserved
    OBVIOUS
  <2>2. InType /\ ChunkInHand /\ StopSoFar /\ InChain
    BY <2>1 DEF InInv
  <2>3. ASSUME renderPC = "done" PROVE Len(decoded) + Len(valid) = nextIn - 1
    <3>1. inQueue.closed /\ IsEmpty(inQueue) /\ readLeft = << >> /\ got = << >> /\ chunk = << >>
      BY <2>2, <2>3 DEF StopSoFar, ChunkInHand
    <3>2. Contents(inQueue) = << >>
      BY <2>2, <3>1, StreamConstants, ContentsSeq DEF InType
    <3>3. PICK m \in Nat : m = nextIn - Len(chunk)
      BY <2>2, <3>1, StreamConstants DEF InType
    <3>4. Chain(Contents(inQueue), Len(Taken) + 1, m) /\ m = nextIn
      BY <2>2, <3>1, <3>3, StreamConstants DEF InChain, InType
    <3>5. Len(Taken) + 1 = m
      <4>1. Contents(inQueue) \in Seq(Data \cup {NoBuffer})
        BY <2>2, StreamConstants, ContentsSeq DEF InType
      <4>. QED
        BY <3>2, <3>4, <4>1, ChainBounds
    <3>6. Len(Taken) = Len(decoded) + Len(valid) + 0 + 0
      BY <2>2, <3>1, TakenType DEF InType
    <3>. QED
      BY <2>2, <3>4, <3>5, <3>6 DEF InType
  <2>. QED
    BY <2>2, <2>3 DEF InChain, Chain, InputConserved
<1>. QED
  BY <1>1, InitIn, NextIn, PTL DEF StreamSpec

----------------------------------------------------------------------------
(* Nothing is replied yet. *)
LEMMA InitOut == StreamInit => OutInv
<1> SUFFICES ASSUME StreamInit PROVE OutInv
  OBVIOUS
<1>0. << >> \in Seq(Nat) /\ Len(<< >>) = 0 /\ << >> \o << >> = << >>
  OBVIOUS
<1>1. outQueue \in Queues(OutCapacity) /\ ~outQueue.closed /\ Contents(outQueue) = << >>
  BY StreamConstants DEF StreamInit, NewQueue, Queues, Contents
<1>2. OutType
  BY <1>0, <1>1, StreamConstants DEF StreamInit, OutType
<1>3. ReplyInHand
  BY DEF StreamInit, ReplyInHand, Committing
<1>4. Sent = << >>
  BY <1>0 DEF StreamInit, Sent
<1>5. nextOut - Len(reply) = 1 /\ Len(Sent) + 1 = 1 /\ reply = << >> /\ Len(reply) < nextOut
      /\ delivered = << >> /\ Len(delivered) = 0 /\ Len(delivered) < nextOut
  BY <1>0, <1>4 DEF StreamInit
<1>6. Chain(Contents(outQueue), 1, 1)
  BY <1>1, EmptyChain
<1>7. OutOpen
  <2>1. sending \in Seq(Nat) /\ Sent = Bytes(1, Len(Sent))
    BY <1>0, <1>4, NoBytes DEF StreamInit
  <2>2. 1 \in 1 .. (nextOut - Len(reply)) /\ Chain(Contents(outQueue), Len(Sent) + 1, 1)
        /\ (~outQueue.closed => 1 = nextOut - Len(reply))
    BY <1>5, <1>6
  <2>. QED
    BY <2>1, <2>2 DEF OutOpen
<1>8. OutChain
  BY <1>0, <1>5, <1>7, NoBytes DEF OutChain
<1>. QED
  BY <1>2, <1>3, <1>8 DEF OutInv

(* A step that moves no byte on this half. *)
LEMMA OutFrame ==
  ASSUME OutInv, UNCHANGED <<outQueue, reply, nextOut, sending, delivered, socket>>,
         renderPC' \in Committing <=> renderPC \in Committing,
         sending # << >> => workerPC' = "send"
  PROVE  OutInv'
<1>1. OutType'
  BY DEF OutInv, OutType
<1>2. ReplyInHand'
  BY DEF OutInv, ReplyInHand
<1>3. Sent' = Sent
  BY DEF Sent
<1>4. OutOpen => OutOpen'
  BY <1>3 DEF OutOpen
<1>5. OutChain'
  BY <1>4 DEF OutInv, OutChain
<1>. QED
  BY <1>1, <1>2, <1>5 DEF OutInv

(* The numbers that the invariant compares. *)
LEMMA OutNumbers ==
  ASSUME OutInv
  PROVE  /\ nextOut \in Nat /\ Len(reply) \in Nat /\ nextOut - Len(reply) \in Nat
         /\ Len(delivered) \in Nat
         /\ Contents(outQueue) \in Seq(Data \cup {NoBuffer})
<1>1. /\ nextOut \in Nat /\ Len(reply) \in Nat /\ Len(reply) < nextOut
      /\ Len(delivered) \in Nat
  BY StreamConstants DEF OutInv, OutType, OutChain
<1>2. Contents(outQueue) \in Seq(Data \cup {NoBuffer})
  BY StreamConstants, ContentsSeq DEF OutInv, OutType
<1>. QED
  BY <1>1, <1>2

(* The decoders may begin a reply: it takes the next numbers. *)
LEMMA DecodeConsumesOut ==
  ASSUME OutInv, DecodeConsumes
  PROVE  OutInv'
<1>0. OutType /\ ReplyInHand /\ OutChain
  BY DEF OutInv
<1>1. /\ renderPC = "decoding"
      /\ UNCHANGED <<outQueue, sending, delivered, socket, workerPC>>
  BY DEF DecodeConsumes, workerVars
<1>2. sending # << >> => workerPC' = "send"
  BY <1>0, <1>1 DEF ReplyInHand
<1>3. CASE renderPC' = "decoding" /\ UNCHANGED replyVars
  <2>1. UNCHANGED <<reply, nextOut>> /\ (renderPC' \in Committing <=> renderPC \in Committing)
    BY <1>1, <1>3 DEF replyVars
  <2>. QED
    BY <1>1, <1>2, <2>1, OutFrame
<1>4. CASE renderPC' = "commit" /\ \E n \in 1 .. MaxChunk :
             nextOut + n <= MaxOut + 1 /\ reply' = Bytes(nextOut, n) /\ nextOut' = nextOut + n
  <2>1. PICK n \in 1 .. MaxChunk :
          nextOut + n <= MaxOut + 1 /\ reply' = Bytes(nextOut, n) /\ nextOut' = nextOut + n
    BY <1>4
  <2>2. nextOut \in 1 .. (MaxOut + 1) /\ nextOut \in Nat /\ n \in Nat /\ n > 0 /\ MaxOut \in Nat
    BY <1>0, StreamConstants DEF OutType
  <2>3. reply = << >> /\ Len(reply) = 0
    BY <1>0, <1>1 DEF ReplyInHand, Committing
  <2>4. reply' \in Seq(Nat) /\ Len(reply') = n
    BY <2>1, <2>2, BytesAreSeq
  <2>5. reply' \in Data
    <3>1. nextOut \in 1 .. MaxOut
      BY <2>1, <2>2
    <3>. QED
      BY <2>1, <3>1, BufferAssumption
  <2>6. nextOut' \in 1 .. (MaxOut + 1)
    BY <2>1, <2>2
  <2>7. OutType'
    BY <1>0, <1>1, <2>4, <2>6 DEF OutType
  <2>8. ReplyInHand'
    <3>1. reply' # << >>
      BY <2>2, <2>4
    <3>2. renderPC' \in Committing
      BY <1>4 DEF Committing
    <3>. QED
      BY <1>1, <1>2, <2>5, <3>1, <3>2 DEF ReplyInHand
  <2>9. /\ nextOut' - Len(reply') = nextOut /\ nextOut - Len(reply) = nextOut
        /\ Len(reply') < nextOut' /\ nextOut <= nextOut'
    BY <2>1, <2>2, <2>3, <2>4
  <2>10. Sent' = Sent
    BY <1>1 DEF Sent
  <2>11. OutOpen => OutOpen'
    <3>1. SUFFICES ASSUME OutOpen PROVE OutOpen'
      OBVIOUS
    <3>2. PICK m \in 1 .. (nextOut - Len(reply)) :
            Chain(Contents(outQueue), Len(Sent) + 1, m)
            /\ (~outQueue.closed => m = nextOut - Len(reply))
      BY <3>1 DEF OutOpen
    <3>3. m \in 1 .. (nextOut' - Len(reply')) /\ (~outQueue'.closed => m = nextOut' - Len(reply'))
          /\ Chain(Contents(outQueue'), Len(Sent') + 1, m)
      BY <1>1, <2>9, <2>10, <3>2
    <3>4. sending' \in Seq(Nat) /\ Sent' = Bytes(1, Len(Sent'))
      BY <1>1, <2>10, <3>1 DEF OutOpen
    <3>. QED
      BY <3>3, <3>4 DEF OutOpen
  <2>12. OutChain'
    <3>1. Len(delivered') < nextOut'
      BY <1>0, <1>1, <2>1, <2>2 DEF OutChain, OutType
    <3>2. reply' = Bytes(nextOut' - Len(reply'), Len(reply'))
      BY <2>1, <2>4, <2>9
    <3>. QED
      BY <1>0, <1>1, <2>9, <2>11, <3>1, <3>2 DEF OutChain
  <2>. QED
    BY <2>7, <2>8, <2>12 DEF OutInv
<1>. QED
  BY <1>3, <1>4 DEF DecodeConsumes

(* commitBuffer drops the reply when the queue is closed; what the queue   *)
(* carries then ends before it.                                            *)
LEMMA CommitDropsOut ==
  ASSUME OutInv, CommitDrops
  PROVE  OutInv'
<1>0. OutType /\ ReplyInHand /\ OutChain
  BY DEF OutInv
<1>1. /\ outQueue.closed /\ reply' = << >> /\ renderPC' = "decoding"
      /\ UNCHANGED <<outQueue, nextOut, sending, delivered, socket, workerPC>>
  BY DEF CommitDrops, workerVars
<1>2. << >> \in Seq(Nat) /\ Len(<< >>) = 0
  OBVIOUS
<1>3. OutType'
  BY <1>0, <1>1, <1>2 DEF OutType
<1>4. ReplyInHand'
  BY <1>0, <1>1 DEF ReplyInHand, Committing
<1>5. Sent' = Sent
  BY <1>1 DEF Sent
<1>6. /\ nextOut \in Nat /\ Len(reply) \in Nat
      /\ Len(reply') = 0 /\ nextOut' - Len(reply') = nextOut
  BY <1>1, <1>2, OutNumbers
<1>7. OutOpen => OutOpen'
  <2>1. SUFFICES ASSUME OutOpen PROVE OutOpen'
    OBVIOUS
  <2>2. PICK m \in 1 .. (nextOut - Len(reply)) : Chain(Contents(outQueue), Len(Sent) + 1, m)
    BY <2>1 DEF OutOpen
  <2>3. m \in 1 .. (nextOut' - Len(reply'))
    BY <1>6, <2>2
  <2>4. outQueue'.closed /\ Chain(Contents(outQueue'), Len(Sent') + 1, m)
    BY <1>1, <1>5, <2>2
  <2>5. sending' \in Seq(Nat) /\ Sent' = Bytes(1, Len(Sent'))
    BY <1>1, <1>5, <2>1 DEF OutOpen
  <2>. QED
    BY <2>3, <2>4, <2>5 DEF OutOpen
<1>8. OutChain'
  <2>1. Len(reply') < nextOut' /\ reply' = Bytes(nextOut' - Len(reply'), Len(reply'))
    BY <1>0, <1>1, <1>2, <1>6, NoBytes, StreamConstants DEF OutType
  <2>. QED
    BY <1>0, <1>1, <1>7, <2>1 DEF OutChain
<1>. QED
  BY <1>3, <1>4, <1>8 DEF OutInv

(* commitBuffer appends the reply to what the open queue carries. *)
LEMMA CommitPushesOut ==
  ASSUME OutInv, CommitPushes
  PROVE  OutInv'
<1>0. OutType /\ ReplyInHand /\ OutChain
  BY DEF OutInv
<1>1. /\ renderPC = "pushTest" /\ CanPush(outQueue) /\ outQueue' = Pushed(outQueue, reply)
      /\ reply' = << >> /\ renderPC' = "decoding"
      /\ UNCHANGED <<nextOut, sending, delivered, socket>>
  BY DEF CommitPushes
<1>2. sending # << >> => workerPC' = "send"
  BY <1>0 DEF CommitPushes, ReplyInHand, WakeWorker
<1>3. reply # << >> /\ reply \in Data
  BY <1>0, <1>1 DEF ReplyInHand, Committing
<1>4. << >> \in Seq(Nat) /\ Len(<< >>) = 0
  OBVIOUS
<1>5. outQueue \in Queues(OutCapacity) /\ outQueue' \in Queues(OutCapacity)
      /\ Contents(outQueue') = Append(Contents(outQueue), reply)
  BY <1>0, <1>1, <1>3, StreamConstants, PushedType, PushedContents DEF OutType
<1>6. ~outQueue.closed /\ ~outQueue'.closed
  BY <1>1 DEF CanPush, Pushed
<1>7. OutType'
  BY <1>0, <1>1, <1>4, <1>5 DEF OutType
<1>8. ReplyInHand'
  BY <1>1, <1>2 DEF ReplyInHand, Committing
<1>9. PICK n \in Nat : n = Len(reply)
  BY OutNumbers
<1>10. PICK p \in Nat : p = nextOut - Len(reply)
  BY OutNumbers
<1>11. n > 0 /\ p + n = nextOut /\ reply = Bytes(p, n)
  BY <1>0, <1>3, <1>9, <1>10, OutNumbers DEF OutType, OutChain
<1>12. Len(reply') = 0 /\ nextOut' - Len(reply') = p + n /\ Len(reply') < nextOut'
  BY <1>1, <1>4, <1>11
<1>13. OutOpen => OutOpen'
  <2>1. SUFFICES ASSUME OutOpen PROVE OutOpen'
    OBVIOUS
  <2>2. Chain(Contents(outQueue), Len(Sent) + 1, p)
    BY <1>6, <1>10, <2>1 DEF OutOpen
  <2>3. Bytes(p, n) \in Data \cup {NoBuffer}
    BY <1>3, <1>11
  <2>4. Chain(Append(Contents(outQueue), Bytes(p, n)), Len(Sent) + 1, p + n)
    BY <1>11, <2>2, <2>3, OutNumbers, ChainPush
  <2>5. Sent' = Sent
    BY <1>1 DEF Sent
  <2>6. Chain(Contents(outQueue'), Len(Sent') + 1, p + n)
    BY <1>5, <1>11, <2>4, <2>5
  <2>7. p + n \in 1 .. (nextOut' - Len(reply')) /\ p + n = nextOut' - Len(reply')
    BY <1>11, <1>12
  <2>8. sending' \in Seq(Nat) /\ Sent' = Bytes(1, Len(Sent'))
    BY <1>1, <2>1, <2>5 DEF OutOpen
  <2>. QED
    BY <2>6, <2>7, <2>8 DEF OutOpen
<1>14. OutChain'
  <2>1. reply' = Bytes(nextOut' - Len(reply'), Len(reply'))
    BY <1>1, <1>12, NoBytes
  <2>. QED
    BY <1>0, <1>1, <1>12, <1>13, <2>1 DEF OutChain
<1>. QED
  BY <1>7, <1>8, <1>14 DEF OutInv

(* forceStop closes out_queue_ without out_lock_ and leaves its contents. *)
LEMMA ForceStopOut ==
  ASSUME OutInv, ForceStopClosesOut
  PROVE  OutInv'
<1>0. OutType /\ ReplyInHand /\ OutChain
  BY DEF OutInv
<1>1. /\ outQueue' = Closed(outQueue)
      /\ UNCHANGED <<reply, nextOut, sending, delivered, socket, workerPC, renderPC>>
  BY DEF ForceStopClosesOut, replyVars, workerVars
<1>2. /\ outQueue' \in Queues(OutCapacity) /\ outQueue'.closed
      /\ Contents(outQueue') = Contents(outQueue)
  BY <1>0, <1>1, StreamConstants, ClosedContents DEF OutType
<1>3. OutType' /\ ReplyInHand'
  BY <1>0, <1>1, <1>2 DEF OutType, ReplyInHand
<1>4. Sent' = Sent
  BY <1>1 DEF Sent
<1>5. OutOpen => OutOpen'
  <2>1. SUFFICES ASSUME OutOpen PROVE OutOpen'
    OBVIOUS
  <2>2. PICK m \in 1 .. (nextOut - Len(reply)) : Chain(Contents(outQueue), Len(Sent) + 1, m)
    BY <2>1 DEF OutOpen
  <2>3. m \in 1 .. (nextOut' - Len(reply')) /\ Chain(Contents(outQueue'), Len(Sent') + 1, m)
    BY <1>1, <1>2, <1>4, <2>2
  <2>4. sending' \in Seq(Nat) /\ Sent' = Bytes(1, Len(Sent'))
    BY <1>1, <1>4, <2>1 DEF OutOpen
  <2>. QED
    BY <1>2, <2>3, <2>4 DEF OutOpen
<1>6. OutChain'
  BY <1>0, <1>1, <1>5 DEF OutChain
<1>. QED
  BY <1>3, <1>6 DEF OutInv

(* The worker takes the front Buffer: it goes on where the last one ended. *)
LEMMA WorkerPopsOut ==
  ASSUME OutInv, WorkerPops
  PROVE  OutInv'
<1>0. OutType /\ ReplyInHand /\ OutChain
  BY DEF OutInv
<1>1. /\ workerPC = "popTest" /\ workerPC' = "send" /\ CanPop(outQueue)
      /\ sending' = FrontBuffer(outQueue) /\ outQueue' = Popped(outQueue)
      /\ UNCHANGED <<reply, nextOut, delivered, socket>>
  BY DEF WorkerPops, replyVars
<1>2. renderPC' \in Committing <=> renderPC \in Committing
  BY DEF WorkerPops, WakePusher, Committing
<1>3. /\ outQueue \in Queues(OutCapacity) /\ outQueue' \in Queues(OutCapacity)
      /\ Contents(outQueue) # << >> /\ Contents(outQueue') = Tail(Contents(outQueue))
      /\ Contents(outQueue) \in Seq(Data \cup {NoBuffer})
      /\ Contents(outQueue)[1] = FrontBuffer(outQueue)
      /\ outQueue'.closed = outQueue.closed
  <2>1. outQueue'.closed = outQueue.closed
    BY <1>1 DEF Popped
  <2>. QED
    BY <1>0, <1>1, <2>1, StreamConstants, PoppedType, PoppedContents, ContentsSeq DEF OutType
<1>4. sending = << >> /\ delivered \in Seq(Nat) /\ Sent = delivered
  <2>1. sending = << >> /\ delivered \in Seq(Nat)
    BY <1>0, <1>1 DEF ReplyInHand, OutType
  <2>. QED
    BY <2>1, ConcatEmptySeq DEF Sent
<1>5. ASSUME socket = "open" PROVE OutOpen'
  <2>1. OutOpen
    BY <1>0, <1>5 DEF OutChain
  <2>2. PICK m \in 1 .. (nextOut - Len(reply)) :
          /\ Chain(Contents(outQueue), Len(Sent) + 1, m)
          /\ ~outQueue.closed => m = nextOut - Len(reply)
    BY <2>1 DEF OutOpen
  <2>3. m \in Nat
    BY <2>2, OutNumbers
  <2>4. PICK b : b = FrontBuffer(outQueue)
    OBVIOUS
  <2>5. /\ b \in Seq(Nat) /\ Len(b) > 0 /\ b = Bytes(Len(Sent) + 1, Len(b))
        /\ Chain(Contents(outQueue'), (Len(Sent) + 1) + Len(b), m)
    BY <1>3, <2>2, <2>3, <2>4, ChainPop
  <2>6. PICK x \in Seq(Nat) : x = delivered
    BY <1>4
  <2>7. PICK n \in Nat : n = Len(x)
    OBVIOUS
  <2>8. Len(b) \in Nat /\ x = Bytes(1, n) /\ b = Bytes(1 + n, Len(b)) /\ 1 + n = n + 1
    BY <1>4, <2>1, <2>5, <2>6, <2>7 DEF OutOpen
  <2>9. Sent' = x \o b
    BY <1>1, <2>4, <2>6 DEF Sent
  <2>10. Sent' = Bytes(1, n + Len(b)) /\ Len(Sent') = n + Len(b)
    <3>1. Bytes(1, n) \o Bytes(1 + n, Len(b)) = Bytes(1, n + Len(b))
      BY <2>8, BytesJoin
    <3>2. n + Len(b) \in Nat
      BY <2>8
    <3>3. Len(Bytes(1, n + Len(b))) = n + Len(b)
      BY <3>2, BytesAreSeq
    <3>. QED
      BY <2>8, <2>9, <3>1, <3>3
  <2>11. Chain(Contents(outQueue'), Len(Sent') + 1, m)
    <3>1. (Len(Sent) + 1) + Len(b) = Len(Sent') + 1
      BY <1>4, <2>6, <2>7, <2>8, <2>10
    <3>. QED
      BY <2>5, <3>1
  <2>12. m \in 1 .. (nextOut' - Len(reply')) /\ (~outQueue'.closed => m = nextOut' - Len(reply'))
    BY <1>1, <1>3, <2>2
  <2>13. sending' \in Seq(Nat)
    BY <1>1, <2>4, <2>5
  <2>. QED
    BY <2>10, <2>11, <2>12, <2>13 DEF OutOpen
<1>6. OutType'
  BY <1>0, <1>1, <1>3 DEF OutType
<1>7. ReplyInHand'
  BY <1>0, <1>1, <1>2 DEF ReplyInHand
<1>8. OutChain'
  BY <1>0, <1>1, <1>5 DEF OutChain
<1>. QED
  BY <1>6, <1>7, <1>8 DEF OutInv

(* A send that takes part of the Buffer moves its first bytes; one that    *)
(* takes all of it is the same step.                                       *)
LEMMA WorkerSendsOut ==
  ASSUME OutInv, WorkerSends
  PROVE  OutInv'
<1>0. OutType /\ ReplyInHand /\ OutChain
  BY DEF OutInv
<1>1. /\ workerPC = "send" /\ socket = "open"
      /\ UNCHANGED <<outQueue, reply, nextOut, socket, workerPC, renderPC>>
  BY DEF WorkerSends, replyVars
<1>2. PICK n \in 1 .. Len(sending) :
        delivered' = delivered \o FirstBytes(sending, n) /\ sending' = DropBytes(sending, n)
  BY DEF WorkerSends
<1>3. OutOpen
  BY <1>0, <1>1 DEF OutChain
<1>4. PICK x \in Seq(Nat) : x = delivered
  BY <1>0 DEF OutType
<1>5. PICK s \in Seq(Nat) : s = sending
  BY <1>3 DEF OutOpen
<1>6. n \in 1 .. Len(s) /\ DropBytes(s, n) \in Seq(Nat)
  BY <1>2, <1>5, SplitSeq
<1>7. /\ Cat(x, FirstBytes(s, n)) \in Seq(Nat)
      /\ Cat(Cat(x, FirstBytes(s, n)), DropBytes(s, n)) = Cat(x, s)
  BY <1>6, FirstMoves
<1>8. /\ delivered' = Cat(x, FirstBytes(s, n)) /\ sending' = DropBytes(s, n)
      /\ delivered' \in Seq(Nat) /\ sending' \in Seq(Nat)
  <2>1. delivered' = Cat(delivered, FirstBytes(sending, n))
    BY <1>2 DEF Cat
  <2>. QED
    BY <1>2, <1>4, <1>5, <1>6, <1>7, <2>1
<1>9. Sent' = Sent /\ Sent' = Cat(delivered', sending')
  <2>1. Sent = Cat(delivered, sending) /\ Sent' = Cat(delivered', sending')
    BY DEF Sent, Cat
  <2>. QED
    BY <1>4, <1>5, <1>7, <1>8, <2>1
<1>10. OutOpen'
  <2>1. Contents(outQueue') = Contents(outQueue)
    BY <1>1
  <2>. QED
    BY <1>1, <1>3, <1>8, <1>9, <2>1 DEF OutOpen
<1>11. delivered' = Bytes(1, Len(delivered')) /\ Len(delivered') < nextOut'
  <2>1. PICK d \in Seq(Nat) : d = delivered'
    BY <1>8
  <2>2. PICK e \in Seq(Nat) : e = sending'
    BY <1>8
  <2>3. d \o e = Sent /\ Sent = Bytes(1, Len(Sent))
    BY <1>3, <1>9, <2>1, <2>2 DEF Cat, OutOpen
  <2>4. d = Bytes(1, Len(d))
    BY <2>3, BytesPrefix
  <2>5. Len(d) \in Nat /\ Len(e) \in Nat /\ Len(Sent) = Len(d) + Len(e)
    BY <2>3, ConcatProperties
  <2>6. PICK m \in 1 .. (nextOut - Len(reply)) : Chain(Contents(outQueue), Len(Sent) + 1, m)
    BY <1>3 DEF OutOpen
  <2>7. m \in Nat /\ m <= nextOut /\ nextOut \in Nat
    BY <2>6, OutNumbers
  <2>8. Len(Sent) + 1 \in 1 .. m
    BY <2>6, <2>7, OutNumbers, ChainBounds
  <2>9. Len(d) < nextOut
    BY <2>5, <2>7, <2>8
  <2>. QED
    BY <1>1, <2>1, <2>4, <2>9
<1>12. OutType' /\ ReplyInHand'
  BY <1>0, <1>1, <1>8 DEF OutType, ReplyInHand
<1>13. OutChain'
  BY <1>0, <1>1, <1>10, <1>11 DEF OutChain
<1>. QED
  BY <1>12, <1>13 DEF OutInv

(* A send that fails for good. *)
LEMMA WorkerSendFailsOut ==
  ASSUME OutInv, WorkerSendFails
  PROVE  OutInv'
<1>1. /\ socket' = "broken" /\ sending' = << >>
      /\ UNCHANGED <<outQueue, reply, nextOut, workerPC, renderPC, delivered>>
  BY DEF WorkerSendFails, replyVars
<1>2. OutType' /\ ReplyInHand'
  BY <1>1 DEF OutInv, OutType, ReplyInHand
<1>3. OutChain'
  BY <1>1 DEF OutInv, OutChain
<1>. QED
  BY <1>2, <1>3 DEF OutInv

(* Every step keeps the half of the stream that goes to the guest. *)
LEMMA NextOut ==
  ASSUME OutInv, [StreamNext]_streamVars
  PROVE  OutInv'
<1>0. sending # << >> => workerPC = "send"
  BY DEF OutInv, ReplyInHand
<1>1. CASE DecodeConsumes \/ CommitDrops \/ CommitPushes
  BY <1>1, DecodeConsumesOut, CommitDropsOut, CommitPushesOut
<1>2. CASE ForceStopClosesOut
  BY <1>2, ForceStopOut
<1>3. CASE WorkerPops \/ WorkerSends \/ WorkerSendFails
  BY <1>3, WorkerPopsOut, WorkerSendsOut, WorkerSendFailsOut
<1>4. CASE ConnReceives \/ ConnPostWaits \/ ConnEndOfFile \/ ForceStopReturns \/ ConnJoins
  <2>1. UNCHANGED <<outQueue, reply, nextOut, sending, delivered, socket, workerPC, renderPC>>
    BY <1>4 DEF ConnReceives, ConnPostWaits, ConnEndOfFile, ForceStopReturns, ConnJoins,
                replyVars, workerVars
  <2>. QED
    BY <1>0, <2>1, OutFrame
<1>5. CASE ConnPosts \/ ForceStopClosesIn
  <2>1. /\ UNCHANGED <<outQueue, reply, nextOut, sending, delivered, socket, workerPC>>
        /\ renderPC' \in Committing <=> renderPC \in Committing
    BY <1>5 DEF ConnPosts, ForceStopClosesIn, WakeReader, replyVars, workerVars, Committing
  <2>. QED
    BY <1>0, <2>1, OutFrame
<1>6. CASE ForceStopNotifiesOut
  <2>1. /\ UNCHANGED <<outQueue, reply, nextOut, sending, delivered, socket>>
        /\ renderPC' \in Committing <=> renderPC \in Committing
        /\ workerPC = "send" => workerPC' = "send"
    BY <1>6 DEF ForceStopNotifiesOut, WakePusher, WakeWorker, replyVars, Committing
  <2>. QED
    BY <1>0, <2>1, OutFrame
<1>7. CASE Read \/ DecodeLocks \/ DecodeEnds \/ OtherConnection
  <2>1. /\ UNCHANGED <<outQueue, reply, nextOut, sending, delivered, socket, workerPC>>
        /\ renderPC' \in Committing <=> renderPC \in Committing
    BY <1>7 DEF Read, GetData, ReadCopies, ReadPops, ReadWaits, ReadResumes, ReadReturns,
                ReadFails, DecodeLocks, DecodeEnds, OtherConnection, replyVars, workerVars, Committing
  <2>. QED
    BY <1>0, <2>1, OutFrame
<1>8. CASE CommitLocks \/ CommitMustWait \/ CommitWaits
  <2>1. /\ UNCHANGED <<outQueue, reply, nextOut, sending, delivered, socket, workerPC>>
        /\ renderPC' \in Committing <=> renderPC \in Committing
    BY <1>8 DEF CommitLocks, CommitMustWait, CommitWaits, replyVars, workerVars, Committing
  <2>. QED
    BY <1>0, <2>1, OutFrame
<1>9. CASE WorkerLocks \/ WorkerMustWait \/ WorkerWaits \/ WorkerUnlocks \/ WorkerExits
  <2>1. /\ UNCHANGED <<outQueue, reply, nextOut, sending, delivered, socket, renderPC>>
        /\ sending = << >>
    BY <1>0, <1>9 DEF WorkerLocks, WorkerMustWait, WorkerWaits, WorkerUnlocks, WorkerExits,
                      replyVars
  <2>. QED
    BY <2>1, OutFrame
<1>10. CASE StreamWakesUp \/ AllDone \/ UNCHANGED streamVars
  <2>1. /\ UNCHANGED <<outQueue, reply, nextOut, sending, delivered, socket>>
        /\ renderPC' \in Committing <=> renderPC \in Committing
        /\ workerPC = "send" => workerPC' = "send"
    BY <1>10 DEF StreamWakesUp, AllDone, streamVars, replyVars, workerVars, WakeReader,
                 WakePusher, WakeWorker, Committing
  <2>. QED
    BY <1>0, <2>1, OutFrame
<1>. QED
  BY <1>1, <1>2, <1>3, <1>4, <1>5, <1>6, <1>7, <1>8, <1>9, <1>10
  DEF StreamNext, PostData, ForceStop, Render, Decode, Commit, Worker

(* Whatever parts send accepts and wherever forceStop comes, the guest     *)
(* gets the replies in order, and no reply is missing from an open stream. *)
THEOREM RepliesKeepOrder == StreamSpec => []RepliesInOrder
<1>1. OutInv => RepliesInOrder
  BY DEF OutInv, OutChain, OutOpen, Chain, RepliesInOrder
<1>. QED
  BY <1>1, InitOut, NextOut, PTL DEF StreamSpec
=============================================================================
