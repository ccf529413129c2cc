-------------------------- MODULE FakeCamera3Proofs --------------------------
(***************************************************************************)
(* The capture pipeline of the fake camera, for any number of requests, of *)
(* failed waits and locks and of waits ended without a signal, any choice  *)
(* of JPEG requests and any room of the in-flight queue.                   *)
(***************************************************************************)
EXTENDS FakeCamera3, FiniteSetTheorems, TLAPS

FPCs == {"idle", "jpeg", "jpegBusy", "room", "vsync", "set", "number", "queue",
         "shutDown", "join", "closed"}
FType == [pc : FPCs, n : Nat]
SType == [pc : {"stage1", "stage3", "waiting", "completed", "exited"}, next : Nat, number : Nat,
          taken : Nat, takenNumber : Nat, exposed : Nat, exit : BOOLEAN]
RPCs == {"top", "wait", "frame", "sleep", "woken", "got", "idle", "send", "exited"}
RType == [pc : RPCs, cur : Nat, got : Nat, active : BOOLEAN, exit : BOOLEAN]
JType == [pc : {"none", "compress", "cleanUp", "ending"}, busy : BOOLEAN, waiting : BOOLEAN,
          n : Nat]
Buffers == Nat \X {"preview", "blob"}

TypeOK ==
  /\ f \in FType /\ s \in SType /\ r \in RType /\ j \in JType
  /\ jpegs \in SUBSET Nat /\ failures \in Nat /\ locked \in SUBSET Buffers
  /\ captured \in Nat /\ queue \in Seq(Nat)
  /\ shutters \in Seq(Nat) /\ results \in Seq(Nat) /\ returned \in Seq(Buffers)
  /\ split \in BOOLEAN /\ overrun \in BOOLEAN /\ undefined \in BOOLEAN

(* In which calls the framework has a frame that is not in the queue yet,  *)
(* and in which of them the sensor has been given it.                      *)
InRequest == f.pc \in {"jpeg", "jpegBusy", "room", "vsync", "set", "number", "queue"}
Handed == f.pc \in {"number", "queue"}

(* The frame of an earlier request. *)
Behind(n) == n <= f.n /\ (InRequest => n < f.n)

(* Which frames the threads hold at which of their steps. *)
ReadoutPhase ==
  /\ r.pc \in {"top", "exited"} => r.got = 0
  /\ r.pc = "wait" => r.cur = 0 /\ r.got = 0
  /\ r.pc \in {"frame", "sleep", "woken"} => r.cur # 0 /\ r.got = 0
  /\ r.pc = "woken" => captured # 0
  /\ r.pc \in {"got", "idle", "send"} =>
       r.cur # 0 /\ r.got # 0 /\ (r.got = r.cur \/ (overrun /\ r.got > r.cur))
SensorPhase ==
  /\ s.pc \in {"stage1", "exited"} => s.taken = 0
  /\ f.pc = "set" => s.next = 0

(* The requests of the readout thread and its queue are in the order of    *)
(* their numbers, and those of the results come before them.               *)
QueueOrdered ==
  /\ \A a, b \in 1 .. Len(queue) : a < b => queue[a] < queue[b]
  /\ \A a \in 1 .. Len(queue) : r.cur < queue[a] /\ Behind(queue[a])
  /\ Behind(r.cur)
ResultsOrdered ==
  /\ \A a, b \in 1 .. Len(results) : a < b => results[a] < results[b]
  /\ \A a \in 1 .. Len(results) :
       /\ 0 < results[a] /\ Behind(results[a]) /\ (r.cur # 0 => results[a] < r.cur)
       /\ \A b \in 1 .. Len(queue) : results[a] < queue[b]

(* The frames inside the sensor are in order, and they are the ones that   *)
(* the readout thread still waits for, less those it has overwritten.      *)
Before(m, n) == m # 0 /\ n # 0 => m < n
SensorOrdered ==
  /\ Before(captured, s.exposed) /\ Before(captured, s.taken) /\ Before(captured, s.next)
  /\ Before(s.exposed, s.taken) /\ Before(s.exposed, s.next) /\ Before(s.taken, s.next)
InSensor == {captured, s.exposed, s.taken, s.next} \ {0}
Awaited == (Range(queue) \cup (IF r.got = 0 THEN {r.cur} ELSE {})
                         \cup (IF Handed THEN {f.n} ELSE {})) \ {0}
InStep == InSensor \subseteq Awaited /\ (~overrun => InSensor = Awaited)

Pipeline == /\ ReadoutPhase /\ SensorPhase /\ QueueOrdered /\ ResultsOrdered
            /\ SensorOrdered /\ InStep

(* A frame is with the compressor from StartJpeg on, a compression that    *)
(* runs has not returned its buffer, and what was returned is of a result  *)
(* or from the compressor.                                                 *)
Finishing == r.pc \in {"idle", "send"}
JpegPhase ==
  /\ j.n # 0 => j.n \in Range(results) \/ (Finishing /\ j.n = r.cur)
  /\ j.pc \in {"compress", "cleanUp"} => j.busy
  /\ j.pc = "compress" => j.n # 0 /\ <<j.n, "blob">> \notin Range(returned)
ReturnedKnown == \A b \in Range(returned) :
  b[1] # 0 /\ (b[1] \in Range(results) \/ (b[2] = "blob" /\ b[1] = j.n))
ReturnedOnce == IsFiniteSet(Range(returned)) /\ Cardinality(Range(returned)) = Len(returned)

(* Which buffers may be locked. *)
LocksKnown ==
  /\ IsFiniteSet(locked)
  /\ \A b \in locked : 0 < b[1] /\ b[1] <= f.n /\ (b[2] = "blob" => b[1] \in jpegs)
  /\ Range(returned) \cap locked = {}
  /\ Finishing => /\ <<r.cur, "preview">> \notin locked
                  /\ <<r.cur, "blob">> \in locked => j.n = r.cur
  /\ <<j.n, "preview">> \notin locked
  /\ <<j.n, "blob">> \in locked => j.pc = "compress" \/ undefined

(* The frames with locked buffers that are on their way no more. *)
Orphans == {b[1] : b \in locked}
             \ (Range(queue) \cup {r.cur, j.n, IF f.pc = "idle" THEN 0 ELSE f.n})
OrphansFailed == Cardinality(Orphans) <= failures

(* Without a split request, the sensor announces a frame under its number  *)
(* before it exposes it: all frames on their way are announced except the  *)
(* ones whose exposure has not begun.                                      *)
Begun == (Range(queue) \cup {r.cur} \cup (IF Handed THEN {f.n} ELSE {})) \ {0, s.next, s.taken}
Announced == ~split =>
  /\ f.pc = "number" => s.next = f.n
  /\ s.next # 0 /\ f.pc # "number" => s.number = s.next
  /\ s.taken # 0 => s.takenNumber = s.taken
  /\ (Begun \cup Range(results)) \subseteq Range(shutters)
  /\ \A n \in Range(shutters) : /\ n <= f.n /\ (InRequest /\ ~Handed => n < f.n)
                                /\ s.taken # 0 => n < s.taken
                                /\ s.next # 0 => n < s.next
ShuttersOnce == ~split =>
  IsFiniteSet(Range(shutters)) /\ Cardinality(Range(shutters)) = Len(shutters)

(* READY is only entered when nothing waits, and left by a request. *)
ReadyDrained ==
  status = "READY" => queue = <<>> /\ (r.cur = 0 \/ r.got # 0) /\ ~InRequest

IInv == /\ TypeOK /\ Pipeline /\ JpegPhase /\ ReturnedKnown /\ ReturnedOnce
        /\ LocksKnown /\ OrphansFailed /\ Announced /\ ShuttersOnce /\ ReadyDrained

----------------------------------------------------------------------------
(* Sequences. *)
LEMMA RangeOfAppend ==
  ASSUME NEW S, NEW q \in Seq(S), NEW x \in S
  PROVE  /\ Append(q, x) \in Seq(S) /\ Len(Append(q, x)) = Len(q) + 1 /\ Len(q) \in Nat
         /\ \A a \in 1 .. Len(q) : Append(q, x)[a] = q[a]
         /\ Append(q, x)[Len(q) + 1] = x
         /\ Range(Append(q, x)) = Range(q) \cup {x}
<1>1. /\ Append(q, x) \in Seq(S) /\ Len(Append(q, x)) = Len(q) + 1 /\ Len(q) \in Nat
      /\ \A a \in 1 .. Len(q) : Append(q, x)[a] = q[a]
      /\ Append(q, x)[Len(q) + 1] = x
  OBVIOUS
<1>2. DOMAIN q = 1 .. Len(q) /\ DOMAIN Append(q, x) = 1 .. (Len(q) + 1)
  BY <1>1
<1>3. \A y : y \in Range(Append(q, x)) <=> y \in Range(q) \cup {x}
  BY <1>1, <1>2 DEF Range
<1>. QED
  BY <1>1, <1>3

LEMMA RangeOfTail ==
  ASSUME NEW S, NEW q \in Seq(S), q # <<>>
  PROVE  /\ Tail(q) \in Seq(S) /\ Len(Tail(q)) = Len(q) - 1 /\ Len(q) \in Nat /\ Len(q) > 0
         /\ \A a \in 1 .. (Len(q) - 1) : Tail(q)[a] = q[a + 1]
         /\ Head(q) = q[1] /\ Head(q) \in S
         /\ Range(q) = Range(Tail(q)) \cup {Head(q)}
<1>1. /\ Tail(q) \in Seq(S) /\ Len(Tail(q)) = Len(q) - 1 /\ Len(q) \in Nat /\ Len(q) > 0
      /\ \A a \in 1 .. (Len(q) - 1) : Tail(q)[a] = q[a + 1]
      /\ Head(q) = q[1] /\ Head(q) \in S
  OBVIOUS
<1>2. DOMAIN q = 1 .. Len(q) /\ DOMAIN Tail(q) = 1 .. (Len(q) - 1)
  BY <1>1
<1>3. \A y : y \in Range(Tail(q)) \cup {Head(q)} => y \in Range(q)
  BY <1>1, <1>2 DEF Range
<1>4. ASSUME NEW y \in Range(q) PROVE y \in Range(Tail(q)) \cup {Head(q)}
  <2>1. PICK a \in 1 .. Len(q) : y = q[a]
    BY <1>2 DEF Range
  <2>2. CASE a = 1
    BY <1>1, <2>1, <2>2
  <2>3. CASE a # 1
    <3>1. a - 1 \in 1 .. (Len(q) - 1) /\ (a - 1) + 1 = a
      BY <1>1, <2>1, <2>3
    <3>2. Tail(q)[a - 1] = y
      BY <1>1, <2>1, <3>1
    <3>. QED
      BY <1>2, <3>1, <3>2 DEF Range
  <2>. QED
    BY <2>2, <2>3
<1>. QED
  BY <1>1, <1>3, <1>4

LEMMA RangeOfSeq ==
  ASSUME NEW S, NEW q \in Seq(S)
  PROVE  /\ \A y : y \in Range(q) <=> \E a \in 1 .. Len(q) : y = q[a]
         /\ Range(q) \subseteq S /\ Len(q) \in Nat
BY DEF Range

(* A sequence without repetitions stays one when something new is added.   *)
LEMMA AppendNew ==
  ASSUME NEW S, NEW q \in Seq(S), NEW x \in S, x \notin Range(q),
         IsFiniteSet(Range(q)), Cardinality(Range(q)) = Len(q)
  PROVE  /\ IsFiniteSet(Range(Append(q, x)))
         /\ Cardinality(Range(Append(q, x))) = Len(Append(q, x))
<1>1. Range(Append(q, x)) = Range(q) \cup {x} /\ Len(Append(q, x)) = Len(q) + 1
  BY RangeOfAppend
<1>2. IsFiniteSet(Range(q) \cup {x}) /\ Cardinality(Range(q) \cup {x}) = Cardinality(Range(q)) + 1
  BY FS_AddElement
<1>. QED
  BY <1>1, <1>2

----------------------------------------------------------------------------
(* A thread goes from one step to another. *)
LEMMA FGoes ==
  ASSUME f \in FType, NEW p \in FPCs, f' = [f EXCEPT !.pc = p]
  PROVE  f' \in FType /\ f'.pc = p /\ f'.n = f.n
BY DEF FType

LEMMA RGoes ==
  ASSUME r \in RType, NEW p \in RPCs,
         r' = [r EXCEPT !.pc = p]
  PROVE  r' \in RType /\ r'.pc = p /\ r'.cur = r.cur /\ r'.got = r.got
BY DEF RType

LEMMA SGoes ==
  ASSUME s \in SType, NEW p \in {"stage1", "stage3", "waiting", "completed", "exited"},
         s' = [s EXCEPT !.pc = p]
  PROVE  /\ s' \in SType /\ s'.pc = p /\ s'.next = s.next /\ s'.number = s.number
         /\ s'.taken = s.taken /\ s'.takenNumber = s.takenNumber /\ s'.exposed = s.exposed
BY DEF SType

(* The set of orphans after a step: no larger, or larger by a failure.     *)
LEMMA OrphansStep ==
  ASSUME TypeOK, LocksKnown, OrphansFailed, failures' \in Nat, NEW x,
         \/ Orphans' \subseteq Orphans /\ failures' >= failures
         \/ Orphans' \subseteq Orphans \cup {x} /\ failures' = failures + 1
  PROVE  OrphansFailed'
<1>1. IsFiniteSet(Orphans) /\ Cardinality(Orphans) \in Nat
  <2>1. IsFiniteSet(locked)
    BY DEF LocksKnown
  <2>2. IsFiniteSet({b[1] : b \in locked})
    <3> DEFINE first == [b \in locked |-> b[1]]
    <3>1. first \in Surjection(locked, {b[1] : b \in locked})
      BY DEF Surjection
    <3>. QED
      BY <2>1, <3>1, FS_Surjection
  <2>3. Orphans \subseteq {b[1] : b \in locked}
    BY DEF Orphans
  <2>4. IsFiniteSet(Orphans)
    BY <2>2, <2>3, FS_Subset, Zenon
  <2>. QED
    BY <2>4, FS_CardinalityType
<1>2. failures \in Nat /\ Cardinality(Orphans) <= failures
  BY DEF TypeOK, OrphansFailed
<1>3. CASE Orphans' \subseteq Orphans /\ failures' >= failures
  <2>1. Cardinality(Orphans') <= Cardinality(Orphans) /\ IsFiniteSet(Orphans')
    BY <1>1, <1>3, FS_Subset, Zenon
  <2>2. Cardinality(Orphans') \in Nat
    BY <2>1, FS_CardinalityType
  <2>. QED
    BY <1>1, <1>2, <1>3, <2>1, <2>2 DEF OrphansFailed
<1>4. CASE Orphans' \subseteq Orphans \cup {x} /\ failures' = failures + 1
  <2>1. IsFiniteSet(Orphans \cup {x}) /\ Cardinality(Orphans \cup {x}) <= Cardinality(Orphans) + 1
    <3>1. IsFiniteSet(Orphans \cup {x})
          /\ Cardinality(Orphans \cup {x}) =
               IF x \in Orphans THEN Cardinality(Orphans) ELSE Cardinality(Orphans) + 1
      BY <1>1, FS_AddElement, Zenon
    <3>. QED
      BY <1>1, <3>1
  <2>2. Cardinality(Orphans') <= Cardinality(Orphans \cup {x}) /\ IsFiniteSet(Orphans')
    BY <1>4, <2>1, FS_Subset, Zenon
  <2>3. Cardinality(Orphans') \in Nat /\ Cardinality(Orphans \cup {x}) \in Nat
    BY <2>1, <2>2, FS_CardinalityType
  <2>. QED
    BY <1>1, <1>2, <1>4, <2>1, <2>2, <2>3 DEF OrphansFailed
<1>. QED
  BY <1>3, <1>4

(* A step that only changes where threads are keeps all that does not      *)
(* speak of it.                                                            *)
LEMMA QuietIInv ==
  ASSUME IInv, TypeOK',
         UNCHANGED <<captured, queue, results, returned, shutters, locked, jpegs, split, overrun>>,
         f'.n = f.n, InRequest' => InRequest, Handed' <=> Handed,
         f'.pc = "number" <=> f.pc = "number",
         s'.next = s.next, s'.number = s.number, s'.taken = s.taken,
         s'.takenNumber = s.takenNumber, s'.exposed = s.exposed,
         r'.cur = r.cur, r'.got = r.got, Finishing' => Finishing, j'.n = j.n,
         j.pc = "compress" => j'.pc = "compress" \/ undefined',
         undefined => undefined',
         ReadoutPhase', SensorPhase', JpegPhase', OrphansFailed', ReadyDrained'
  PROVE  IInv'
<1>0. /\ Pipeline /\ ReturnedKnown /\ ReturnedOnce /\ LocksKnown /\ Announced /\ ShuttersOnce
  BY DEF IInv
<1>1. \A n : Behind(n) => Behind(n)'
  BY DEF Behind
<1>2. QueueOrdered'
  BY <1>0, <1>1 DEF Pipeline, QueueOrdered
<1>3. ResultsOrdered'
  BY <1>0, <1>1 DEF Pipeline, ResultsOrdered
<1>4. SensorOrdered'
  BY <1>0 DEF Pipeline, SensorOrdered, Before
<1>5. InStep'
  BY <1>0 DEF Pipeline, InStep, InSensor, Awaited
<1>6. ReturnedKnown' /\ ReturnedOnce' /\ ShuttersOnce'
  BY <1>0 DEF ReturnedKnown, ReturnedOnce, ShuttersOnce
<1>7. LocksKnown'
  BY <1>0 DEF LocksKnown
<1>8. Announced'
  <2>1. Begun' = Begun
    BY DEF Begun
  <2>. QED
    BY <1>0, <2>1 DEF Announced
<1>. QED
  BY <1>2, <1>3, <1>4, <1>5, <1>6, <1>7, <1>8 DEF IInv, Pipeline

LEMMA InitIInv == Init => IInv
<1> SUFFICES ASSUME Init PROVE IInv
  OBVIOUS
<1>1. /\ f \in FType /\ s \in SType /\ r \in RType /\ j \in JType
  BY DEF Init, FType, FPCs, SType, RType, RPCs, JType
<1>2. TypeOK
  <2>1. queue \in Seq(Nat) /\ shutters \in Seq(Nat) /\ results \in Seq(Nat)
        /\ returned \in Seq(Buffers)
    BY DEF Init
  <2>. QED
    BY <1>1, <2>1 DEF Init, TypeOK
<1>3. /\ f.pc = "idle" /\ f.n = 0 /\ s.pc = "stage1" /\ s.next = 0 /\ s.taken = 0 /\ s.exposed = 0
      /\ r.pc = "top" /\ r.cur = 0 /\ r.got = 0 /\ j.pc = "none" /\ j.n = 0
      /\ captured = 0
  BY DEF Init
<1>4. Len(queue) = 0 /\ Len(results) = 0 /\ Range(queue) = {} /\ Range(results) = {}
      /\ Range(returned) = {} /\ Range(shutters) = {} /\ Len(returned) = 0 /\ Len(shutters) = 0
  BY DEF Init, Range
<1>5. Pipeline
  <2>1. ReadoutPhase /\ SensorPhase
    BY <1>3 DEF ReadoutPhase, SensorPhase
  <2>2. QueueOrdered
    BY <1>3, <1>4 DEF QueueOrdered, Behind, InRequest
  <2>3. ResultsOrdered
    BY <1>4 DEF ResultsOrdered
  <2>4. SensorOrdered
    BY <1>3 DEF SensorOrdered, Before
  <2>5. InStep
    BY <1>3, <1>4 DEF InStep, InSensor, Awaited, Handed
  <2>. QED
    BY <2>1, <2>2, <2>3, <2>4, <2>5 DEF Pipeline
<1>6. JpegPhase /\ ReturnedKnown
  BY <1>3, <1>4 DEF JpegPhase, ReturnedKnown
<1>7. ReturnedOnce /\ ShuttersOnce
  BY <1>4, FS_EmptySet DEF ReturnedOnce, ShuttersOnce
<1>8. locked = {} /\ failures = 0
  BY DEF Init
<1>9. LocksKnown
  BY <1>8, FS_EmptySet DEF LocksKnown
<1>10. OrphansFailed
  <2>1. Orphans = {}
    BY <1>8 DEF Orphans
  <2>. QED
    BY <1>8, <2>1, FS_EmptySet DEF OrphansFailed
<1>11. Announced
  BY <1>3, <1>4 DEF Announced, Begun, Handed
<1>12. ReadyDrained
  BY <1>3 DEF Init, ReadyDrained, InRequest
<1>. QED
  BY <1>2, <1>5, <1>6, <1>7, <1>9, <1>10, <1>11, <1>12 DEF IInv

(* The framework's thread goes on within a call, or enters closeCamera. *)
LEMMA FrameworkGoes ==
  ASSUME IInv, TypeOK', f'.n = f.n, InRequest' => InRequest, Handed' <=> Handed,
         f'.pc = "number" <=> f.pc = "number", f'.pc # "idle" \/ f.pc = "idle",
         f'.pc = "set" => f.pc = "set",
         UNCHANGED <<captured, queue, results, returned, shutters, locked, jpegs, split, overrun,
                     failures>>,
         status' # "READY" \/ status = "READY",
         s'.pc = s.pc, s'.next = s.next, s'.number = s.number, s'.taken = s.taken,
         s'.takenNumber = s.takenNumber, s'.exposed = s.exposed,
         r'.pc = r.pc, r'.cur = r.cur, r'.got = r.got, j'.n = j.n,
         j.pc = "compress" => j'.pc = "compress" \/ undefined',
         undefined => undefined', JpegPhase'
  PROVE  IInv'
<1>0. TypeOK /\ Pipeline /\ LocksKnown /\ OrphansFailed /\ ReadyDrained
  BY DEF IInv
<1>1. ReadoutPhase' /\ SensorPhase'
  BY <1>0 DEF Pipeline, ReadoutPhase, SensorPhase
<1>2. Finishing' => Finishing
  BY DEF Finishing
<1>3. ReadyDrained'
  BY <1>0 DEF ReadyDrained
<1>4. OrphansFailed'
  <2>1. Orphans' \subseteq Orphans
    <3>1. \A x : x = (IF f.pc = "idle" THEN 0 ELSE f.n) /\ f.pc # "idle"
                 => x = (IF f'.pc = "idle" THEN 0 ELSE f'.n)
      OBVIOUS
    <3>2. \A b \in locked : b[1] # 0
      BY <1>0 DEF LocksKnown
    <3>. QED
      BY <3>1, <3>2 DEF Orphans
  <2>2. failures' \in Nat /\ failures' >= failures
    BY <1>0 DEF TypeOK
  <2>. QED
    BY <1>0, <2>1, <2>2, OrphansStep
<1>. QED
  BY <1>1, <1>2, <1>3, <1>4, QuietIInv

LEMMA FrameworkQuietIInv ==
  ASSUME IInv,
         \/ \E new \in {{"preview"}, {"preview", "blob"}} : configureStreams(new)
         \/ waitForDone \/ WokenBusy \/ waitForReadout \/ closeCamera \/ SensorIsDown
         \/ ReadoutJoined \/ UNCHANGED vars
  PROVE  IInv'
<1>0. TypeOK /\ JpegPhase
  BY DEF IInv
<1>1. /\ UNCHANGED <<captured, queue, results, returned, shutters, locked, jpegs, split, overrun,
                     failures, j, undefined>>
      /\ status' # "READY" \/ status = "READY"
  BY DEF configureStreams, waitForDone, WokenBusy, waitForReadout, closeCamera, SensorIsDown,
         ReadoutJoined, vars, fVars, outVars, flags, marks
<1>2. /\ f' \in FType /\ f'.n = f.n
      /\ \/ f'.pc = f.pc
         \/ f.pc \in {"jpeg", "jpegBusy"} /\ f'.pc \in {"jpegBusy", "room"}
         \/ f.pc = "room" /\ f'.pc = "vsync"
         \/ f.pc \in {"idle", "shutDown", "join"} /\ f'.pc \in {"shutDown", "join", "closed"}
  <2>1. CASE waitForDone
    <3>1. PICK p \in {"jpegBusy", "room"} : f' = [f EXCEPT !.pc = p]
      BY <2>1 DEF waitForDone
    <3>. QED
      BY <1>0, <2>1, <3>1, FGoes DEF TypeOK, FPCs, waitForDone
  <2>2. CASE waitForReadout
    BY <1>0, <2>2, FGoes DEF TypeOK, FPCs, waitForReadout
  <2>3. CASE closeCamera
    BY <1>0, <2>3, FGoes DEF TypeOK, FPCs, closeCamera
  <2>4. CASE SensorIsDown
    BY <1>0, <2>4, FGoes DEF TypeOK, FPCs, SensorIsDown
  <2>5. CASE ReadoutJoined
    BY <1>0, <2>5, FGoes DEF TypeOK, FPCs, ReadoutJoined
  <2>6. CASE UNCHANGED vars \/ \E new \in {{"preview"}, {"preview", "blob"}} : configureStreams(new)
    BY <1>0, <2>6 DEF TypeOK, configureStreams, vars, fVars
  <2>7. CASE WokenBusy
    BY <1>0, <2>7, FGoes DEF TypeOK, FPCs, WokenBusy
  <2>. QED
    BY <2>1, <2>2, <2>3, <2>4, <2>5, <2>6, <2>7
<1>3. /\ s' \in SType /\ s'.pc = s.pc /\ s'.next = s.next /\ s'.number = s.number
      /\ s'.taken = s.taken /\ s'.takenNumber = s.takenNumber /\ s'.exposed = s.exposed
  <2>1. CASE closeCamera
    <3>1. s' = [s EXCEPT !.exit = TRUE]
      BY <2>1 DEF closeCamera
    <3>. QED
      BY <1>0, <3>1 DEF TypeOK, SType
  <2>2. CASE ~closeCamera
    <3>1. s' = s
      BY <2>2 DEF configureStreams, waitForDone, WokenBusy, waitForReadout, SensorIsDown,
                  ReadoutJoined, vars
    <3>. QED
      BY <1>0, <3>1 DEF TypeOK
  <2>. QED
    BY <2>1, <2>2
<1>4. r' \in RType /\ r'.pc = r.pc /\ r'.cur = r.cur /\ r'.got = r.got
  <2>1. CASE SensorIsDown
    <3>1. r' = [r EXCEPT !.exit = TRUE]
      BY <2>1 DEF SensorIsDown
    <3>. QED
      BY <1>0, <3>1 DEF TypeOK, RType
  <2>2. CASE ~SensorIsDown
    <3>1. r' = r
      BY <2>2 DEF configureStreams, waitForDone, WokenBusy, waitForReadout, closeCamera,
                  ReadoutJoined, vars
    <3>. QED
      BY <1>0, <3>1 DEF TypeOK
  <2>. QED
    BY <2>1, <2>2
<1>5. TypeOK'
  BY <1>0, <1>1, <1>2, <1>3, <1>4 DEF TypeOK
<1>6. /\ (InRequest' => InRequest) /\ (Handed' <=> Handed)
      /\ (f'.pc = "number" <=> f.pc = "number") /\ (f'.pc # "idle" \/ f.pc = "idle")
      /\ (f'.pc = "set" => f.pc = "set")
  BY <1>2 DEF InRequest, Handed
<1>7. JpegPhase'
  BY <1>0, <1>1, <1>4 DEF JpegPhase, Finishing
<1>. QED
  BY <1>1, <1>2, <1>3, <1>4, <1>5, <1>6, <1>7, FrameworkGoes

(* The compressor's own steps. *)
LEMMA CompressorQuietIInv ==
  ASSUME IInv, cleanUp \/ CompressorEnds
  PROVE  IInv'
<1>0. TypeOK /\ JpegPhase
  BY DEF IInv
<1>1. /\ UNCHANGED <<captured, queue, results, returned, shutters, locked, jpegs, split, overrun,
                     failures, status, s, r>>
      /\ j.pc # "compress" /\ ~undefined /\ undefined' \in BOOLEAN
  BY <1>0 DEF cleanUp, CompressorEnds, TypeOK, fVars, outVars, flags, marks, Alive, ReadoutReleased
<1>2. j' \in JType /\ j'.n = j.n /\ j'.pc \in {"ending", "none"}
  <2>1. CASE cleanUp
    <3>1. j' = [j EXCEPT !.pc = "ending", !.busy = FALSE]
      BY <2>1 DEF cleanUp
    <3>. QED
      BY <1>0, <3>1 DEF TypeOK, JType
  <2>2. CASE CompressorEnds
    <3>1. j' = [j EXCEPT !.pc = "none"]
      BY <2>2 DEF CompressorEnds
    <3>. QED
      BY <1>0, <3>1 DEF TypeOK, JType
  <2>. QED
    BY <2>1, <2>2
<1>3. f' \in FType /\ f'.n = f.n /\ (f'.pc = f.pc \/ (f.pc = "jpegBusy" /\ f'.pc = "room"))
  <2>1. CASE f' = f
    BY <1>0, <2>1 DEF TypeOK
  <2>2. CASE f' # f
    <3>1. f' = [f EXCEPT !.pc = "room"] /\ f.pc = "jpegBusy"
      BY <2>2 DEF cleanUp, CompressorEnds, fVars
    <3>. QED
      BY <1>0, <3>1, FGoes DEF TypeOK, FPCs
  <2>. QED
    BY <2>1, <2>2
<1>4. TypeOK'
  BY <1>0, <1>1, <1>2, <1>3 DEF TypeOK
<1>5. /\ (InRequest' => InRequest) /\ (Handed' <=> Handed)
      /\ (f'.pc = "number" <=> f.pc = "number") /\ (f'.pc # "idle" \/ f.pc = "idle")
      /\ (f'.pc = "set" => f.pc = "set")
  BY <1>3 DEF InRequest, Handed
<1>6. JpegPhase'
  BY <1>0, <1>1, <1>2 DEF JpegPhase, Finishing
<1>. QED
  BY <1>1, <1>2, <1>3, <1>4, <1>5, <1>6, FrameworkGoes

(* A wait is given up: the frame's buffers stay locked. *)
LEMMA GiveUpIInv ==
  ASSUME IInv, GiveUp
  PROVE  IInv'
<1>0. TypeOK /\ Pipeline /\ JpegPhase /\ LocksKnown /\ OrphansFailed /\ ReadyDrained
  BY DEF IInv
<1>1. /\ UNCHANGED <<captured, queue, results, returned, shutters, locked, jpegs, split, overrun, status,
                     undefined, s, r, j>>
      /\ failures' = failures + 1 /\ f.pc \in {"jpegBusy", "room", "vsync"}
      /\ f' = [f EXCEPT !.pc = "idle"]
  BY DEF GiveUp, outVars, flags, marks
<1>2. f' \in FType /\ f'.pc = "idle" /\ f'.n = f.n
  BY <1>0, <1>1, FGoes DEF TypeOK, FPCs
<1>3. TypeOK'
  BY <1>0, <1>1, <1>2 DEF TypeOK
<1>4. (InRequest' => InRequest) /\ (Handed' <=> Handed) /\ (f'.pc = "number" <=> f.pc = "number")
  BY <1>1, <1>2 DEF InRequest, Handed
<1>5. ReadoutPhase' /\ SensorPhase' /\ JpegPhase' /\ ReadyDrained' /\ (Finishing' => Finishing)
  BY <1>0, <1>1, <1>2, <1>4
     DEF Pipeline, ReadoutPhase, SensorPhase, JpegPhase, ReadyDrained, Finishing
<1>6. OrphansFailed'
  <2>1. Orphans' \subseteq Orphans \cup {f.n}
    BY <1>1, <1>2 DEF Orphans
  <2>2. failures' \in Nat
    BY <1>0, <1>1 DEF TypeOK
  <2>. QED
    BY <1>0, <1>1, <2>1, <2>2, OrphansStep
<1>. QED
  BY <1>1, <1>2, <1>3, <1>4, <1>5, <1>6, QuietIInv

(* The sensor or the readout thread goes on without a frame changing hands. *)
LEMMA ThreadGoes ==
  ASSUME IInv, TypeOK', f' = f, j' = j,
         UNCHANGED <<captured, queue, results, returned, shutters, locked, jpegs, split, overrun,
                     failures>>,
         s'.next = s.next, s'.number = s.number, s'.taken = s.taken,
         s'.takenNumber = s.takenNumber, s'.exposed = s.exposed,
         r'.cur = r.cur, r'.got = r.got, Finishing' <=> Finishing,
         undefined => undefined', ReadoutPhase', SensorPhase', ReadyDrained'
  PROVE  IInv'
<1>0. TypeOK /\ LocksKnown /\ OrphansFailed /\ JpegPhase
  BY DEF IInv
<1>1. JpegPhase'
  BY <1>0 DEF JpegPhase
<1>2. (InRequest' => InRequest) /\ (Handed' <=> Handed)
  BY DEF InRequest, Handed
<1>3. OrphansFailed'
  <2>1. Orphans' \subseteq Orphans
    BY DEF Orphans
  <2>2. failures' \in Nat /\ failures' >= failures
    BY <1>0 DEF TypeOK
  <2>. QED
    BY <1>0, <2>1, <2>2, OrphansStep
<1>. QED
  BY <1>1, <1>2, <1>3, QuietIInv

LEMMA ThreadQuietIInv ==
  ASSUME IInv,
         \/ WaitForReadoutThread \/ SensorWoken
         \/ WaitForRequest \/ RequestTimesOut \/ WokenForNothing \/ SameRequest
         \/ ReadoutExits \/ FrameTimesOut \/ signalReadoutIdle
         \/ waitForNewFrame /\ (SensorReleased \/ captured = 0)
         \/ WokenForFrame /\ SensorReleased
         \/ onJpegDone /\ ReadoutReleased
  PROVE  IInv'
<1> DEFINE Sensing == WaitForReadoutThread \/ SensorWoken
           Waiting == WaitForRequest \/ RequestTimesOut \/ WokenForNothing \/ SameRequest
                        \/ ReadoutExits \/ FrameTimesOut
           Reading == \/ waitForNewFrame /\ (SensorReleased \/ captured = 0)
                      \/ WokenForFrame /\ SensorReleased
           Outside == signalReadoutIdle \/ (onJpegDone /\ ReadoutReleased)
<1>a. Sensing \/ Waiting \/ Reading \/ Outside
  OBVIOUS
<1>0. TypeOK /\ Pipeline /\ ReadyDrained /\ ReadoutPhase /\ SensorPhase
  BY DEF IInv, Pipeline
<1>b. ASSUME Sensing
      PROVE  /\ UNCHANGED <<f, j, r, status, captured, queue, results, returned, shutters, locked,
                            jpegs, split, overrun, failures>>
             /\ ~undefined /\ undefined' \in BOOLEAN
             /\ \E p \in {"waiting", "completed"} : s' = [s EXCEPT !.pc = p]
  BY <1>0, <1>b DEF TypeOK, WaitForReadoutThread, SensorWoken, Alive, fVars, outVars, flags, marks
<1>c. ASSUME Waiting
      PROVE  /\ UNCHANGED <<f, j, s, status, captured, queue, results, returned, shutters, locked,
                            jpegs, split, overrun, failures>>
             /\ ~undefined /\ undefined' \in BOOLEAN
             /\ \/ r' = r
                \/ r.pc = "top" /\ r.cur = 0 /\ r' = [r EXCEPT !.pc = "wait"]
                \/ r.pc = "top" /\ r' = [r EXCEPT !.pc = "exited"]
                \/ r.pc = "top" /\ r.cur # 0 /\ r' = [r EXCEPT !.pc = "frame"]
                \/ r.pc \in {"wait", "sleep"} /\ r' = [r EXCEPT !.pc = "top"]
  <2>1. CASE WaitForRequest
    BY <1>0, <2>1 DEF WaitForRequest, Alive, fVars, outVars, flags, marks, TypeOK
  <2>2. CASE RequestTimesOut \/ FrameTimesOut
    BY <1>0, <2>2 DEF RequestTimesOut, FrameTimesOut, Alive, fVars, outVars, flags, marks, TypeOK
  <2>3. CASE WokenForNothing
    BY <1>0, <2>3 DEF WokenForNothing, Alive, fVars, outVars, flags, marks, TypeOK
  <2>4. CASE SameRequest
    BY <1>0, <2>4 DEF SameRequest, Alive, fVars, outVars, flags, marks, TypeOK
  <2>5. CASE ReadoutExits
    BY <1>0, <2>5 DEF ReadoutExits, Alive, fVars, outVars, flags, marks, TypeOK
  <2>. QED
    BY <1>c, <2>1, <2>2, <2>3, <2>4, <2>5
<1>d. ASSUME Reading
      PROVE  /\ UNCHANGED <<f, j, s, status, captured, queue, results, returned, shutters, locked,
                            jpegs, split, overrun, failures>>
             /\ ~undefined /\ undefined' \in BOOLEAN
             /\ r' = r \/ (r.pc = "frame" /\ r' = [r EXCEPT !.pc = "sleep"])
  BY <1>0, <1>d DEF waitForNewFrame, WokenForFrame, Alive, fVars, outVars, flags, marks, TypeOK
<1>e. ASSUME Outside
      PROVE  /\ UNCHANGED <<f, j, s, captured, queue, results, returned, shutters, locked,
                            jpegs, split, overrun, failures>>
             /\ ~undefined /\ undefined' \in BOOLEAN
             /\ \/ r' = r /\ status' = status
                \/ signalReadoutIdle /\ r.pc = "idle" /\ r' = [r EXCEPT !.pc = "send"]
  BY <1>0, <1>e DEF signalReadoutIdle, onJpegDone, Alive, fVars, outVars, flags, marks, TypeOK
<1> HIDE DEF Sensing, Waiting, Reading, Outside
<1>1. UNCHANGED <<f, j, captured, queue, results, returned, shutters, locked, jpegs, split,
                  overrun, failures>>
  BY <1>a, <1>b, <1>c, <1>d, <1>e
<1>2. ~undefined /\ undefined' \in BOOLEAN
  BY <1>a, <1>b, <1>c, <1>d, <1>e
<1>3. /\ s' \in SType /\ s'.next = s.next /\ s'.number = s.number /\ s'.taken = s.taken
      /\ s'.takenNumber = s.takenNumber /\ s'.exposed = s.exposed
      /\ s'.pc = s.pc \/ s'.pc \in {"waiting", "completed"}
  <2>1. CASE Sensing
    <3>1. PICK p \in {"waiting", "completed"} : s' = [s EXCEPT !.pc = p]
      BY <1>b, <2>1
    <3>. QED
      BY <1>0, <3>1, SGoes DEF TypeOK
  <2>2. CASE Waiting \/ Reading \/ Outside
    <3>1. s' = s
      BY <1>c, <1>d, <1>e, <2>2
    <3>. QED
      BY <1>0, <3>1 DEF TypeOK
  <2>. QED
    BY <1>a, <2>1, <2>2
<1>4. /\ r' \in RType /\ r'.cur = r.cur /\ r'.got = r.got
      /\ \/ r'.pc = r.pc
         \/ r.pc = "top" /\ r.cur = 0 /\ r'.pc = "wait"
         \/ r.pc = "top" /\ r'.pc = "exited"
         \/ r.pc = "top" /\ r.cur # 0 /\ r'.pc = "frame"
         \/ r.pc \in {"wait", "sleep"} /\ r'.pc = "top"
         \/ r.pc = "frame" /\ r'.pc = "sleep"
         \/ r.pc = "idle" /\ r'.pc = "send"
  <2>1. CASE r' = r
    BY <1>0, <2>1 DEF TypeOK
  <2>2. CASE Waiting
    BY <1>0, <1>c, <2>2, RGoes DEF TypeOK, RPCs
  <2>3. CASE Reading
    BY <1>0, <1>d, <2>3, RGoes DEF TypeOK, RPCs
  <2>4. CASE Outside
    BY <1>0, <1>e, <2>4, RGoes DEF TypeOK, RPCs
  <2>5. Sensing => r' = r
    BY <1>b
  <2>. QED
    BY <1>a, <2>1, <2>2, <2>3, <2>4, <2>5
<1>5. TypeOK'
  BY <1>0, <1>1, <1>2, <1>3, <1>4 DEF TypeOK
<1>6. ReadoutPhase' /\ (Finishing' <=> Finishing)
  BY <1>0, <1>1, <1>4 DEF ReadoutPhase, Finishing
<1>7. SensorPhase'
  BY <1>0, <1>1, <1>3 DEF SensorPhase
<1>8. ReadyDrained'
  <2>1. CASE status' = status
    BY <1>0, <1>1, <1>4, <2>1 DEF ReadyDrained, InRequest
  <2>2. CASE status' # status
    <3>1. signalReadoutIdle
      BY <1>a, <1>b, <1>c, <1>d, <1>e, <2>2
    <3>2. queue = <<>> /\ r.pc = "idle" /\ ~HoldsLock
      BY <2>2, <3>1 DEF signalReadoutIdle
    <3>3. r'.got # 0 /\ ~InRequest'
      BY <1>0, <1>1, <1>4, <3>2 DEF ReadoutPhase, HoldsLock, InRequest
    <3>. QED
      BY <1>1, <3>2, <3>3 DEF ReadyDrained
  <2>. QED
    BY <2>1, <2>2
<1>. QED
  BY <1>1, <1>2, <1>3, <1>4, <1>5, <1>6, <1>7, <1>8, ThreadGoes

----------------------------------------------------------------------------
(* A request arrives, whether its buffers can be locked or not: no frame   *)
(* the threads know of has its number.                                     *)
LEMMA RequestIInv ==
  ASSUME IInv, NEW jpeg \in BOOLEAN, processCaptureRequest(jpeg) \/ LockFails(jpeg)
  PROVE  IInv'
<1>0. /\ TypeOK /\ Pipeline /\ JpegPhase /\ ReturnedKnown /\ ReturnedOnce /\ LocksKnown
      /\ OrphansFailed /\ Announced /\ ShuttersOnce
  BY DEF IInv
<1>1. /\ UNCHANGED <<s, captured, queue, r, j, shutters, results, returned, split, overrun, undefined>>
      /\ f.pc = "idle" /\ status' = "ACTIVE"
  BY DEF processCaptureRequest, LockFails, outVars, flags, marks
<1>2. f.n \in Nat
  BY <1>0 DEF TypeOK, FType
<1>3. /\ f' \in FType /\ f'.n = f.n + 1 /\ f'.pc \in {"jpeg", "room", "idle"}
      /\ f'.pc = "idle" => LockFails(jpeg)
  <2>1. CASE processCaptureRequest(jpeg)
    <3>1. PICK p \in {"jpeg", "room"} : f' = [pc |-> p, n |-> f.n + 1]
      BY <2>1 DEF processCaptureRequest
    <3>. QED
      BY <1>2, <3>1 DEF FType, FPCs
  <2>2. CASE LockFails(jpeg)
    <3>1. f' = [f EXCEPT !.n = @ + 1] /\ f \in FType
      BY <1>0, <2>2 DEF LockFails, TypeOK
    <3>. QED
      BY <1>1, <1>2, <2>2, <3>1 DEF FType
  <2>. QED
    BY <2>1, <2>2
<1>4. /\ failures' \in Nat /\ (f'.pc = "idle" => failures' = failures + 1) /\ failures' >= failures
  BY <1>0, <1>3 DEF TypeOK, processCaptureRequest, LockFails
<1>5. /\ jpegs \subseteq jpegs' /\ jpegs' \subseteq Nat
      /\ locked' \subseteq locked \cup {<<f.n + 1, "preview">>, <<f.n + 1, "blob">>}
      /\ <<f.n + 1, "blob">> \in locked' => f.n + 1 \in jpegs' \/ <<f.n + 1, "blob">> \in locked
  <2>1. CASE processCaptureRequest(jpeg)
    <3>1. /\ jpegs' = IF jpeg THEN jpegs \cup {f.n + 1} ELSE jpegs
          /\ locked' = locked \cup {<<f.n + 1, "preview">>}
                              \cup (IF jpeg THEN {<<f.n + 1, "blob">>} ELSE {})
      BY <2>1 DEF processCaptureRequest
    <3>2. jpegs \subseteq Nat /\ f.n + 1 \in Nat
      BY <1>0, <1>2 DEF TypeOK
    <3>3. CASE jpeg
      <4>1. jpegs' = jpegs \cup {f.n + 1}
            /\ locked' = locked \cup {<<f.n + 1, "preview">>} \cup {<<f.n + 1, "blob">>}
        BY <3>1, <3>3
      <4>. QED
        BY <3>2, <4>1
    <3>4. CASE ~jpeg
      <4>1. jpegs' = jpegs /\ locked' = locked \cup {<<f.n + 1, "preview">>}
        BY <3>1, <3>4
      <4>2. <<f.n + 1, "blob">> # <<f.n + 1, "preview">>
        OBVIOUS
      <4>. QED
        BY <3>2, <4>1, <4>2
    <3>. QED
      BY <3>3, <3>4
  <2>2. CASE LockFails(jpeg)
    BY <1>0, <2>2 DEF LockFails, TypeOK
  <2>. QED
    BY <2>1, <2>2
<1>6. \A b \in locked : b \in Buffers /\ b[1] # f.n + 1 /\ b[1] \in Nat
  BY <1>0, <1>2 DEF LocksKnown, TypeOK, Buffers
<1>7. <<f.n + 1, "blob">> \in locked' => f.n + 1 \in jpegs'
  BY <1>5, <1>6
<1>8. /\ <<f.n + 1, "blob">> \in Buffers /\ <<f.n + 1, "preview">> \in Buffers
      /\ f.n + 1 \in Nat /\ f.n + 1 > 0
  BY <1>2 DEF Buffers
<1>9. TypeOK'
  <2>1. locked' \in SUBSET Buffers
    BY <1>5, <1>6, <1>8
  <2>. QED
    BY <1>0, <1>1, <1>3, <1>4, <1>5, <2>1 DEF TypeOK
<1>10. \A n \in Nat : Behind(n) => Behind(n)'
  BY <1>2, <1>3 DEF Behind
<1>11. (~Handed) /\ (~Handed') /\ (~InRequest)
  BY <1>1, <1>3 DEF Handed, InRequest
<1>12. Pipeline'
  <2>1. ReadoutPhase' /\ SensorPhase' /\ SensorOrdered'
    BY <1>0, <1>1, <1>3 DEF Pipeline, ReadoutPhase, SensorPhase, SensorOrdered, Before
  <2>2. r.cur \in Nat /\ (\A a \in 1 .. Len(queue) : queue[a] \in Nat)
        /\ \A a \in 1 .. Len(results) : results[a] \in Nat
    BY <1>0, SMTT(30) DEF TypeOK, RType
  <2>3. QueueOrdered'
    BY <1>0, <1>1, <1>10, <2>2 DEF Pipeline, QueueOrdered
  <2>4. ResultsOrdered'
    BY <1>0, <1>1, <1>10, <2>2 DEF Pipeline, ResultsOrdered
  <2>5. InStep'
    BY <1>0, <1>1, <1>11 DEF Pipeline, InStep, InSensor, Awaited
  <2>. QED
    BY <2>1, <2>3, <2>4, <2>5 DEF Pipeline
<1>13. JpegPhase' /\ ReturnedKnown' /\ ReturnedOnce' /\ ShuttersOnce'
  BY <1>0, <1>1 DEF JpegPhase, ReturnedKnown, ReturnedOnce, ShuttersOnce, Finishing
<1>14. /\ j.n <= f.n /\ r.cur <= f.n /\ j.n \in Nat /\ r.cur \in Nat
       /\ \A a \in Range(results) : a \in Nat /\ a <= f.n
  <2>1. r.cur <= f.n /\ j.n \in Nat /\ r.cur \in Nat
    BY <1>0 DEF Pipeline, QueueOrdered, Behind, TypeOK, RType, JType
  <2>2. results \in Seq(Nat)
    BY <1>0 DEF TypeOK
  <2>3. \A a \in 1 .. Len(results) : results[a] \in Nat /\ results[a] <= f.n
    BY <1>0, <2>2 DEF Pipeline, ResultsOrdered, Behind
  <2>4. \A a \in Range(results) : a \in Nat /\ a <= f.n
    BY <2>2, <2>3, RangeOfSeq
  <2>. QED
    BY <1>0, <1>2, <2>1, <2>4 DEF JpegPhase
<1>15. LocksKnown'
  <2>1. IsFiniteSet(locked')
    <3>1. IsFiniteSet(locked \cup {<<f.n + 1, "preview">>})
      BY <1>0, FS_AddElement DEF LocksKnown
    <3>2. IsFiniteSet((locked \cup {<<f.n + 1, "preview">>}) \cup {<<f.n + 1, "blob">>})
      BY <3>1, FS_AddElement
    <3>3. locked' \subseteq (locked \cup {<<f.n + 1, "preview">>}) \cup {<<f.n + 1, "blob">>}
      BY <1>5
    <3>. QED
      BY <3>2, <3>3, FS_Subset, Zenon
  <2>2. \A b \in locked' : 0 < b[1] /\ b[1] <= f'.n /\ (b[2] = "blob" => b[1] \in jpegs')
    <3>1. SUFFICES ASSUME NEW b \in locked'
                   PROVE  0 < b[1] /\ b[1] <= f'.n /\ (b[2] = "blob" => b[1] \in jpegs')
      OBVIOUS
    <3>2. CASE b \in locked
      BY <1>0, <1>2, <1>3, <1>5, <1>6, <3>2 DEF LocksKnown
    <3>3. CASE b \notin locked
      BY <1>2, <1>3, <1>5, <1>7, <3>1, <3>3
    <3>. QED
      BY <3>2, <3>3
  <2>3. \A b \in Range(returned) : b[1] \in Nat /\ b[1] <= f.n
    BY <1>0, <1>14 DEF ReturnedKnown
  <2>4. \A n \in Nat : \A x : n <= f.n /\ <<n, x>> \in locked' => <<n, x>> \in locked
    BY <1>2, <1>5
  <2>5. Range(returned)' \cap locked' = {}
    <3>1. \A b \in Range(returned) : b # <<f.n + 1, "preview">> /\ b # <<f.n + 1, "blob">>
      BY <1>2, <2>3
    <3>. QED
      BY <1>0, <1>1, <1>5, <3>1 DEF LocksKnown
  <2>. QED
    BY <1>0, <1>1, <1>14, <2>1, <2>2, <2>4, <2>5 DEF LocksKnown, Finishing
<1>16. OrphansFailed'
  <2>1. Orphans' \subseteq Orphans \cup {f.n + 1}
    <3>1. \A b \in locked' : b \in locked \/ b[1] = f.n + 1
      BY <1>5
    <3>2. \A b \in locked : b[1] # 0
      BY <1>0 DEF LocksKnown
    <3>3. SUFFICES ASSUME NEW x \in Orphans', x # f.n + 1 PROVE x \in Orphans
      OBVIOUS
    <3>4. PICK b \in locked' : x = b[1]
      BY <3>3 DEF Orphans
    <3>5. b \in locked /\ x # 0
      BY <3>1, <3>2, <3>3, <3>4
    <3>6. x \notin Range(queue) /\ x # r.cur /\ x # j.n
      BY <1>1, <3>3 DEF Orphans
    <3>. QED
      BY <1>1, <3>4, <3>5, <3>6 DEF Orphans
  <2>2. f'.pc # "idle" => f.n + 1 \notin Orphans'
    BY <1>3 DEF Orphans
  <2>. QED
    BY <1>0, <1>4, <2>1, <2>2, OrphansStep
<1>17. Announced'
  <2>1. shutters \in Seq(Nat)
    BY <1>0 DEF TypeOK
  <2>2. \A n \in Range(shutters) : n \in Nat
    BY <2>1, RangeOfSeq
  <2>3. \A n \in Range(shutters) : n <= f.n => n <= f'.n /\ n < f'.n
    BY <1>2, <1>3, <2>2
  <2>. QED
    BY <1>0, <1>1, <1>3, <1>11, <2>3 DEF Announced, Begun
<1>18. ReadyDrained'
  BY <1>1 DEF ReadyDrained
<1>. QED
  BY <1>9, <1>12, <1>13, <1>15, <1>16, <1>17, <1>18 DEF IInv

(* Every frame inside the sensor is one of a request. *)
LEMMA SensorBehind ==
  ASSUME TypeOK, Pipeline, NEW x \in InSensor
  PROVE  x \in Nat /\ x <= f.n /\ (InRequest /\ ~Handed => x < f.n)
<1>1. x \in Awaited
  BY DEF Pipeline, InStep
<1>2. f.n \in Nat /\ r.cur \in Nat /\ queue \in Seq(Nat)
  BY DEF TypeOK, FType, RType
<1>3. \A y \in Range(queue) : y \in Nat /\ Behind(y)
  BY <1>2, RangeOfSeq DEF Pipeline, QueueOrdered
<1>4. Behind(r.cur)
  BY DEF Pipeline, QueueOrdered
<1>. QED
  BY <1>1, <1>2, <1>3, <1>4 DEF Awaited, Behind

LEMMA SetBuffersIInv ==
  ASSUME IInv, setDestinationBuffers
  PROVE  IInv'
<1>0. /\ TypeOK /\ Pipeline /\ JpegPhase /\ ReturnedKnown /\ ReturnedOnce /\ LocksKnown
      /\ OrphansFailed /\ Announced /\ ShuttersOnce /\ ReadyDrained
  BY DEF IInv
<1>1. /\ UNCHANGED <<status, jpegs, failures, locked, captured, queue, r, j, shutters, results,
                     returned, split, overrun, undefined>>
      /\ f.pc = "set" /\ s' = [s EXCEPT !.next = f.n] /\ f' = [f EXCEPT !.pc = "number"]
  BY DEF setDestinationBuffers, outVars, flags, marks
<1>2. f' \in FType /\ f'.pc = "number" /\ f'.n = f.n /\ f.n \in Nat
  BY <1>0, <1>1, FGoes DEF TypeOK, FPCs, FType
<1>3. /\ s' \in SType /\ s'.pc = s.pc /\ s'.next = f.n /\ s'.number = s.number
      /\ s'.taken = s.taken /\ s'.takenNumber = s.takenNumber /\ s'.exposed = s.exposed
  BY <1>0, <1>1, <1>2 DEF TypeOK, SType
<1>4. TypeOK'
  BY <1>0, <1>1, <1>2, <1>3 DEF TypeOK
<1>5. InRequest /\ InRequest' /\ ~Handed /\ Handed' /\ s.next = 0
  BY <1>0, <1>1, <1>2 DEF InRequest, Handed, Pipeline, SensorPhase
<1>6. \A n : Behind(n) => Behind(n)'
  BY <1>2, <1>5 DEF Behind
<1>7. \A x \in {captured, s.exposed, s.taken} : x # 0 => x < f.n
  BY <1>0, <1>5, SensorBehind DEF InSensor
<1>8. f.n # 0
  BY <1>0, <1>2, <1>5 DEF Pipeline, QueueOrdered, Behind, TypeOK, RType
<1>9. Pipeline'
  <2>1. ReadoutPhase' /\ SensorPhase'
    BY <1>0, <1>1, <1>2, <1>3 DEF Pipeline, ReadoutPhase, SensorPhase
  <2>2. SensorOrdered'
    BY <1>0, <1>1, <1>3, <1>7 DEF Pipeline, SensorOrdered, Before
  <2>3. QueueOrdered' /\ ResultsOrdered'
    BY <1>0, <1>1, <1>6 DEF Pipeline, QueueOrdered, ResultsOrdered
  <2>4. InStep'
    <3>1. InSensor' = InSensor \cup {f.n}
      BY <1>1, <1>3, <1>5, <1>8 DEF InSensor
    <3>2. Awaited' = Awaited \cup {f.n}
      BY <1>1, <1>2, <1>5, <1>8 DEF Awaited
    <3>. QED
      BY <1>0, <1>1, <3>1, <3>2 DEF Pipeline, InStep
  <2>. QED
    BY <2>1, <2>2, <2>3, <2>4 DEF Pipeline
<1>10. JpegPhase' /\ ReturnedKnown' /\ ReturnedOnce' /\ ShuttersOnce'
  BY <1>0, <1>1 DEF JpegPhase, ReturnedKnown, ReturnedOnce, ShuttersOnce, Finishing
<1>11. LocksKnown'
  BY <1>0, <1>1, <1>2 DEF LocksKnown, Finishing
<1>12. OrphansFailed'
  BY <1>0, <1>1, <1>2 DEF OrphansFailed, Orphans
<1>13. Announced'
  <2>1. Begun' \subseteq Begun
    BY <1>1, <1>2, <1>3, <1>5 DEF Begun
  <2>. QED
    BY <1>0, <1>1, <1>2, <1>3, <1>5, <2>1 DEF Announced
<1>14. ReadyDrained'
  BY <1>0, <1>1, <1>5 DEF ReadyDrained
<1>. QED
  BY <1>4, <1>9, <1>10, <1>11, <1>12, <1>13, <1>14 DEF IInv

LEMMA SetNumberIInv ==
  ASSUME IInv, setFrameNumber
  PROVE  IInv'
<1>0. /\ TypeOK /\ Pipeline /\ JpegPhase /\ ReturnedKnown /\ ReturnedOnce /\ LocksKnown
      /\ OrphansFailed /\ Announced /\ ShuttersOnce /\ ReadyDrained
  BY DEF IInv
<1>1. /\ UNCHANGED <<status, jpegs, failures, locked, captured, queue, r, j, shutters, results,
                     returned, split, overrun, undefined>>
      /\ f.pc = "number" /\ s' = [s EXCEPT !.number = f.n] /\ f' = [f EXCEPT !.pc = "queue"]
  BY DEF setFrameNumber, outVars, flags, marks
<1>2. f' \in FType /\ f'.pc = "queue" /\ f'.n = f.n /\ f.n \in Nat
  BY <1>0, <1>1, FGoes DEF TypeOK, FPCs, FType
<1>3. /\ s' \in SType /\ s'.pc = s.pc /\ s'.next = s.next /\ s'.number = f.n
      /\ s'.taken = s.taken /\ s'.takenNumber = s.takenNumber /\ s'.exposed = s.exposed
  BY <1>0, <1>1, <1>2 DEF TypeOK, SType
<1>4. TypeOK'
  BY <1>0, <1>1, <1>2, <1>3 DEF TypeOK
<1>5. InRequest /\ InRequest' /\ Handed /\ Handed'
  BY <1>1, <1>2 DEF InRequest, Handed
<1>6. \A n : Behind(n) => Behind(n)'
  BY <1>2, <1>5 DEF Behind
<1>7. Pipeline'
  <2>1. ReadoutPhase' /\ SensorPhase' /\ SensorOrdered'
    BY <1>0, <1>1, <1>2, <1>3 DEF Pipeline, ReadoutPhase, SensorPhase, SensorOrdered, Before
  <2>2. QueueOrdered' /\ ResultsOrdered'
    BY <1>0, <1>1, <1>6 DEF Pipeline, QueueOrdered, ResultsOrdered
  <2>3. InStep'
    BY <1>0, <1>1, <1>2, <1>3, <1>5 DEF Pipeline, InStep, InSensor, Awaited
  <2>. QED
    BY <2>1, <2>2, <2>3 DEF Pipeline
<1>8. JpegPhase' /\ ReturnedKnown' /\ ReturnedOnce' /\ ShuttersOnce'
  BY <1>0, <1>1 DEF JpegPhase, ReturnedKnown, ReturnedOnce, ShuttersOnce, Finishing
<1>9. LocksKnown'
  BY <1>0, <1>1, <1>2 DEF LocksKnown, Finishing
<1>10. OrphansFailed'
  BY <1>0, <1>1, <1>2 DEF OrphansFailed, Orphans
<1>11. Announced'
  <2>1. Begun' = Begun
    BY <1>1, <1>2, <1>3, <1>5 DEF Begun
  <2>. QED
    BY <1>0, <1>1, <1>2, <1>3, <1>5, <2>1 DEF Announced
<1>12. ReadyDrained'
  BY <1>0, <1>1, <1>5 DEF ReadyDrained
<1>. QED
  BY <1>4, <1>7, <1>8, <1>9, <1>10, <1>11, <1>12 DEF IInv

LEMMA QueueRequestIInv ==
  ASSUME IInv, queueCaptureRequest
  PROVE  IInv'
<1>0. /\ TypeOK /\ Pipeline /\ JpegPhase /\ ReturnedKnown /\ ReturnedOnce /\ LocksKnown
      /\ OrphansFailed /\ Announced /\ ShuttersOnce /\ ReadyDrained
  BY DEF IInv
<1>1. /\ UNCHANGED <<status, jpegs, failures, locked, captured, s, r, j, shutters, results,
                     returned, split, overrun, undefined>>
      /\ f.pc = "queue" /\ queue' = Append(queue, f.n) /\ f' = [f EXCEPT !.pc = "idle"]
  BY DEF queueCaptureRequest, outVars, flags, marks
<1>2. f' \in FType /\ f'.pc = "idle" /\ f'.n = f.n /\ f.n \in Nat
  BY <1>0, <1>1, FGoes DEF TypeOK, FPCs, FType
<1>3. /\ queue' \in Seq(Nat) /\ Len(queue') = Len(queue) + 1 /\ Len(queue) \in Nat
      /\ \A a \in 1 .. Len(queue) : queue'[a] = queue[a]
      /\ queue'[Len(queue) + 1] = f.n
      /\ Range(queue') = Range(queue) \cup {f.n}
  <2>1. queue \in Seq(Nat)
    BY <1>0 DEF TypeOK
  <2>. QED
    BY <1>1, <1>2, <2>1, RangeOfAppend
<1>4. TypeOK'
  BY <1>0, <1>1, <1>2, <1>3 DEF TypeOK
<1>5. InRequest /\ ~InRequest' /\ Handed /\ ~Handed'
  BY <1>1, <1>2 DEF InRequest, Handed
<1>6. \A n : Behind(n) => Behind(n)' /\ n < f.n
  BY <1>2, <1>5 DEF Behind
<1>7. Behind(f.n)'
  BY <1>2, <1>5 DEF Behind
<1>8. Pipeline'
  <2>1. ReadoutPhase' /\ SensorPhase' /\ SensorOrdered'
    BY <1>0, <1>1, <1>2 DEF Pipeline, ReadoutPhase, SensorPhase, SensorOrdered, Before
  <2>2. \A a \in 1 .. Len(queue') : a \in 1 .. Len(queue) \/ a = Len(queue) + 1
    BY <1>3
  <2>3. \A a \in 1 .. Len(queue) : queue[a] < f.n /\ r.cur < queue[a]
    BY <1>0, <1>6 DEF Pipeline, QueueOrdered
  <2>4. r.cur < f.n /\ Behind(r.cur)'
    BY <1>0, <1>1, <1>6 DEF Pipeline, QueueOrdered
  <2>5. \A a, b \in 1 .. Len(queue') : a < b => queue'[a] < queue'[b]
    <3>1. SUFFICES ASSUME NEW a \in 1 .. Len(queue'), NEW b \in 1 .. Len(queue'), a < b
                   PROVE  queue'[a] < queue'[b]
      OBVIOUS
    <3>2. a \in 1 .. Len(queue)
      BY <1>3, <3>1
    <3>3. CASE b \in 1 .. Len(queue)
      BY <1>0, <1>3, <3>1, <3>2, <3>3 DEF Pipeline, QueueOrdered
    <3>4. CASE b = Len(queue) + 1
      BY <1>3, <2>3, <3>2, <3>4
    <3>. QED
      BY <2>2, <3>3, <3>4
  <2>6. \A a \in 1 .. Len(queue') : r'.cur < queue'[a] /\ Behind(queue[a])'
    <3>1. SUFFICES ASSUME NEW a \in 1 .. Len(queue') PROVE r.cur < queue'[a] /\ Behind(queue[a])'
      BY <1>1
    <3>2. CASE a \in 1 .. Len(queue)
      <4>1. PICK x : x = queue[a]
        OBVIOUS
      <4>2. Behind(x) /\ r.cur < x /\ queue'[a] = x
        BY <1>0, <1>3, <3>2, <4>1 DEF Pipeline, QueueOrdered
      <4>3. Behind(x)'
        BY <1>6, <4>2
      <4>. QED
        BY <4>2, <4>3 DEF Behind
    <3>3. CASE a = Len(queue) + 1
      <4>1. queue'[a] = f.n /\ queue'[a] = f'.n
        BY <1>2, <1>3, <3>3
      <4>. QED
        BY <1>7, <2>4, <4>1 DEF Behind
    <3>. QED
      BY <2>2, <3>2, <3>3
  <2>7. QueueOrdered'
    BY <2>4, <2>5, <2>6 DEF QueueOrdered
  <2>8. ResultsOrdered'
    <3>1. SUFFICES ASSUME NEW a \in 1 .. Len(results)
                   PROVE  /\ 0 < results[a] /\ Behind(results[a])'
                          /\ (r.cur # 0 => results[a] < r.cur)
                          /\ \A b \in 1 .. Len(queue') : results[a] < queue'[b]
      BY <1>0, <1>1 DEF Pipeline, ResultsOrdered
    <3>2. PICK x : x = results[a]
      OBVIOUS
    <3>3. /\ 0 < x /\ Behind(x) /\ (r.cur # 0 => x < r.cur)
          /\ \A b \in 1 .. Len(queue) : x < queue[b]
      BY <1>0, <3>2 DEF Pipeline, ResultsOrdered
    <3>4. Behind(x)' /\ x < f.n /\ results' = results
      BY <1>1, <1>6, <3>3
    <3>. QED
      BY <1>3, <2>2, <3>2, <3>3, <3>4 DEF Behind
  <2>9. InStep'
    BY <1>0, <1>1, <1>3, <1>5 DEF Pipeline, InStep, InSensor, Awaited
  <2>. QED
    BY <2>1, <2>7, <2>8, <2>9 DEF Pipeline
<1>9. JpegPhase' /\ ReturnedKnown' /\ ReturnedOnce' /\ ShuttersOnce'
  BY <1>0, <1>1 DEF JpegPhase, ReturnedKnown, ReturnedOnce, ShuttersOnce, Finishing
<1>10. LocksKnown'
  BY <1>0, <1>1, <1>2 DEF LocksKnown, Finishing
<1>11. OrphansFailed'
  <2>1. Orphans' \subseteq Orphans
    BY <1>1, <1>2, <1>3 DEF Orphans
  <2>2. failures' \in Nat /\ failures' >= failures
    BY <1>0, <1>1 DEF TypeOK
  <2>. QED
    BY <1>0, <2>1, <2>2, OrphansStep
<1>12. Announced'
  <2>1. Begun' = Begun
    BY <1>1, <1>2, <1>3, <1>5 DEF Begun
  <2>. QED
    BY <1>0, <1>1, <1>2, <1>5, <2>1 DEF Announced
<1>13. ReadyDrained'
  BY <1>0, <1>1, <1>5 DEF ReadyDrained
<1>. QED
  BY <1>4, <1>8, <1>9, <1>10, <1>11, <1>12, <1>13 DEF IInv

----------------------------------------------------------------------------
(* The sensor reads its controls, at the end of a vertical blanking. *)
LEMMA ReadControlsIInv ==
  ASSUME IInv, ReadControls
  PROVE  IInv'
<1>0. /\ TypeOK /\ Pipeline /\ JpegPhase /\ ReturnedKnown /\ ReturnedOnce /\ LocksKnown
      /\ OrphansFailed /\ Announced /\ ShuttersOnce /\ ReadyDrained
  BY DEF IInv
<1>1. /\ UNCHANGED <<status, jpegs, failures, locked, captured, queue, r, j, shutters, results,
                     returned, overrun, undefined>>
      /\ s.pc = "stage1" /\ s.taken = 0 /\ s.exit \in BOOLEAN /\ split \in BOOLEAN
  BY <1>0 DEF ReadControls, outVars, flags, marks, Pipeline, SensorPhase, TypeOK, SType
<1>2. CASE s.exit
  <2>1. s' = [s EXCEPT !.pc = "exited"] /\ f' = f
    BY <1>2 DEF ReadControls
  <2>2. split' = split
    BY <1>1, <1>2 DEF ReadControls
  <2>3. /\ s' \in SType /\ s'.pc = "exited" /\ s'.next = s.next /\ s'.number = s.number
        /\ s'.taken = s.taken /\ s'.takenNumber = s.takenNumber /\ s'.exposed = s.exposed
    BY <1>0, <2>1, SGoes DEF TypeOK
  <2>4. TypeOK'
    BY <1>0, <1>1, <2>1, <2>2, <2>3 DEF TypeOK
  <2>5. ReadoutPhase' /\ SensorPhase' /\ ReadyDrained'
    BY <1>0, <1>1, <2>1, <2>3 DEF Pipeline, ReadoutPhase, SensorPhase, ReadyDrained, InRequest
  <2>6. Finishing' <=> Finishing
    BY <1>1 DEF Finishing
  <2>. QED
    BY <1>1, <2>1, <2>2, <2>3, <2>4, <2>5, <2>6, ThreadGoes
<1>3. CASE ~s.exit
  <2>1. s' = [s EXCEPT !.pc = "stage3", !.taken = s.next, !.takenNumber = s.number, !.next = 0]
    BY <1>3 DEF ReadControls
  <2>2. /\ s' \in SType /\ s'.pc = "stage3" /\ s'.next = 0 /\ s'.number = s.number
        /\ s'.taken = s.next /\ s'.takenNumber = s.number /\ s'.exposed = s.exposed
    BY <1>0, <2>1 DEF TypeOK, SType
  <2>3. /\ f' \in FType /\ f'.n = f.n
        /\ f'.pc = f.pc \/ (f.pc = "vsync" /\ f'.pc = "set")
    <3>1. f' = f \/ (f.pc = "vsync" /\ f' = [f EXCEPT !.pc = "set"])
      BY DEF ReadControls
    <3>. QED
      BY <1>0, <3>1, FGoes DEF TypeOK, FPCs
  <2>4. split' \in BOOLEAN /\ (~split' => ~split /\ f.pc # "number")
    BY <1>1, <1>3 DEF ReadControls
  <2>5. TypeOK'
    BY <1>0, <1>1, <2>2, <2>3, <2>4 DEF TypeOK
  <2>6. (InRequest' <=> InRequest) /\ (Handed' <=> Handed)
    BY <2>3 DEF InRequest, Handed
  <2>7. \A n : Behind(n) => Behind(n)'
    BY <2>3, <2>6 DEF Behind
  <2>8. Pipeline'
    <3>1. ReadoutPhase' /\ SensorPhase'
      BY <1>0, <1>1, <2>2, <2>3 DEF Pipeline, ReadoutPhase, SensorPhase
    <3>2. SensorOrdered'
      BY <1>0, <1>1, <2>2 DEF Pipeline, SensorOrdered, Before
    <3>3. QueueOrdered' /\ ResultsOrdered'
      BY <1>0, <1>1, <2>7 DEF Pipeline, QueueOrdered, ResultsOrdered
    <3>4. InStep'
      BY <1>0, <1>1, <2>2, <2>3, <2>6 DEF Pipeline, InStep, InSensor, Awaited
    <3>. QED
      BY <3>1, <3>2, <3>3, <3>4 DEF Pipeline
  <2>9. JpegPhase' /\ ReturnedKnown' /\ ReturnedOnce'
    BY <1>0, <1>1 DEF JpegPhase, ReturnedKnown, ReturnedOnce, Finishing
  <2>10. LocksKnown'
    BY <1>0, <1>1, <2>3 DEF LocksKnown, Finishing
  <2>11. OrphansFailed'
    BY <1>0, <1>1, <2>3 DEF OrphansFailed, Orphans
  <2>12. Announced' /\ ShuttersOnce'
    <3>1. Begun' = Begun
      BY <1>1, <2>2, <2>3, <2>6 DEF Begun
    <3>. QED
      BY <1>0, <1>1, <2>2, <2>3, <2>4, <2>6, <3>1 DEF Announced, ShuttersOnce
  <2>13. ReadyDrained'
    BY <1>0, <1>1, <2>6 DEF ReadyDrained
  <2>. QED
    BY <2>5, <2>8, <2>9, <2>10, <2>11, <2>12, <2>13 DEF IInv
<1>. QED
  BY <1>2, <1>3

(* The sensor hands the exposed frame over and begins to expose the next. *)
LEMMA HandOverIInv ==
  ASSUME IInv, ReadOutImage \/ ReadoutCompleted
  PROVE  IInv'
<1>0. /\ TypeOK /\ Pipeline /\ JpegPhase /\ ReturnedKnown /\ ReturnedOnce /\ LocksKnown
      /\ OrphansFailed /\ Announced /\ ShuttersOnce /\ ReadyDrained
  BY DEF IInv
<1>1. /\ UNCHANGED <<status, f, jpegs, failures, locked, queue, j, results, returned, split,
                     undefined>>
      /\ HandOver(s)
      /\ overrun' \in BOOLEAN /\ (overrun => overrun')
      /\ s.exposed # 0 => captured = 0 \/ overrun'
  BY <1>0 DEF ReadOutImage, ReadoutCompleted, fVars, flags, marks, TypeOK
<1>2. captured' = (IF s.exposed # 0 THEN s.exposed ELSE captured) /\ captured' \in Nat
  BY <1>0, <1>1 DEF HandOver, TypeOK, SType
<1>3. /\ s' \in SType /\ s'.pc = "stage1" /\ s'.next = s.next /\ s'.number = s.number
      /\ s'.taken = 0 /\ s'.exposed = s.taken
  <2>1. s' = [s EXCEPT !.pc = "stage1", !.exposed = s.taken, !.taken = 0, !.takenNumber = 0]
    BY <1>1 DEF HandOver
  <2>. QED
    BY <1>0, <2>1 DEF TypeOK, SType
<1>4. /\ r' \in RType /\ r'.cur = r.cur /\ r'.got = r.got
      /\ r'.pc = r.pc \/ (r.pc = "sleep" /\ r'.pc = "woken" /\ s.exposed # 0)
  <2>1. r' = r \/ (r.pc = "sleep" /\ r' = [r EXCEPT !.pc = "woken"] /\ s.exposed # 0)
    BY <1>1 DEF HandOver
  <2>. QED
    BY <1>0, <2>1, RGoes DEF TypeOK, RPCs
<1>5. /\ s.taken = 0 => shutters' = shutters
      /\ s.taken # 0 => shutters' = Append(shutters, s.takenNumber)
  BY <1>1 DEF HandOver, onSensorEvent
<1>6. shutters \in Seq(Nat) /\ s.taken \in Nat /\ s.takenNumber \in Nat /\ f.n \in Nat
  BY <1>0 DEF TypeOK, SType, FType
<1>7. shutters' \in Seq(Nat)
  BY <1>5, <1>6, SMTT(30)
<1>8. TypeOK'
  BY <1>0, <1>1, <1>2, <1>3, <1>4, <1>7 DEF TypeOK
<1>9. Pipeline'
  <2>1. ReadoutPhase' /\ SensorPhase'
    BY <1>0, <1>1, <1>2, <1>3, <1>4 DEF Pipeline, ReadoutPhase, SensorPhase
  <2>2. SensorOrdered'
    BY <1>0, <1>1, <1>2, <1>3 DEF Pipeline, SensorOrdered, Before
  <2>3. QueueOrdered' /\ ResultsOrdered'
    BY <1>0, <1>1, <1>4 DEF Pipeline, QueueOrdered, ResultsOrdered, Behind, InRequest
  <2>4. InStep'
    <3>1. InSensor' \subseteq InSensor /\ (~overrun' => InSensor' = InSensor)
      BY <1>1, <1>2, <1>3 DEF InSensor
    <3>2. Awaited' = Awaited
      BY <1>1, <1>4 DEF Awaited, Handed
    <3>. QED
      BY <1>0, <1>1, <3>1, <3>2 DEF Pipeline, InStep
  <2>. QED
    BY <2>1, <2>2, <2>3, <2>4 DEF Pipeline
<1>10. JpegPhase' /\ ReturnedKnown' /\ ReturnedOnce'
  BY <1>0, <1>1, <1>4 DEF JpegPhase, ReturnedKnown, ReturnedOnce, Finishing
<1>11. LocksKnown'
  BY <1>0, <1>1, <1>4 DEF LocksKnown, Finishing
<1>12. OrphansFailed'
  BY <1>0, <1>1, <1>4 DEF OrphansFailed, Orphans
<1>13. ReadyDrained'
  BY <1>0, <1>1, <1>4 DEF ReadyDrained, InRequest
<1>14. Announced' /\ ShuttersOnce'
  <2>1. CASE split
    BY <1>1, <2>1 DEF Announced, ShuttersOnce
  <2>2. CASE ~split /\ s.taken = 0
    BY <1>0, <1>1, <1>3, <1>4, <1>5, <2>2
       DEF Announced, ShuttersOnce, InRequest, Handed, Begun
  <2>3. CASE ~split /\ s.taken # 0
    <3>1. shutters' = Append(shutters, s.taken)
      BY <1>0, <1>5, <2>3 DEF Announced
    <3>2. Range(shutters') = Range(shutters) \cup {s.taken}
      BY <1>6, <3>1, RangeOfAppend
    <3>3. \A n \in Range(shutters) : n \in Nat /\ n < s.taken
      BY <1>0, <1>6, <2>3, RangeOfSeq DEF Announced
    <3>4. s.taken <= f.n /\ (InRequest /\ ~Handed => s.taken < f.n)
      BY <1>0, <2>3, SensorBehind DEF InSensor
    <3>5. s.next # 0 => s.taken < s.next
      BY <1>0, <2>3 DEF Pipeline, SensorOrdered, Before
    <3>6. ShuttersOnce'
      <4>1. s.taken \notin Range(shutters)
        BY <1>6, <3>3
      <4>2. IsFiniteSet(Range(shutters)) /\ Cardinality(Range(shutters)) = Len(shutters)
        BY <1>0, <2>3 DEF ShuttersOnce
      <4>. QED
        BY <1>6, <3>1, <4>1, <4>2, AppendNew DEF ShuttersOnce
    <3>7. /\ f'.pc = "number" => s'.next = f'.n
          /\ s'.next # 0 /\ f'.pc # "number" => s'.number = s'.next
          /\ s'.taken # 0 => s'.takenNumber = s'.taken
      BY <1>0, <1>1, <1>3, <2>3 DEF Announced
    <3>8. (Begun' \cup Range(results')) \subseteq Range(shutters')
      <4>1. Begun' \subseteq Begun \cup {s.taken}
        BY <1>1, <1>3, <1>4 DEF Begun, Handed
      <4>. QED
        BY <1>0, <1>1, <2>3, <3>2, <4>1 DEF Announced
    <3>9. \A n \in Range(shutters') :
            /\ n <= f'.n /\ (InRequest' /\ ~Handed' => n < f'.n)
            /\ s'.taken # 0 => n < s'.taken
            /\ s'.next # 0 => n < s'.next
      BY <1>0, <1>1, <1>3, <2>3, <3>2, <3>4, <3>5 DEF Announced, InRequest, Handed
    <3>. QED
      BY <3>6, <3>7, <3>8, <3>9 DEF Announced
  <2>. QED
    BY <2>1, <2>2, <2>3
<1>. QED
  BY <1>8, <1>9, <1>10, <1>11, <1>12, <1>13, <1>14 DEF IInv

----------------------------------------------------------------------------
LEMMA TakeRequestIInv ==
  ASSUME IInv, TakeRequest
  PROVE  IInv'
<1>0. /\ TypeOK /\ Pipeline /\ JpegPhase /\ ReturnedKnown /\ ReturnedOnce /\ LocksKnown
      /\ OrphansFailed /\ Announced /\ ShuttersOnce /\ ReadyDrained
  BY DEF IInv
<1>1. /\ UNCHANGED <<status, f, jpegs, failures, locked, captured, s, j, shutters, results,
                     returned, split, overrun, undefined>>
      /\ r.pc \in {"top", "wait"} /\ r.cur = 0 /\ r.got = 0 /\ queue # <<>> /\ queue' = Tail(queue)
      /\ r' = [r EXCEPT !.pc = "frame", !.cur = Head(queue), !.active = TRUE]
  BY <1>0 DEF TakeRequest, fVars, outVars, flags, marks, Pipeline, ReadoutPhase
<1>2. /\ queue' \in Seq(Nat) /\ Len(queue') = Len(queue) - 1 /\ Len(queue) \in Nat /\ Len(queue) > 0
      /\ \A a \in 1 .. (Len(queue) - 1) : queue'[a] = queue[a + 1]
      /\ Head(queue) = queue[1] /\ Head(queue) \in Nat
      /\ Range(queue) = Range(queue') \cup {Head(queue)}
  <2>1. queue \in Seq(Nat)
    BY <1>0 DEF TypeOK
  <2>. QED
    BY <1>1, <2>1, RangeOfTail
<1>3. r' \in RType /\ r'.pc = "frame" /\ r'.cur = queue[1] /\ r'.got = 0
  BY <1>0, <1>1, <1>2 DEF TypeOK, RType, RPCs
<1>4. TypeOK'
  BY <1>0, <1>1, <1>2, <1>3 DEF TypeOK
<1>5. \A n : Behind(n)' <=> Behind(n)
  BY <1>1 DEF Behind, InRequest
<1>6. 1 \in 1 .. Len(queue)
  BY <1>2
<1>7. 0 < queue[1] /\ Behind(queue[1]) /\ queue[1] \in Nat
  BY <1>0, <1>1, <1>2, <1>6 DEF Pipeline, QueueOrdered
<1>8. \A a \in 1 .. Len(queue') : a + 1 \in 1 .. Len(queue) /\ queue'[a] = queue[a + 1] /\ 1 < a + 1
  BY <1>2
<1>9. Pipeline'
  <2>1. ReadoutPhase' /\ SensorPhase' /\ SensorOrdered'
    BY <1>0, <1>1, <1>3, <1>7 DEF Pipeline, ReadoutPhase, SensorPhase, SensorOrdered, Before
  <2>2. QueueOrdered'
    <3>1. \A a, b \in 1 .. Len(queue') : a < b => queue'[a] < queue'[b]
      <4>1. SUFFICES ASSUME NEW a \in 1 .. Len(queue'), NEW b \in 1 .. Len(queue'), a < b
                     PROVE  queue'[a] < queue'[b]
        OBVIOUS
      <4>2. a + 1 < b + 1
        BY <4>1, <1>2
      <4>. QED
        BY <1>0, <1>8, <4>2 DEF Pipeline, QueueOrdered
    <3>2. ASSUME NEW a \in 1 .. Len(queue') PROVE queue[1] < queue'[a] /\ Behind(queue[a])'
      <4>1. PICK x : x = queue[a + 1]
        OBVIOUS
      <4>2. Behind(x) /\ queue[1] < x /\ queue'[a] = x
        BY <1>0, <1>6, <1>8, <4>1 DEF Pipeline, QueueOrdered
      <4>. QED
        BY <1>5, <4>2 DEF Behind
    <3>3. Behind(r.cur)'
      BY <1>1, <1>3, <1>7 DEF Behind, InRequest
    <3>. QED
      BY <1>3, <3>1, <3>2, <3>3 DEF QueueOrdered
  <2>3. ResultsOrdered'
    <3>1. SUFFICES ASSUME NEW a \in 1 .. Len(results)
                   PROVE  /\ 0 < results[a] /\ Behind(results[a])
                          /\ results[a] < queue[1]
                          /\ \A b \in 1 .. Len(queue') : results[a] < queue'[b]
      BY <1>0, <1>1, <1>3 DEF Pipeline, ResultsOrdered, Behind, InRequest
    <3>. QED
      BY <1>0, <1>6, <1>8 DEF Pipeline, ResultsOrdered
  <2>4. InStep'
    <3>1. Awaited' = Awaited
      BY <1>1, <1>2, <1>3 DEF Awaited, Handed
    <3>. QED
      BY <1>0, <1>1, <3>1 DEF Pipeline, InStep, InSensor
  <2>. QED
    BY <2>1, <2>2, <2>3, <2>4 DEF Pipeline
<1>10. JpegPhase' /\ ReturnedKnown' /\ ReturnedOnce' /\ ShuttersOnce'
  BY <1>0, <1>1, <1>3 DEF JpegPhase, ReturnedKnown, ReturnedOnce, ShuttersOnce, Finishing
<1>11. LocksKnown'
  BY <1>0, <1>1, <1>3 DEF LocksKnown, Finishing
<1>12. OrphansFailed'
  <2>1. Orphans' \subseteq Orphans
    <3>1. \A b \in locked : b[1] # 0
      BY <1>0 DEF LocksKnown
    <3>. QED
      BY <1>1, <1>2, <1>3, <3>1 DEF Orphans
  <2>2. failures' \in Nat /\ failures' >= failures
    BY <1>0, <1>1 DEF TypeOK
  <2>. QED
    BY <1>0, <2>1, <2>2, OrphansStep
<1>13. Announced'
  <2>1. Begun' \subseteq Begun
    BY <1>1, <1>2, <1>3 DEF Begun, Handed
  <2>. QED
    BY <1>0, <1>1, <2>1 DEF Announced, InRequest, Handed
<1>14. ReadyDrained'
  BY <1>0, <1>1 DEF ReadyDrained
<1>. QED
  BY <1>4, <1>9, <1>10, <1>11, <1>12, <1>13, <1>14 DEF IInv

(* The frame the sensor hands over is the one of the current request, or   *)
(* of a later one if that was overwritten.                                 *)
LEMMA FrameIsCurrent ==
  ASSUME TypeOK, Pipeline, captured # 0, r.cur # 0, r.got = 0
  PROVE  /\ r.cur <= captured /\ (r.cur \in InSensor => captured = r.cur)
         /\ ~overrun => captured = r.cur
<1>1. captured \in Awaited /\ (~overrun => r.cur \in InSensor)
  BY DEF Pipeline, InStep, InSensor, Awaited
<1>2. f.n \in Nat /\ r.cur \in Nat /\ captured \in Nat /\ queue \in Seq(Nat)
  BY DEF TypeOK, FType, RType
<1>3. \A y \in Range(queue) : r.cur < y
  BY <1>2, RangeOfSeq DEF Pipeline, QueueOrdered
<1>4. r.cur <= captured
  BY <1>1, <1>2, <1>3 DEF Awaited, Pipeline, QueueOrdered, Behind
<1>5. r.cur \in InSensor => captured <= r.cur
  <2>1. s.exposed \in Nat /\ s.taken \in Nat /\ s.next \in Nat
    BY DEF TypeOK, SType
  <2>. QED
    BY <1>2, <2>1 DEF InSensor, Pipeline, SensorOrdered, Before
<1>. QED
  BY <1>1, <1>2, <1>4, <1>5

LEMMA TakeFrameIInv ==
  ASSUME IInv, captured # 0, ~SensorReleased, WokenForFrame \/ waitForNewFrame
  PROVE  IInv'
<1>0. /\ TypeOK /\ Pipeline /\ JpegPhase /\ ReturnedKnown /\ ReturnedOnce /\ LocksKnown
      /\ OrphansFailed /\ Announced /\ ShuttersOnce /\ ReadyDrained
  BY DEF IInv
<1>1. /\ UNCHANGED <<status, f, jpegs, failures, locked, queue, j, shutters, results,
                     returned, split, overrun, undefined>>
      /\ r.pc \in {"frame", "woken"} /\ captured' = 0
      /\ r' = [r EXCEPT !.pc = "got", !.got = captured]
      /\ s' = s \/ s' = [s EXCEPT !.pc = "completed"]
  BY DEF WokenForFrame, waitForNewFrame, fVars, outVars, marks
<1>2. /\ r.cur # 0 /\ r.got = 0 /\ r.cur <= captured /\ (r.cur \in InSensor => captured = r.cur)
      /\ ~overrun => captured = r.cur
  BY <1>0, <1>1, FrameIsCurrent DEF Pipeline, ReadoutPhase
<1>3. /\ r' \in RType /\ r'.pc = "got" /\ r'.cur = r.cur /\ r'.got = captured
      /\ r'.cur \in Nat /\ captured \in Nat
  BY <1>0, <1>1, <1>2 DEF TypeOK, RType, RPCs
<1>4. /\ s' \in SType /\ s'.pc \in {s.pc, "completed"} /\ s'.next = s.next /\ s'.number = s.number
      /\ s'.taken = s.taken /\ s'.takenNumber = s.takenNumber /\ s'.exposed = s.exposed
  BY <1>0, <1>1, SGoes DEF TypeOK
<1>5. TypeOK'
  BY <1>0, <1>1, <1>3, <1>4 DEF TypeOK
<1>6. Pipeline'
  <2>1. ReadoutPhase' /\ SensorPhase' /\ SensorOrdered'
    BY <1>0, <1>1, <1>2, <1>3, <1>4 DEF Pipeline, ReadoutPhase, SensorPhase, SensorOrdered, Before
  <2>2. QueueOrdered' /\ ResultsOrdered'
    BY <1>0, <1>1, <1>3 DEF Pipeline, QueueOrdered, ResultsOrdered, Behind, InRequest
  <2>3. InSensor' = InSensor \ {captured}
    <3>1. s.exposed \in Nat /\ s.taken \in Nat /\ s.next \in Nat /\ captured \in Nat
      BY <1>0 DEF TypeOK, SType
    <3>2. \A x \in {s.exposed, s.taken, s.next} : x # captured \/ x = 0
      BY <1>0, <3>1, <1>2 DEF Pipeline, SensorOrdered, Before
    <3>. QED
      BY <1>1, <1>2, <1>4, <3>2 DEF InSensor
  <2>4. Awaited' = Awaited \ {r.cur}
    <3>1. queue \in Seq(Nat) /\ r.cur \in Nat /\ f.n \in Nat
      BY <1>0 DEF TypeOK, RType, FType
    <3>2. r.cur \notin Range(queue)
      BY <1>0, <3>1, RangeOfSeq DEF Pipeline, QueueOrdered
    <3>3. Handed => r.cur # f.n
      BY <1>0, <3>1 DEF Pipeline, QueueOrdered, Behind, Handed, InRequest
    <3>. QED
      BY <1>1, <1>2, <1>3, <3>2, <3>3 DEF Awaited, Handed
  <2>5. InStep'
    <3>1. r.cur \notin InSensor'
      BY <1>2, <2>3
    <3>. QED
      BY <1>0, <1>1, <1>2, <2>3, <2>4, <3>1 DEF Pipeline, InStep
  <2>. QED
    BY <2>1, <2>2, <2>5 DEF Pipeline
<1>7. JpegPhase' /\ ReturnedKnown' /\ ReturnedOnce' /\ ShuttersOnce'
  BY <1>0, <1>1, <1>3 DEF JpegPhase, ReturnedKnown, ReturnedOnce, ShuttersOnce, Finishing
<1>8. LocksKnown'
  BY <1>0, <1>1, <1>3 DEF LocksKnown, Finishing
<1>9. OrphansFailed'
  BY <1>0, <1>1, <1>3 DEF OrphansFailed, Orphans
<1>10. Announced'
  <2>1. Begun' = Begun
    BY <1>1, <1>3, <1>4 DEF Begun, Handed
  <2>. QED
    BY <1>0, <1>1, <1>4, <2>1 DEF Announced, InRequest, Handed
<1>11. ReadyDrained'
  BY <1>0, <1>1, <1>2, <1>3 DEF ReadyDrained, InRequest
<1>. QED
  BY <1>5, <1>6, <1>7, <1>8, <1>9, <1>10, <1>11 DEF IInv

(* The request the readout thread works on has no result yet, and nothing  *)
(* of it was returned.                                                     *)
LEMMA CurrentIsNew ==
  ASSUME TypeOK, Pipeline, ReturnedKnown, r.cur # 0
  PROVE  /\ r.cur \notin Range(results)
         /\ <<r.cur, "preview">> \notin Range(returned)
         /\ j.n # r.cur => <<r.cur, "blob">> \notin Range(returned)
<1>1. results \in Seq(Nat) /\ r.cur \in Nat
  BY DEF TypeOK, RType
<1>2. \A a \in 1 .. Len(results) : results[a] \in Nat /\ results[a] < r.cur
  BY <1>1 DEF Pipeline, ResultsOrdered
<1>3. r.cur \notin Range(results)
  BY <1>1, <1>2, RangeOfSeq
<1>4. <<r.cur, "preview">> \notin Range(returned)
  <2>1. <<r.cur, "preview">>[1] = r.cur /\ <<r.cur, "preview">>[2] = "preview"
    OBVIOUS
  <2>. QED
    BY <1>3, <2>1 DEF ReturnedKnown
<1>5. j.n # r.cur => <<r.cur, "blob">> \notin Range(returned)
  <2>1. <<r.cur, "blob">>[1] = r.cur
    OBVIOUS
  <2>. QED
    BY <1>3, <2>1 DEF ReturnedKnown
<1>. QED
  BY <1>3, <1>4, <1>5

(* The compressor is started, or the buffers are unlocked without it. *)
LEMMA StartJpegIInv ==
  ASSUME IInv, StartJpeg
  PROVE  IInv'
<1>0. /\ TypeOK /\ Pipeline /\ JpegPhase /\ ReturnedKnown /\ ReturnedOnce /\ LocksKnown
      /\ OrphansFailed /\ Announced /\ ShuttersOnce /\ ReadyDrained
  BY DEF IInv
<1>1. /\ UNCHANGED <<status, f, jpegs, failures, captured, s, queue, shutters, results,
                     returned, split, overrun>>
      /\ r.pc = "got" /\ ~undefined /\ undefined' = RunRefused
  BY DEF StartJpeg, Alive, fVars, outVars, marks
<1>2. r.cur # 0 /\ r.got # 0 /\ r.cur \in Nat
  BY <1>0, <1>1 DEF Pipeline, ReadoutPhase, TypeOK, RType
<1>3. r' \in RType /\ r'.pc \in {"idle", "send"} /\ r'.cur = r.cur /\ r'.got = r.got
  <2>1. PICK p \in {"idle", "send"} : r' = [r EXCEPT !.pc = p, !.active = queue # <<>>]
    BY DEF StartJpeg
  <2>. QED
    BY <1>0, <1>2, <2>1 DEF TypeOK, RType, RPCs
<1>4. j.n # 0 => j.n \in Range(results)
  BY <1>0, <1>1 DEF JpegPhase, Finishing
<1>5. r.cur \notin Range(results) /\ <<r.cur, "blob">> \notin Range(returned) /\ j.n # r.cur
  BY <1>0, <1>2, <1>4, CurrentIsNew
<1>6. /\ j' \in JType
      /\ CanCompress => /\ j'.n = r.cur /\ j'.busy /\ j.pc \notin {"compress", "cleanUp"}
                        /\ j'.pc = "compress" \/ undefined'
      /\ ~CanCompress => j' = j
  <2>1. CASE CanCompress
    <3>1. PICK p \in {"none", "compress", "cleanUp", "ending"} :
            \E w \in BOOLEAN : /\ j' = [pc |-> p, busy |-> TRUE, waiting |-> w, n |-> r.cur]
                               /\ RunRefused \/ p = "compress"
      BY <1>0, <2>1 DEF StartJpeg, RunRefused, TypeOK, JType
    <3>2. j.pc \notin {"compress", "cleanUp"}
      BY <1>0, <2>1 DEF JpegPhase, CanCompress
    <3>. QED
      BY <1>1, <1>2, <2>1, <3>1, <3>2 DEF JType
  <2>2. CASE ~CanCompress
    BY <1>0, <2>2 DEF StartJpeg, TypeOK
  <2>. QED
    BY <2>1, <2>2
<1>7. /\ locked' \subseteq locked
      /\ <<r.cur, "preview">> \notin locked'
      /\ ~CanCompress => <<r.cur, "blob">> \notin locked'
  <2>1. locked' = locked \ (IF CanCompress THEN {<<r.cur, "preview">>} ELSE BuffersOf(r.cur))
    BY DEF StartJpeg
  <2>2. <<r.cur, "preview">> \in BuffersOf(r.cur)
    BY DEF BuffersOf
  <2>3. <<r.cur, "blob">> \in locked => <<r.cur, "blob">> \in BuffersOf(r.cur)
    <3>1. <<r.cur, "blob">>[1] = r.cur /\ <<r.cur, "blob">>[2] = "blob"
      OBVIOUS
    <3>2. <<r.cur, "blob">> \in locked => r.cur \in jpegs
      BY <1>0, <3>1 DEF LocksKnown
    <3>. QED
      BY <3>2 DEF BuffersOf
  <2>. QED
    BY <2>1, <2>2, <2>3
<1>8. TypeOK'
  <2>1. undefined' \in BOOLEAN
    BY <1>1 DEF RunRefused, CanCompress
  <2>. QED
    BY <1>0, <1>1, <1>3, <1>6, <1>7, <2>1 DEF TypeOK
<1>9. Pipeline'
  <2>1. ReadoutPhase' /\ SensorPhase' /\ SensorOrdered'
    BY <1>0, <1>1, <1>2, <1>3 DEF Pipeline, ReadoutPhase, SensorPhase, SensorOrdered, Before
  <2>2. QueueOrdered' /\ ResultsOrdered'
    BY <1>0, <1>1, <1>3 DEF Pipeline, QueueOrdered, ResultsOrdered, Behind, InRequest
  <2>3. InStep'
    BY <1>0, <1>1, <1>2, <1>3 DEF Pipeline, InStep, InSensor, Awaited, Handed
  <2>. QED
    BY <2>1, <2>2, <2>3 DEF Pipeline
<1>10. Finishing' /\ ~Finishing
  BY <1>1, <1>3 DEF Finishing
<1>11. JpegPhase'
  <2>1. CASE CanCompress
    BY <1>1, <1>2, <1>3, <1>5, <1>6, <1>10, <2>1 DEF JpegPhase
  <2>2. CASE ~CanCompress
    BY <1>0, <1>1, <1>4, <1>6, <2>2 DEF JpegPhase
  <2>. QED
    BY <2>1, <2>2
<1>12. ReturnedKnown'
  BY <1>0, <1>1, <1>4, <1>6 DEF ReturnedKnown
<1>13. ReturnedOnce' /\ ShuttersOnce'
  BY <1>0, <1>1 DEF ReturnedOnce, ShuttersOnce
<1>14. LocksKnown'
  <2>1. IsFiniteSet(locked')
    BY <1>0, <1>7, FS_Subset DEF LocksKnown
  <2>2. \A b \in locked' : 0 < b[1] /\ b[1] <= f'.n /\ (b[2] = "blob" => b[1] \in jpegs')
    BY <1>0, <1>1, <1>7 DEF LocksKnown
  <2>3. Range(returned') \cap locked' = {}
    BY <1>0, <1>1, <1>7 DEF LocksKnown
  <2>4. <<r'.cur, "preview">> \notin locked' /\ (<<r'.cur, "blob">> \in locked' => j'.n = r'.cur)
    BY <1>3, <1>6, <1>7
  <2>5. <<j'.n, "preview">> \notin locked'
    BY <1>0, <1>6, <1>7 DEF LocksKnown
  <2>6. <<j'.n, "blob">> \in locked' => j'.pc = "compress" \/ undefined'
    BY <1>0, <1>1, <1>6, <1>7 DEF LocksKnown
  <2>. QED
    BY <2>1, <2>2, <2>3, <2>4, <2>5, <2>6 DEF LocksKnown
<1>15. OrphansFailed'
  <2>1. CanCompress => \A b \in locked : b[1] # j.n
    <3>1. SUFFICES ASSUME CanCompress, NEW b \in locked PROVE b[1] # j.n
      OBVIOUS
    <3>2. b = <<b[1], b[2]>> /\ b[2] \in {"preview", "blob"}
      BY <1>0 DEF TypeOK, Buffers
    <3>3. <<j.n, "preview">> \notin locked /\ <<j.n, "blob">> \notin locked
      BY <1>0, <1>1, <1>6, <3>1 DEF LocksKnown
    <3>. QED
      BY <3>2, <3>3
  <2>2. Orphans' \subseteq Orphans
    <3>1. SUFFICES ASSUME NEW x \in Orphans' PROVE x \in Orphans
      OBVIOUS
    <3>2. PICK b \in locked : b \in locked' /\ x = b[1]
      BY <1>7, <3>1 DEF Orphans
    <3>3. x \notin Range(queue) /\ x # r.cur /\ x # (IF f.pc = "idle" THEN 0 ELSE f.n) /\ x # j'.n
      BY <1>1, <1>3, <3>1 DEF Orphans
    <3>4. x # j.n
      BY <1>6, <2>1, <3>2, <3>3
    <3>. QED
      BY <3>2, <3>3, <3>4 DEF Orphans
  <2>3. failures' \in Nat /\ failures' >= failures
    BY <1>0, <1>1 DEF TypeOK
  <2>. QED
    BY <1>0, <2>2, <2>3, OrphansStep
<1>16. Announced'
  <2>1. Begun' = Begun
    BY <1>1, <1>3 DEF Begun, Handed
  <2>. QED
    BY <1>0, <1>1, <2>1 DEF Announced, InRequest, Handed
<1>17. ReadyDrained'
  BY <1>0, <1>1, <1>2, <1>3 DEF ReadyDrained, InRequest
<1>. QED
  BY <1>8, <1>9, <1>11, <1>12, <1>13, <1>14, <1>15, <1>16, <1>17 DEF IInv

(* The compressor gives its buffer back. *)
LEMMA JpegDoneIInv ==
  ASSUME IInv, onJpegDone, ~ReadoutReleased
  PROVE  IInv'
<1>0. /\ TypeOK /\ Pipeline /\ JpegPhase /\ ReturnedKnown /\ ReturnedOnce /\ LocksKnown
      /\ OrphansFailed /\ Announced /\ ShuttersOnce /\ ReadyDrained
  BY DEF IInv
<1>1. /\ UNCHANGED <<status, f, jpegs, failures, captured, s, queue, r, shutters, results,
                     split, overrun, undefined>>
      /\ j.pc = "compress" /\ locked' = locked \ {<<j.n, "blob">>}
      /\ returned' = Append(returned, <<j.n, "blob">>)
      /\ j' = [j EXCEPT !.pc = "cleanUp", !.waiting = FALSE]
  BY DEF onJpegDone, fVars, marks
<1>2. j.n # 0 /\ <<j.n, "blob">> \notin Range(returned) /\ j.busy /\ j.n \in Nat
  BY <1>0, <1>1 DEF JpegPhase, TypeOK, JType
<1>3. j' \in JType /\ j'.pc = "cleanUp" /\ j'.n = j.n /\ j'.busy
  BY <1>0, <1>1, <1>2 DEF TypeOK, JType
<1>4. <<j.n, "blob">> \in Buffers /\ returned \in Seq(Buffers)
  BY <1>0, <1>2 DEF Buffers, TypeOK
<1>5. returned' \in Seq(Buffers) /\ Range(returned') = Range(returned) \cup {<<j.n, "blob">>}
  BY <1>1, <1>4, RangeOfAppend
<1>6. TypeOK'
  BY <1>0, <1>1, <1>3, <1>5 DEF TypeOK
<1>7. Pipeline'
  BY <1>0, <1>1, SMTT(30) DEF Pipeline, ReadoutPhase, SensorPhase, SensorOrdered, Before, QueueOrdered,
     ResultsOrdered, Behind, InRequest, InStep, InSensor, Awaited, Handed
<1>8. JpegPhase'
  BY <1>0, <1>1, <1>3 DEF JpegPhase, Finishing
<1>9. ReturnedKnown'
  <2>1. <<j.n, "blob">>[1] = j.n /\ <<j.n, "blob">>[2] = "blob"
    OBVIOUS
  <2>. QED
    BY <1>0, <1>1, <1>2, <1>3, <1>5, <2>1 DEF ReturnedKnown
<1>10. ReturnedOnce'
  BY <1>0, <1>1, <1>2, <1>4, AppendNew DEF ReturnedOnce
<1>11. LocksKnown'
  <2>1. IsFiniteSet(locked') /\ locked' \subseteq locked /\ <<j.n, "blob">> \notin locked'
    BY <1>0, <1>1, FS_Subset DEF LocksKnown
  <2>2. Range(returned') \cap locked' = {}
    BY <1>0, <1>5, <2>1 DEF LocksKnown
  <2>. QED
    BY <1>0, <1>1, <1>3, <2>1, <2>2 DEF LocksKnown, Finishing
<1>12. OrphansFailed'
  <2>1. Orphans' \subseteq Orphans
    BY <1>1, <1>3 DEF Orphans
  <2>2. failures' \in Nat /\ failures' >= failures
    BY <1>0, <1>1 DEF TypeOK
  <2>. QED
    BY <1>0, <2>1, <2>2, OrphansStep
<1>13. Announced' /\ ShuttersOnce' /\ ReadyDrained'
  BY <1>0, <1>1 DEF Announced, Begun, ShuttersOnce, ReadyDrained, InRequest, Handed
<1>. QED
  BY <1>6, <1>7, <1>8, <1>9, <1>10, <1>11, <1>12, <1>13 DEF IInv

(* The result is sent, with the buffers the compressor does not hold. *)
LEMMA SendResultIInv ==
  ASSUME IInv, sendCaptureResult
  PROVE  IInv'
<1>0. /\ TypeOK /\ Pipeline /\ JpegPhase /\ ReturnedKnown /\ ReturnedOnce /\ LocksKnown
      /\ OrphansFailed /\ Announced /\ ShuttersOnce /\ ReadyDrained
  BY DEF IInv
<1> DEFINE p == <<r.cur, "preview">>
           b0 == <<r.cur, "blob">>
           both == r.cur \in jpegs /\ j.n # r.cur
<1>1. /\ UNCHANGED <<status, f, jpegs, failures, locked, captured, s, queue, j, shutters,
                     split, overrun, undefined>>
      /\ r.pc = "send" /\ results' = Append(results, r.cur)
      /\ r' = [r EXCEPT !.pc = "top", !.cur = 0, !.got = 0]
  BY DEF sendCaptureResult, fVars, flags, marks
<1>2. r.cur # 0 /\ r.got # 0 /\ r.cur \in Nat /\ Finishing /\ f.n \in Nat
  BY <1>0, <1>1 DEF Pipeline, ReadoutPhase, TypeOK, RType, FType, Finishing
<1>3. r' \in RType /\ r'.pc = "top" /\ r'.cur = 0 /\ r'.got = 0
  BY <1>0, <1>1 DEF TypeOK, RType, RPCs
<1>4. /\ results' \in Seq(Nat) /\ Len(results') = Len(results) + 1 /\ Len(results) \in Nat
      /\ \A a \in 1 .. Len(results) : results'[a] = results[a]
      /\ results'[Len(results) + 1] = r.cur
      /\ Range(results') = Range(results) \cup {r.cur}
  <2>1. results \in Seq(Nat)
    BY <1>0 DEF TypeOK
  <2>. QED
    BY <1>1, <1>2, <2>1, RangeOfAppend
<1>5. /\ p \notin Range(returned) /\ (both => b0 \notin Range(returned))
  BY <1>0, <1>2, CurrentIsNew
<1>6. p \in Buffers /\ b0 \in Buffers /\ returned \in Seq(Buffers) /\ p # b0
      /\ p[1] = r.cur /\ b0[1] = r.cur
  BY <1>0, <1>2 DEF Buffers, TypeOK
<1>7. returned' = IF both THEN Append(Append(returned, p), b0) ELSE Append(returned, p)
  <2>1. \A q \in Seq(Buffers) : \A x \in Buffers : q \o <<x>> = Append(q, x) /\ q \o <<>> = q
    OBVIOUS
  <2>2. Append(returned, p) \in Seq(Buffers)
    BY <1>6
  <2>3. returned' = returned \o <<p>> \o (IF both THEN <<b0>> ELSE <<>>)
    BY DEF sendCaptureResult, Compressing
  <2> HIDE DEF p, b0, both
  <2>. QED
    BY <1>6, <2>1, <2>2, <2>3
<1> HIDE DEF p, b0
<1>8. /\ returned' \in Seq(Buffers)
      /\ Range(returned') = Range(returned) \cup {p} \cup (IF both THEN {b0} ELSE {})
      /\ ReturnedOnce'
  <2>1. /\ Append(returned, p) \in Seq(Buffers) /\ Range(Append(returned, p)) = Range(returned) \cup {p}
        /\ IsFiniteSet(Range(Append(returned, p)))
        /\ Cardinality(Range(Append(returned, p))) = Len(Append(returned, p))
    BY <1>0, <1>5, <1>6, RangeOfAppend, AppendNew DEF ReturnedOnce
  <2>2. CASE ~both
    BY <1>7, <2>1, <2>2 DEF ReturnedOnce
  <2>3. CASE both
    <3>1. b0 \notin Range(Append(returned, p))
      BY <1>5, <1>6, <2>1, <2>3
    <3>2. /\ Append(Append(returned, p), b0) \in Seq(Buffers)
          /\ Range(Append(Append(returned, p), b0)) = Range(Append(returned, p)) \cup {b0}
      <4>1. PICK q \in Seq(Buffers) : q = Append(returned, p)
        BY <2>1
      <4>2. Append(q, b0) \in Seq(Buffers) /\ Range(Append(q, b0)) = Range(q) \cup {b0}
        BY <1>6, RangeOfAppend
      <4>. QED
        BY <4>1, <4>2
    <3>3. /\ IsFiniteSet(Range(Append(Append(returned, p), b0)))
          /\ Cardinality(Range(Append(Append(returned, p), b0))) = Len(Append(Append(returned, p), b0))
      BY <1>6, <2>1, <3>1, AppendNew
    <3>. QED
      BY <1>7, <2>1, <2>3, <3>2, <3>3 DEF ReturnedOnce
  <2>. QED
    BY <2>2, <2>3
<1>9. TypeOK'
  BY <1>0, <1>1, <1>3, <1>4, <1>8 DEF TypeOK
<1>10. \A n : Behind(n)' <=> Behind(n)
  BY <1>1 DEF Behind, InRequest
<1>11. Pipeline'
  <2>1. ReadoutPhase' /\ SensorPhase' /\ SensorOrdered'
    BY <1>0, <1>1, <1>3 DEF Pipeline, ReadoutPhase, SensorPhase, SensorOrdered, Before
  <2>2. QueueOrdered'
    <3>1. Behind(0)
      BY <1>0, <1>2 DEF Pipeline, QueueOrdered, Behind
    <3>2. \A a \in 1 .. Len(queue) : queue[a] \in Nat /\ 0 < queue[a]
      BY <1>0, <1>2 DEF Pipeline, QueueOrdered, TypeOK
    <3>. QED
      BY <1>0, <1>1, <1>3, <3>1, <3>2 DEF Pipeline, QueueOrdered, Behind, InRequest
  <2>3. ResultsOrdered'
    <3>1. \A a \in 1 .. Len(results') : a \in 1 .. Len(results) \/ a = Len(results) + 1
      BY <1>4
    <3>2. \A a, b \in 1 .. Len(results') : a < b => results'[a] < results'[b]
      <4>1. SUFFICES ASSUME NEW a \in 1 .. Len(results'), NEW b \in 1 .. Len(results'), a < b
                     PROVE  results'[a] < results'[b]
        OBVIOUS
      <4>2. a \in 1 .. Len(results)
        BY <1>4, <4>1
      <4>3. CASE b \in 1 .. Len(results)
        BY <1>0, <1>4, <4>1, <4>2, <4>3 DEF Pipeline, ResultsOrdered
      <4>4. CASE b = Len(results) + 1
        BY <1>0, <1>2, <1>4, <4>2, <4>4 DEF Pipeline, ResultsOrdered
      <4>. QED
        BY <3>1, <4>3, <4>4
    <3>3. ASSUME NEW a \in 1 .. Len(results')
          PROVE  /\ 0 < results'[a] /\ Behind(results[a])'
                 /\ \A c \in 1 .. Len(queue) : results'[a] < queue[c]
      <4>1. PICK x : x = results'[a]
        OBVIOUS
      <4>2. 0 < x /\ Behind(x) /\ \A c \in 1 .. Len(queue) : x < queue[c]
        <5>1. CASE a \in 1 .. Len(results)
          BY <1>0, <1>4, <4>1, <5>1 DEF Pipeline, ResultsOrdered
        <5>2. CASE a = Len(results) + 1
          BY <1>0, <1>2, <1>4, <4>1, <5>2 DEF Pipeline, QueueOrdered
        <5>. QED
          BY <3>1, <5>1, <5>2
      <4>3. Behind(x)'
        BY <1>10, <4>2
      <4>. QED
        BY <4>1, <4>2, <4>3 DEF Behind
    <3>. QED
      BY <1>1, <1>3, <3>2, <3>3 DEF ResultsOrdered
  <2>4. InStep'
    <3>1. Awaited' = Awaited
      BY <1>1, <1>2, <1>3 DEF Awaited, Handed
    <3>. QED
      BY <1>0, <1>1, <3>1 DEF Pipeline, InStep, InSensor
  <2>. QED
    BY <2>1, <2>2, <2>3, <2>4 DEF Pipeline
<1>12. JpegPhase'
  <2>1. j.n # 0 => j.n \in Range(results')
    BY <1>0, <1>4 DEF JpegPhase
  <2>2. j.pc = "compress" => <<j.n, "blob">> \notin Range(returned')
    <3>1. <<j.n, "blob">> # p
      BY DEF p
    <3>2. both => <<j.n, "blob">> # b0
      BY DEF b0
    <3>. QED
      BY <1>0, <1>8, <3>1, <3>2 DEF JpegPhase
  <2>. QED
    BY <1>0, <1>1, <2>1, <2>2 DEF JpegPhase
<1>13. ReturnedKnown'
  <2>1. p[1] \in Range(results') /\ b0[1] \in Range(results') /\ p[1] # 0 /\ b0[1] # 0
    BY <1>2, <1>4, <1>6
  <2>. QED
    BY <1>0, <1>1, <1>4, <1>8, <2>1 DEF ReturnedKnown
<1>14. LocksKnown'
  <2>1. p \notin locked /\ (both => b0 \notin locked)
    BY <1>0, <1>2 DEF LocksKnown, p, b0
  <2>2. Range(returned') \cap locked' = {}
    BY <1>0, <1>1, <1>8, <2>1 DEF LocksKnown
  <2>3. ~Finishing'
    BY <1>3 DEF Finishing
  <2>. QED
    BY <1>0, <1>1, <2>2, <2>3 DEF LocksKnown
<1>15. OrphansFailed'
  <2>1. \A b \in locked : b[1] = r.cur => j.n = r.cur
    <3>1. SUFFICES ASSUME NEW b \in locked, b[1] = r.cur PROVE j.n = r.cur
      OBVIOUS
    <3>2. b = <<b[1], b[2]>> /\ b[2] \in {"preview", "blob"}
      BY <1>0 DEF TypeOK, Buffers
    <3>. QED
      BY <1>0, <1>2, <3>1, <3>2 DEF LocksKnown
  <2>2. Orphans' \subseteq Orphans
    <3>1. SUFFICES ASSUME NEW x \in Orphans' PROVE x \in Orphans
      OBVIOUS
    <3>2. PICK b \in locked : x = b[1]
      BY <1>1, <3>1 DEF Orphans
    <3>3. x \notin Range(queue) /\ x # j.n /\ x # (IF f.pc = "idle" THEN 0 ELSE f.n)
      BY <1>1, <3>1 DEF Orphans
    <3>4. x # r.cur
      BY <2>1, <3>2, <3>3
    <3>. QED
      BY <3>2, <3>3, <3>4 DEF Orphans
  <2>3. failures' \in Nat /\ failures' >= failures
    BY <1>0, <1>1 DEF TypeOK
  <2>. QED
    BY <1>0, <2>2, <2>3, OrphansStep
<1>16. Announced' /\ ShuttersOnce'
  <2>1. r.cur \notin InSensor
    <3>1. queue \in Seq(Nat)
      BY <1>0 DEF TypeOK
    <3>2. r.cur \notin Range(queue)
      BY <1>0, <1>2, <3>1, RangeOfSeq DEF Pipeline, QueueOrdered
    <3>3. Handed => r.cur # f.n
      BY <1>0, <1>2 DEF Pipeline, QueueOrdered, Behind, Handed, InRequest
    <3>4. r.cur \notin Awaited
      BY <1>2, <3>2, <3>3 DEF Awaited
    <3>. QED
      BY <1>0, <3>4 DEF Pipeline, InStep
  <2>2. r.cur \in Begun
    BY <1>2, <2>1 DEF Begun, InSensor
  <2>3. Begun' \subseteq Begun
    BY <1>1, <1>3 DEF Begun, Handed
  <2>. QED
    BY <1>0, <1>1, <1>4, <2>2, <2>3 DEF Announced, ShuttersOnce, InRequest, Handed
<1>17. ReadyDrained'
  BY <1>0, <1>1, <1>3 DEF ReadyDrained, InRequest
<1>. QED
  BY <1>8, <1>9, <1>11, <1>12, <1>13, <1>14, <1>15, <1>16, <1>17 DEF IInv

----------------------------------------------------------------------------
LEMMA NextIInv == IInv /\ [Next]_vars => IInv'
<1> SUFFICES ASSUME IInv, [Next]_vars PROVE IInv'
  OBVIOUS
<1>1. CASE UNCHANGED vars
  BY <1>1, FrameworkQuietIInv
<1>2. CASE Framework
  <2>1. CASE \E jpeg \in BOOLEAN : processCaptureRequest(jpeg) \/ LockFails(jpeg)
    BY <2>1, RequestIInv
  <2>2. CASE closeCamera \/ \E new \in {{"preview"}, {"preview", "blob"}} : configureStreams(new)
    BY <2>2, FrameworkQuietIInv
  <2>. QED
    BY <1>2, <2>1, <2>2 DEF Framework
<1>3. CASE InCall
  <2>1. CASE waitForDone \/ waitForReadout \/ SensorIsDown \/ ReadoutJoined
    BY <2>1, FrameworkQuietIInv
  <2>2. CASE setDestinationBuffers \/ setFrameNumber \/ queueCaptureRequest
    BY <2>2, SetBuffersIInv, SetNumberIInv, QueueRequestIInv
  <2>. QED
    BY <1>3, <2>1, <2>2 DEF InCall
<1>4. CASE TimesOut
  BY <1>4, GiveUpIInv, ThreadQuietIInv DEF TimesOut
<1>5. CASE SensorThread
  BY <1>5, ReadControlsIInv, HandOverIInv, ThreadQuietIInv DEF SensorThread
<1>6. CASE Readout
  <2>1. CASE SameRequest \/ ReadoutExits \/ signalReadoutIdle
    BY <2>1, ThreadQuietIInv
  <2>2. CASE waitForNewFrame
    BY <2>2, ThreadQuietIInv, TakeFrameIInv
  <2>3. CASE WokenForFrame
    <3>1. captured # 0
      BY <2>3 DEF IInv, Pipeline, ReadoutPhase, WokenForFrame
    <3>. QED
      BY <2>3, <3>1, ThreadQuietIInv, TakeFrameIInv
  <2>4. CASE TakeRequest \/ StartJpeg \/ sendCaptureResult
    BY <2>4, TakeRequestIInv, StartJpegIInv, SendResultIInv
  <2>. QED
    BY <1>6, <2>1, <2>2, <2>3, <2>4 DEF Readout
<1>7. CASE WaitForRequest \/ Spurious
  BY <1>7, ThreadQuietIInv, FrameworkQuietIInv DEF Spurious
<1>8. CASE Compressor
  <2>1. CASE onJpegDone
    BY <2>1, ThreadQuietIInv, JpegDoneIInv
  <2>2. CASE cleanUp \/ CompressorEnds
    BY <2>2, CompressorQuietIInv
  <2>. QED
    BY <1>8, <2>1, <2>2 DEF Compressor
<1>. QED
  BY <1>1, <1>2, <1>3, <1>4, <1>5, <1>6, <1>7, <1>8 DEF Next

LEMMA AlwaysIInv == Spec => []IInv
BY InitIInv, NextIInv, PTL DEF Spec

(* The image of a result was exposed for its request, or, once the sensor  *)
(* has overwritten a frame after a wake-up without signal, for a later     *)
(* one; results come in the order of the requests, each once, and no       *)
(* buffer is given back twice, for any number of requests, whichever waits *)
(* and locks fail and whichever waits end without a signal.                *)
THEOREM ResultsInStep == Spec => []FramesInStep
<1>1. IInv => FramesInStep
  <2>1. SUFFICES ASSUME IInv PROVE FramesInStep
    OBVIOUS
  <2>2. TypeOK /\ ReadoutPhase /\ ResultsOrdered /\ ReturnedOnce
    BY <2>1 DEF IInv, Pipeline
  <2>3. r.got # 0 => r.got = r.cur \/ (overrun /\ r.got > r.cur)
    BY <2>2 DEF TypeOK, RType, RPCs, ReadoutPhase
  <2>4. DOMAIN results = 1 .. Len(results)
    BY <2>2 DEF TypeOK
  <2>5. \A a, b \in DOMAIN results : a < b => results[a] < results[b]
    BY <2>2, <2>4 DEF ResultsOrdered
  <2>. QED
    BY <2>2, <2>3, <2>5 DEF FramesInStep, ReturnedOnce
<1>. QED
  BY <1>1, AlwaysIInv, PTL

(* No buffer is locked when the framework gets it back, and the frames     *)
(* whose buffers stay locked for ever are at most as many as the waits and *)
(* locks that failed.                                                      *)
THEOREM LocksReleased == Spec => []LocksFollowOwnership
<1>1. IInv => LocksFollowOwnership
  BY DEF IInv, LocksKnown, OrphansFailed, Orphans, LocksFollowOwnership
<1>. QED
  BY <1>1, AlwaysIInv, PTL

(* While the sensor has not read its controls between the two setters of   *)
(* one request, every result was announced by its shutter notification and *)
(* none was announced twice.                                               *)
THEOREM ResultsAnnounced == Spec => []ShutterAnnouncesResult
<1>1. IInv => ShutterAnnouncesResult
  BY DEF IInv, Announced, ShuttersOnce, ShutterAnnouncesResult
<1>. QED
  BY <1>1, AlwaysIInv, PTL

(* In READY no frame waits in the queue or inside the sensor, so that the  *)
(* streams can be configured anew.                                         *)
THEOREM ReadyIsDrained == Spec => []ReadyMeansDrained
<1>1. IInv => ReadyMeansDrained
  <2>1. SUFFICES ASSUME IInv, status = "READY", ~HoldsLock
                 PROVE  queue = <<>> /\ captured = 0 /\ s.next = 0 /\ s.taken = 0 /\ s.exposed = 0
    BY DEF ReadyMeansDrained
  <2>2. queue = <<>> /\ (r.cur = 0 \/ r.got # 0) /\ ~Handed
    BY <2>1 DEF IInv, ReadyDrained, InRequest, Handed
  <2>3. Range(queue) = {}
    BY <2>2 DEF Range
  <2>4. InSensor = {}
    BY <2>1, <2>2, <2>3 DEF IInv, Pipeline, InStep, Awaited
  <2>. QED
    BY <2>2, <2>4 DEF InSensor
<1>. QED
  BY <1>1, AlwaysIInv, PTL
=============================================================================
