---------------------------- MODULE FakeCamera3 ----------------------------
(***************************************************************************)
(* The capture pipeline of the fake camera HAL of the Android image        *)
(* (android/camera/EmulatedFakeCamera3.cpp and fake-pipeline2): the        *)
(* framework's thread in processCaptureRequest, the Sensor thread, the     *)
(* ReadoutThread and the JpegCompressor thread.                            *)
(*                                                                         *)
(* A request is its frame number n; it has a preview buffer and, when n is *)
(* in jpegs, a BLOB buffer that the compressor fills.  Images, settings    *)
(* and the fake 3A are data and left out.  A wait with a time-out that is  *)
(* simply repeated is a wait; one that gives up may give up at any time.   *)
(* A wait on a condition may also end without a signal; where the code     *)
(* does not test again it goes on.                                         *)
(* A step that uses an object after its release is undefined in C++: the   *)
(* model then stops.                                                       *)
(***************************************************************************)
EXTENDS Naturals, Sequences, FiniteSets, Functions

CONSTANTS MaxFrames,     \* bound: requests the framework submits
          JpegFrames,    \* bound: requests with a BLOB buffer
          FailFrames,    \* bound: requests whose fences or locks may fail
          kMaxQueueSize  \* room of the in-flight queue (2 in the code)

ASSUME CameraAssumption == /\ MaxFrames \in Nat
                           /\ JpegFrames \subseteq 1..MaxFrames /\ FailFrames \subseteq 1..MaxFrames
                           /\ kMaxQueueSize \in Nat \ {0}

VARIABLES
  status,    \* mStatus
  streams,   \* configured streams: "preview", "blob"
  f,         \* framework thread: pc, n = frame it submits
  jpegs,     \* frames with a BLOB buffer
  failures,  \* waits and locks that failed
  locked,    \* buffers locked for writing: <<n, stream>>
  s,         \* Sensor: pc, mNextBuffers, mFrameNumber, its frames in the works
  captured,  \* mCapturedBuffers: a frame, 0 for NULL
  queue,     \* mInFlightQueue
  r,         \* ReadoutThread: pc, mCurrentRequest, the frame read out, mThreadActive
  j,         \* JpegCompressor: pc, mIsBusy, mJpegWaiting, mJpegFrameNumber
  shutters,  \* frame numbers of the shutter notifications, in order
  results,   \* frame numbers of the results, in order
  returned,  \* buffers given back to the framework, in order: <<n, stream>>
  split,     \* the sensor read its controls between two setters of one request
  lost,      \* the sensor waits for a signal that was not sent
  overrun,   \* woken without a signal, the sensor has overwritten a frame
  undefined  \* a released object was used

fVars == <<f, jpegs, failures>>
outVars == <<shutters, results, returned>>
marks == <<split, lost, overrun>>
flags == <<marks, undefined>>
vars == <<status, streams, fVars, locked, s, captured, queue, r, j, outVars, flags>>

BuffersOf(n) == {<<n, "preview">>} \cup (IF n \in jpegs THEN {<<n, "blob">>} ELSE {})
Alive == ~undefined

Init ==
  /\ status = "READY" /\ streams = {"preview", "blob"}
  /\ f = [pc |-> "idle", n |-> 0] /\ jpegs = {} /\ failures = 0 /\ locked = {}
  /\ s = [pc |-> "stage1", next |-> 0, number |-> 0, taken |-> 0, takenNumber |-> 0,
          exposed |-> 0, exit |-> FALSE]
  /\ captured = 0 /\ queue = <<>>
  /\ r = [pc |-> "top", cur |-> 0, got |-> 0, active |-> FALSE, exit |-> FALSE]
  /\ j = [pc |-> "none", busy |-> FALSE, waiting |-> FALSE, n |-> 0]
  /\ shutters = <<>> /\ results = <<>> /\ returned = <<>>
  /\ split = FALSE /\ lost = FALSE /\ overrun = FALSE /\ undefined = FALSE

----------------------------------------------------------------------------
(* The framework's thread.  It holds mLock from the call to the return of  *)
(* processCaptureRequest and of closeCamera, except while it joins.        *)

HoldsLock == f.pc \notin {"idle", "join", "closed"}

configureStreams(new) ==
  /\ Alive /\ f.pc = "idle" /\ status \in {"OPEN", "READY"}
  /\ new # streams /\ f.n < MaxFrames
  /\ streams' = new
  /\ UNCHANGED <<status, fVars, locked, s, captured, queue, r, j, outVars, flags>>

(* All buffers are validated, waited for and locked.                       *)
processCaptureRequest(jpeg) ==
  /\ Alive /\ f.pc = "idle" /\ f.n < MaxFrames /\ status \in {"READY", "ACTIVE"}
  /\ "preview" \in streams /\ (jpeg <=> "blob" \in streams /\ f.n + 1 \in JpegFrames)
  /\ LET n == f.n + 1 IN
     /\ status' = "ACTIVE"
     /\ jpegs' = IF jpeg THEN jpegs \cup {n} ELSE jpegs
     /\ locked' = locked \cup {<<n, "preview">>} \cup (IF jpeg THEN {<<n, "blob">>} ELSE {})
     /\ f' = [pc |-> IF jpeg THEN "jpeg" ELSE "room", n |-> n]
  /\ UNCHANGED <<streams, failures, s, captured, queue, r, j, outVars, flags>>

(* Waiting for a fence or locking fails at the first or the second buffer; *)
(* the cleanup unlocks the buffer that failed, not the ones before it.     *)
LockFails(jpeg) ==
  /\ Alive /\ f.pc = "idle" /\ f.n < MaxFrames /\ status \in {"READY", "ACTIVE"}
  /\ "preview" \in streams /\ (jpeg <=> "blob" \in streams /\ f.n + 1 \in JpegFrames)
  /\ f.n + 1 \in FailFrames
  /\ failures' = failures + 1
  /\ status' = "ACTIVE"
  /\ f' = [f EXCEPT !.n = @ + 1]
  /\ \/ locked' = locked
     \/ jpeg /\ locked' = locked \cup {<<f.n + 1, "preview">>}
  /\ jpegs' = jpegs
  /\ UNCHANGED <<streams, s, captured, queue, r, j, outVars, flags>>

waitForDone ==
  /\ Alive /\ f.pc = "jpeg"
  /\ f' = [f EXCEPT !.pc = IF j.busy THEN "jpegBusy" ELSE "room"]
  /\ UNCHANGED <<status, streams, jpegs, failures, locked, s, captured, queue, r, j, outVars, flags>>

waitForReadout ==
  /\ Alive /\ f.pc = "room" /\ Len(queue) < kMaxQueueSize
  /\ f' = [f EXCEPT !.pc = "vsync"]
  /\ UNCHANGED <<status, streams, jpegs, failures, locked, s, captured, queue, r, j, outVars, flags>>

(* waitForDone does not test mIsBusy again.                                *)
WokenBusy ==
  /\ Alive /\ f.pc = "jpegBusy" /\ j.busy
  /\ f' = [f EXCEPT !.pc = "room"]
  /\ UNCHANGED <<status, streams, jpegs, failures, locked, s, captured, queue, r, j, outVars, flags>>

(* One of the three waits gives up, as each does after a limited number of *)
(* rounds: NO_INIT, with the buffers locked.                               *)
GiveUp ==
  /\ Alive /\ f.pc \in {"jpegBusy", "room", "vsync"}
  /\ f.pc = "room" => Len(queue) >= kMaxQueueSize
  /\ f' = [f EXCEPT !.pc = "idle"]
  /\ failures' = failures + 1
  /\ UNCHANGED <<status, streams, jpegs, locked, s, captured, queue, r, j, outVars, flags>>

setDestinationBuffers ==
  /\ Alive /\ f.pc = "set"
  /\ s' = [s EXCEPT !.next = f.n]
  /\ f' = [f EXCEPT !.pc = "number"]
  /\ UNCHANGED <<status, streams, jpegs, failures, locked, captured, queue, r, j, outVars, flags>>

setFrameNumber ==
  /\ Alive /\ f.pc = "number"
  /\ s' = [s EXCEPT !.number = f.n]
  /\ f' = [f EXCEPT !.pc = "queue"]
  /\ UNCHANGED <<status, streams, jpegs, failures, locked, captured, queue, r, j, outVars, flags>>

queueCaptureRequest ==
  /\ Alive /\ f.pc = "queue"
  /\ queue' = Append(queue, f.n)
  /\ f' = [f EXCEPT !.pc = "idle"]
  /\ UNCHANGED <<status, streams, jpegs, failures, locked, s, captured, r, j, outVars, flags>>

(* The framework may close the device at any time between its calls.       *)
closeCamera ==
  /\ Alive /\ f.pc = "idle" /\ status # "CLOSED"
  /\ f' = [f EXCEPT !.pc = "shutDown"]
  /\ s' = [s EXCEPT !.exit = TRUE]
  /\ UNCHANGED <<status, streams, jpegs, failures, locked, captured, queue, r, j, outVars, flags>>

SensorIsDown ==
  /\ Alive /\ f.pc = "shutDown" /\ s.pc = "exited"
  /\ f' = [f EXCEPT !.pc = "join"]
  /\ r' = [r EXCEPT !.exit = TRUE]
  /\ UNCHANGED <<status, streams, jpegs, failures, locked, s, captured, queue, j, outVars, flags>>

ReadoutJoined ==
  /\ Alive /\ f.pc = "join" /\ r.pc = "exited"
  /\ f' = [f EXCEPT !.pc = "closed"]
  /\ status' = "CLOSED" /\ streams' = {}
  /\ UNCHANGED <<jpegs, failures, locked, s, captured, queue, r, j, outVars, flags>>

----------------------------------------------------------------------------
(* Sensor::threadLoop.                                                     *)

ReadControls ==
  /\ Alive /\ s.pc = "stage1"
  /\ IF s.exit THEN s' = [s EXCEPT !.pc = "exited"]
     ELSE s' = [s EXCEPT !.pc = "stage3", !.taken = s.next, !.takenNumber = s.number, !.next = 0]
  /\ f' = IF f.pc = "vsync" /\ ~s.exit THEN [f EXCEPT !.pc = "set"] ELSE f
  /\ split' = (split \/ (f.pc = "number" /\ ~s.exit))
  /\ UNCHANGED <<status, streams, jpegs, failures, locked, captured, queue, r, j, outVars, lost, overrun, undefined>>

(* Start of the exposure of frame n: a shutter notification.              *)
onSensorEvent(n) == Append(shutters, n)

\* Mutant of HandOver: the frame number is read when the exposure starts.
HandOverNumber(sensor) ==
  /\ captured' = IF sensor.exposed # 0 THEN sensor.exposed ELSE captured
  /\ r' = IF sensor.exposed # 0 /\ r.pc = "sleep" THEN [r EXCEPT !.pc = "woken"] ELSE r
  /\ s' = [sensor EXCEPT !.pc = "stage1", !.exposed = sensor.taken,
                              !.taken = 0, !.takenNumber = 0]
  /\ shutters' = IF sensor.taken # 0 THEN onSensorEvent(sensor.number) ELSE shutters

(* The captured frame is handed over, waiting readout threads are woken,   *)
(* and the exposure of the next one starts with its notification.          *)
HandOver(sensor) ==
  /\ captured' = IF sensor.exposed # 0 THEN sensor.exposed ELSE captured
  /\ r' = IF sensor.exposed # 0 /\ r.pc = "sleep" THEN [r EXCEPT !.pc = "woken"] ELSE r
  /\ s' = [sensor EXCEPT !.pc = "stage1", !.exposed = sensor.taken,
                              !.taken = 0, !.takenNumber = 0]
  /\ shutters' = IF sensor.taken # 0 THEN onSensorEvent(sensor.takenNumber) ELSE shutters

\* Mutant of ReadOutImage: the sensor does not wait for the readout thread.
ReadOutImageAtOnce ==
  /\ Alive /\ s.pc = "stage3"
  /\ HandOver(s)
  /\ UNCHANGED <<status, streams, fVars, locked, queue, j, results, returned, flags>>

ReadOutImage ==
  /\ Alive /\ s.pc = "stage3" /\ (s.exposed # 0 => captured = 0)
  /\ HandOver(s)
  /\ UNCHANGED <<status, streams, fVars, locked, queue, j, results, returned, flags>>

WaitForReadoutThread ==
  /\ Alive /\ s.pc = "stage3" /\ s.exposed # 0 /\ captured # 0
  /\ s' = [s EXCEPT !.pc = "waiting"]
  /\ UNCHANGED <<status, streams, fVars, locked, captured, queue, r, j, outVars, flags>>

(* The wait ends without a signal.                                         *)
SensorWoken ==
  /\ Alive /\ s.pc = "waiting"
  /\ s' = [s EXCEPT !.pc = "completed"]
  /\ UNCHANGED <<status, streams, fVars, locked, captured, queue, r, j, outVars, flags>>

(* mCapturedBuffers is not tested again after the wait.                    *)
ReadoutCompleted ==
  /\ Alive /\ s.pc = "completed"
  /\ HandOver(s)
  /\ overrun' = (overrun \/ captured # 0)
  /\ UNCHANGED <<status, streams, fVars, locked, queue, j, results, returned, split, lost, undefined>>

----------------------------------------------------------------------------
(* ReadoutThread::threadLoop.  mSensor is released before the join.        *)

SensorReleased == f.pc \in {"join", "closed"}

WaitForRequest ==
  /\ Alive /\ r.pc = "top" /\ r.cur = 0 /\ ~r.exit /\ queue = <<>>
  /\ r' = [r EXCEPT !.pc = "wait"]
  /\ UNCHANGED <<status, streams, fVars, locked, s, captured, queue, j, outVars, flags>>

RequestTimesOut ==
  /\ Alive /\ r.pc = "wait"
  /\ r' = [r EXCEPT !.pc = "top"]
  /\ UNCHANGED <<status, streams, fVars, locked, s, captured, queue, j, outVars, flags>>

(* The wait ends without a signal: the front of an empty list is taken.    *)
WokenForNothing ==
  /\ Alive /\ r.pc = "wait" /\ queue = <<>>
  /\ undefined' = TRUE
  /\ UNCHANGED <<status, streams, fVars, locked, s, captured, queue, r, j, outVars, marks>>

TakeRequest ==
  /\ Alive /\ queue # <<>>
  /\ r.pc = "wait" \/ (r.pc = "top" /\ r.cur = 0 /\ ~r.exit)
  /\ r' = [r EXCEPT !.pc = "frame", !.cur = Head(queue), !.active = TRUE]
  /\ queue' = Tail(queue)
  /\ UNCHANGED <<status, streams, fVars, locked, s, captured, j, outVars, flags>>

(* mCurrentRequest still waits for its frame.                              *)
SameRequest ==
  /\ Alive /\ r.pc = "top" /\ r.cur # 0 /\ ~r.exit
  /\ r' = [r EXCEPT !.pc = "frame"]
  /\ UNCHANGED <<status, streams, fVars, locked, s, captured, queue, j, outVars, flags>>

ReadoutExits ==
  /\ Alive /\ r.pc = "top" /\ r.exit
  /\ r' = [r EXCEPT !.pc = "exited"]
  /\ UNCHANGED <<status, streams, fVars, locked, s, captured, queue, j, outVars, flags>>

\* Mutant of waitForNewFrame: the sensor is not signalled.
waitForNewFrameSilent ==
  /\ Alive /\ r.pc = "frame"
  /\ IF SensorReleased THEN undefined' = TRUE /\ UNCHANGED <<r, s, captured>>
     ELSE /\ r' = IF captured = 0 THEN [r EXCEPT !.pc = "sleep"]
                  ELSE [r EXCEPT !.pc = "got", !.got = captured]
          /\ UNCHANGED s
          /\ captured' = 0
          /\ UNCHANGED undefined
  /\ UNCHANGED <<status, streams, fVars, locked, queue, j, outVars, marks>>

(* waitForNewFrame: a frame that is there is taken and the sensor told;    *)
(* otherwise the thread sleeps, and what it is woken for it takes silently. *)
waitForNewFrame ==
  /\ Alive /\ r.pc = "frame"
  /\ IF SensorReleased THEN undefined' = TRUE /\ UNCHANGED <<r, s, captured>>
     ELSE /\ r' = IF captured = 0 THEN [r EXCEPT !.pc = "sleep"]
                  ELSE [r EXCEPT !.pc = "got", !.got = captured]
          /\ s' = IF captured # 0 /\ s.pc = "waiting" THEN [s EXCEPT !.pc = "completed"] ELSE s
          /\ captured' = 0
          /\ UNCHANGED undefined
  /\ UNCHANGED <<status, streams, fVars, locked, queue, j, outVars, marks>>

(* The Sensor may have been destroyed around the sleeping thread.          *)
WokenForFrame ==
  /\ Alive /\ r.pc = "woken"
  /\ IF SensorReleased THEN undefined' = TRUE /\ UNCHANGED <<r, captured, lost>>
     ELSE /\ r' = [r EXCEPT !.pc = "got", !.got = captured]
          /\ captured' = 0
          /\ lost' = (lost \/ s.pc = "waiting")
          /\ UNCHANGED undefined
  /\ UNCHANGED <<status, streams, fVars, locked, s, queue, j, outVars, split, overrun>>

(* No frame in time, or woken without one.                                 *)
FrameTimesOut ==
  /\ Alive /\ r.pc = "sleep"
  /\ IF SensorReleased THEN undefined' = TRUE /\ UNCHANGED r
     ELSE r' = [r EXCEPT !.pc = "top"] /\ UNCHANGED undefined
  /\ UNCHANGED <<status, streams, fVars, locked, s, captured, queue, j, outVars, marks>>

(* Can the compressor take the frame?  run() refuses a thread that has not *)
(* ended yet; start() then has deleted the buffers and stays busy.         *)
CanCompress == r.cur \in jpegs /\ ~j.waiting /\ ~j.busy
RunRefused == CanCompress /\ j.pc # "none"

\* Mutant of StartJpeg: only a request without compression is unlocked.
StartJpegLocked ==
  /\ Alive /\ r.pc = "got"
  /\ j' = IF CanCompress
          THEN [pc |-> IF RunRefused THEN j.pc ELSE "compress", busy |-> TRUE,
                waiting |-> ~RunRefused, n |-> r.cur]
          ELSE j
  /\ undefined' = RunRefused
  /\ locked' = locked \ (IF CanCompress THEN {} ELSE BuffersOf(r.cur))
  /\ r' = [r EXCEPT !.pc = IF queue = <<>> THEN "idle" ELSE "send",
                    !.active = queue # <<>>]
  /\ UNCHANGED <<status, streams, fVars, s, captured, queue, outVars, marks>>

StartJpeg ==
  /\ Alive /\ r.pc = "got"
  /\ j' = IF CanCompress
          THEN [pc |-> IF RunRefused THEN j.pc ELSE "compress", busy |-> TRUE,
                waiting |-> ~RunRefused, n |-> r.cur]
          ELSE j
  /\ undefined' = RunRefused
  /\ locked' = locked \ (IF CanCompress THEN {<<r.cur, "preview">>} ELSE BuffersOf(r.cur))
  /\ r' = [r EXCEPT !.pc = IF queue = <<>> THEN "idle" ELSE "send",
                    !.active = queue # <<>>]
  /\ UNCHANGED <<status, streams, fVars, s, captured, queue, outVars, marks>>

\* Mutant of signalReadoutIdle: isIdle is not tested again under mLock.
signalReadoutIdleAtOnce ==
  /\ Alive /\ r.pc = "idle" /\ ~HoldsLock
  /\ status' = IF status = "ACTIVE" THEN "READY" ELSE status
  /\ r' = [r EXCEPT !.pc = "send"]
  /\ UNCHANGED <<streams, fVars, locked, s, captured, queue, j, outVars, flags>>

signalReadoutIdle ==
  /\ Alive /\ r.pc = "idle" /\ ~HoldsLock
  /\ status' = IF status = "ACTIVE" /\ queue = <<>> /\ ~r.active THEN "READY" ELSE status
  /\ r' = [r EXCEPT !.pc = "send"]
  /\ UNCHANGED <<streams, fVars, locked, s, captured, queue, j, outVars, flags>>

Compressing(n) == j.n = n /\ n \in jpegs

sendCaptureResult ==
  /\ Alive /\ r.pc = "send"
  /\ results' = Append(results, r.cur)
  /\ returned' = returned \o <<<<r.cur, "preview">>>> \o
                 (IF r.cur \in jpegs /\ ~Compressing(r.cur) THEN <<<<r.cur, "blob">>>> ELSE <<>>)
  /\ r' = [r EXCEPT !.pc = "top", !.cur = 0, !.got = 0]
  /\ UNCHANGED <<status, streams, fVars, locked, s, captured, queue, j, shutters, flags>>

----------------------------------------------------------------------------
(* JpegCompressor::threadLoop: the buffer is returned within onJpegDone of *)
(* the readout thread's object, then cleanUp, then the thread ends.        *)

ReadoutReleased == f.pc = "closed"

onJpegDone ==
  /\ Alive /\ j.pc = "compress"
  /\ IF ReadoutReleased THEN undefined' = TRUE /\ UNCHANGED <<j, locked, returned>>
     ELSE /\ j' = [j EXCEPT !.pc = "cleanUp", !.waiting = FALSE]
          /\ locked' = locked \ {<<j.n, "blob">>}
          /\ returned' = Append(returned, <<j.n, "blob">>)
          /\ UNCHANGED undefined
  /\ UNCHANGED <<status, streams, fVars, s, captured, queue, r, shutters, results, marks>>

cleanUp ==
  /\ Alive /\ j.pc = "cleanUp"
  /\ j' = [j EXCEPT !.pc = "ending", !.busy = FALSE]
  /\ f' = IF f.pc = "jpegBusy" THEN [f EXCEPT !.pc = "room"] ELSE f
  /\ undefined' = ReadoutReleased
  /\ UNCHANGED <<status, streams, jpegs, failures, locked, s, captured, queue, r, outVars, marks>>

CompressorEnds ==
  /\ Alive /\ j.pc = "ending"
  /\ j' = [j EXCEPT !.pc = "none"]
  /\ UNCHANGED <<status, streams, fVars, locked, s, captured, queue, r, outVars, flags>>

----------------------------------------------------------------------------
Framework == \/ \E new \in {{"preview"}, {"preview", "blob"}} : configureStreams(new)
             \/ \E jpeg \in BOOLEAN : processCaptureRequest(jpeg) \/ LockFails(jpeg)
             \/ closeCamera
InCall == \/ waitForDone \/ waitForReadout \/ setDestinationBuffers \/ setFrameNumber
          \/ queueCaptureRequest \/ SensorIsDown \/ ReadoutJoined
SensorThread == ReadControls \/ ReadOutImage \/ WaitForReadoutThread \/ ReadoutCompleted
Readout == \/ TakeRequest \/ SameRequest \/ ReadoutExits \/ waitForNewFrame \/ WokenForFrame
           \/ StartJpeg \/ signalReadoutIdle \/ sendCaptureResult
TimesOut == GiveUp \/ RequestTimesOut \/ FrameTimesOut
Compressor == onJpegDone \/ cleanUp \/ CompressorEnds
Spurious == WokenBusy \/ SensorWoken \/ WokenForNothing

Next == Framework \/ InCall \/ SensorThread \/ Readout \/ WaitForRequest \/ TimesOut \/ Compressor \/ Spurious

Spec == /\ Init /\ [][Next]_vars
        /\ WF_vars(InCall) /\ WF_vars(SensorThread) /\ WF_vars(Readout)
        /\ WF_vars(GiveUp) /\ WF_vars(RequestTimesOut) /\ WF_vars(FrameTimesOut) /\ WF_vars(Compressor)

----------------------------------------------------------------------------
(* PROPERTIES *)

Submitted == 1..f.n

(* The image a result is built from was exposed for this request, results  *)
(* come in the order of the frame numbers and once each, and no buffer is  *)
(* given back twice: the queue of the readout thread and the two frames    *)
(* inside the sensor never get out of step.  The one exception is the wait *)
(* of the sensor ended without a signal: it overwrites mCapturedBuffers,   *)
(* and from then on a result may carry the image of a later request, never *)
(* of an earlier one.                                                      *)
FramesInStep ==
  /\ r.got # 0 => r.got = r.cur \/ (overrun /\ r.got > r.cur)
  /\ \A a, b \in DOMAIN results : a < b => results[a] < results[b]
  /\ Cardinality(Range(returned)) = Len(returned)

(* A buffer is unlocked before the framework gets it back, and one that    *)
(* stays locked belongs to a request on its way or to one that failed.     *)
LocksFollowOwnership ==
  /\ Range(returned) \cap locked = {}
  /\ Cardinality({b[1] : b \in locked}
        \ (Range(queue) \cup {r.cur, j.n, IF f.pc = "idle" THEN 0 ELSE f.n})) <= failures

(* Every result was announced by a shutter notification of its number, if  *)
(* the sensor never read its controls between setDestinationBuffers and    *)
(* setFrameNumber.                                                         *)
ShutterAnnouncesResult ==
  ~split => /\ Range(results) \subseteq Range(shutters)
            /\ Cardinality(Range(shutters)) = Len(shutters)

(* READY means drained: signalReadoutIdle tests the queue again under      *)
(* mLock, so no request waits in the queue or in the sensor while          *)
(* configureStreams is possible.                                           *)
ReadyMeansDrained ==
  status = "READY" /\ ~HoldsLock =>
    queue = <<>> /\ captured = 0 /\ s.next = 0 /\ s.taken = 0 /\ s.exposed = 0

(* closeCamera keeps mLock while it waits for the sensor, the sensor waits *)
(* for the readout thread, and this one for mLock in signalReadoutIdle.    *)
CloseDeadlock == f.pc = "shutDown" /\ s.pc = "waiting" /\ r.pc = "idle"

(* Requests that were queued and whose buffers have not all come back.     *)
Unanswered == {n \in Range(queue) \cup {r.cur, j.n} : n # 0 /\ ~(BuffersOf(n) \subseteq Range(returned))}

(* Every buffer of a request that was accepted comes back unless the       *)
(* device is closed first, and closeCamera returns: the waits of the       *)
(* sensor, the readout thread, the compressor and the framework end, also  *)
(* when processCaptureRequest waits for room with mLock held while the     *)
(* readout thread waits for mLock.  Excepted are the wake-up that          *)
(* waitForNewFrame does not send, a frame overwritten after a wake-up      *)
(* without signal, an object used after its release, and the one deadlock  *)
(* of closeCamera.                                                         *)
AcceptedFramesAnswered ==
  (Unanswered # {} \/ f.pc = "shutDown") ~>
    \/ Unanswered = {} /\ f.pc # "shutDown"
    \/ f.pc = "closed" \/ lost \/ overrun \/ undefined \/ CloseDeadlock
=============================================================================
