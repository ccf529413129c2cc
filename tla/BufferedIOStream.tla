-------------------------- MODULE BufferedIOStream --------------------------
(***************************************************************************)
(* One OpenGL ES connection of the guest: the stream between its socket    *)
(* and its render thread.  Three threads share a BufferedIOStream:         *)
(*                                                                         *)
(*   conn    the I/O thread that reads the guest's socket, posts the data  *)
(*           and, at end of file, destroys the OpenGlesMessageProcessor    *)
(*   render  RenderThread::main: reads, decodes, commits replies           *)
(*   worker  BufferedIOStream::thread_main: sends the replies              *)
(*                                                                         *)
(* in_queue_ is guarded by lock_ and out_queue_ by out_lock_, except that  *)
(* forceStop closes both while it holds lock_ only.  The steps on          *)
(* out_queue_ are therefore cut at every access to closed_ or count_ that  *)
(* forceStop can come between.  Bytes are numbered in the order in which   *)
(* their source produces them.                                             *)
(***************************************************************************)
EXTENDS BufferQueueOps

CONSTANTS
  InCapacity,    \* in_queue_(1024U)
  OutCapacity,   \* out_queue_(16U)
  StreamBuffer,  \* STREAM_BUFFER_SIZE, the initial size of the ReadBuffer
  MaxChunk,      \* bound: bytes in one Buffer
  MaxIn,         \* bound: bytes the guest sends
  MaxOut         \* bound: bytes the decoders reply

ASSUME StreamAssumption ==
  {InCapacity, OutCapacity, StreamBuffer, MaxChunk, MaxIn, MaxOut} \subseteq Nat \ {0}

VARIABLES
  inQueue, outQueue,
  lock, outLock,   \* the thread that holds lock_ and out_lock_, or "free"
  connPC,          \* conn's place
  chunk,           \* the Buffer conn is posting
  nextIn,          \* number of the next byte from the guest
  stops,           \* calls of forceStop so far
  renderPC,
  readLeft,        \* the last read_buffer_left_ bytes of read_buffer_
  got,             \* what the current read() has copied so far
  valid,           \* m_validData bytes of the ReadBuffer, from m_readPtr
  bufSize,         \* m_size of the ReadBuffer
  reply,           \* the Buffer commitBuffer is pushing
  nextOut,         \* number of the next reply byte
  globalLock,      \* the lock of all render threads: "free", "render" or "other"
  progress,        \* a decoder has consumed something in this round
  workerPC,
  sending,         \* the bytes_left bytes of the Buffer being sent
  socket,          \* "open", or "broken" once send fails for good
  decoded,         \* history: bytes the decoders consumed
  delivered        \* history: reply bytes the guest received

connVars   == <<connPC, chunk, nextIn, stops>>
readVars   == <<readLeft, got, valid, bufSize, decoded>>
replyVars  == <<reply, nextOut>>
decodeVars == <<globalLock, progress>>
workerVars == <<workerPC, sending, socket, delivered>>
streamVars == <<inQueue, outQueue, lock, outLock, connVars, renderPC, readVars,
                replyVars, decodeVars, workerVars>>

Bytes(from, n) == [k \in 1 .. n |-> from + k - 1]
FirstBytes(s, n) == SubSeq(s, 1, n)
DropBytes(s, n)  == SubSeq(s, n + 1, Len(s))

(* What the guest sends and what the decoders reply fit into a Buffer. *)
ASSUME BufferAssumption ==
  \A n \in 1 .. MaxChunk :
    /\ \A i \in 1 .. MaxIn  : i + n <= MaxIn + 1  => Bytes(i, n) \in Data
    /\ \A i \in 1 .. MaxOut : i + n <= MaxOut + 1 => Bytes(i, n) \in Data

StreamInit ==
  /\ inQueue = NewQueue(InCapacity) /\ outQueue = NewQueue(OutCapacity)
  /\ lock = "free" /\ outLock = "free"
  /\ connPC = "receive" /\ chunk = << >> /\ nextIn = 1 /\ stops = 0
  /\ renderPC = "getData"
  /\ readLeft = << >> /\ got = << >> /\ valid = << >>
  /\ bufSize = StreamBuffer /\ decoded = << >>
  /\ reply = << >> /\ nextOut = 1
  /\ globalLock = "free" /\ progress = FALSE
  /\ workerPC = "lock" /\ sending = << >>
  /\ socket = "open" /\ delivered = << >>

----------------------------------------------------------------------------
(* conn: process_data and post_data.  lock_ is held from the start of a    *)
(* push_locked to its return or its wait, so each of these is one step.    *)

(* The pc of conn and of render after notify on in_queue_'s variables. *)
WakePoster(pc) == IF pc = "postAsleep" THEN "post" ELSE pc
WakeReader(pc) == IF pc = "readAsleep" THEN "readAgain" ELSE pc

(* The same for the waiters on out_queue_: they have to lock again. *)
WakePusher(pc) == IF pc = "pushAsleep" THEN "commit" ELSE pc
WakeWorker(pc) == IF pc = "asleep" THEN "lock" ELSE pc

(* The guest's bytes arrive in Buffers of any size. *)
ConnReceives ==
  /\ connPC = "receive"
  /\ \E n \in 1 .. MaxChunk :
       /\ nextIn + n <= MaxIn + 1
       /\ chunk' = Bytes(nextIn, n)
       /\ nextIn' = nextIn + n
  /\ connPC' = "post"
  /\ UNCHANGED <<decodeVars, inQueue, outQueue, lock, outLock, stops, renderPC, readVars,
                 replyVars, workerVars>>

ConnPostWaits ==
  /\ connPC = "post" /\ lock = "free"
  /\ IsFull(inQueue) /\ ~inQueue.closed
  /\ connPC' = "postAsleep"
  /\ UNCHANGED <<decodeVars, inQueue, outQueue, lock, outLock, chunk, nextIn, stops, renderPC,
                 readVars, replyVars, workerVars>>

ConnPosts ==
  /\ connPC = "post" /\ lock = "free"
  /\ CanPush(inQueue)
  /\ inQueue' = Pushed(inQueue, chunk)
  /\ renderPC' = IF WakesPopper(inQueue) THEN WakeReader(renderPC) ELSE renderPC
  /\ chunk' = << >> /\ connPC' = "receive"
  /\ UNCHANGED <<decodeVars, outQueue, lock, outLock, nextIn, stops, readVars, replyVars,
                 workerVars>>

----------------------------------------------------------------------------
(* conn at end of file: ~OpenGlesMessageProcessor calls forceStop, waits   *)
(* for the render thread and destroys it, which calls forceStop again, and *)
(* drops the stream, whose destructor calls it once more and joins the     *)
(* worker.  A forceStop is four steps: lock_ and in_queue_, closed_ of     *)
(* out_queue_, its count_ and the notifications, the unlock.               *)
ConnEndOfFile ==
  /\ connPC = "receive"
  /\ connPC' = "closeIn" /\ stops' = 1
  /\ UNCHANGED <<decodeVars, inQueue, outQueue, lock, outLock, chunk, nextIn, renderPC, readVars,
                 replyVars, workerVars>>

ForceStopClosesIn ==
  /\ connPC = "closeIn" /\ lock = "free"
  /\ lock' = "conn"
  /\ inQueue' = Closed(inQueue)
  /\ renderPC' = IF IsEmpty(inQueue) THEN WakeReader(renderPC) ELSE renderPC
  /\ connPC' = "closeOut"
  /\ UNCHANGED <<decodeVars, outQueue, outLock, chunk, nextIn, stops, readVars, replyVars,
                 workerVars>>

ForceStopClosesOut ==
  /\ connPC = "closeOut"
  /\ outQueue' = Closed(outQueue)
  /\ connPC' = "notifyOut"
  /\ UNCHANGED <<decodeVars, inQueue, lock, outLock, chunk, nextIn, stops, renderPC, readVars,
                 replyVars, workerVars>>

\* Mutant of ForceStopNotifiesOut: close_locked wakes only those who push.
ForceStopNotifiesPusher ==
  /\ connPC = "notifyOut"
  /\ renderPC' = IF IsFull(outQueue) THEN WakePusher(renderPC) ELSE renderPC
  /\ connPC' = "unlock"
  /\ UNCHANGED <<decodeVars, inQueue, outQueue, lock, outLock, chunk, nextIn, stops, readVars,
                 replyVars, workerVars>>

ForceStopNotifiesOut ==
  /\ connPC = "notifyOut"
  /\ renderPC' = IF IsFull(outQueue) THEN WakePusher(renderPC) ELSE renderPC
  /\ workerPC' = IF IsEmpty(outQueue) THEN WakeWorker(workerPC) ELSE workerPC
  /\ connPC' = "unlock"
  /\ UNCHANGED <<decodeVars, inQueue, outQueue, lock, outLock, chunk, nextIn, stops, readVars,
                 replyVars, sending, socket, delivered>>

ForceStopReturns ==
  /\ connPC = "unlock"
  /\ lock' = "free"
  /\ \/ stops = 1 /\ connPC' = "joinRender" /\ UNCHANGED stops
     \/ stops = 2 /\ connPC' = "closeIn" /\ stops' = 3
     \/ stops = 3 /\ connPC' = "joinWorker" /\ UNCHANGED stops
  /\ UNCHANGED <<decodeVars, inQueue, outQueue, outLock, chunk, nextIn, renderPC, readVars,
                 replyVars, workerVars>>

ConnJoins ==
  /\ \/ connPC = "joinRender" /\ renderPC = "done" /\ connPC' = "closeIn" /\ stops' = 2
     \/ connPC = "joinWorker" /\ workerPC = "done" /\ connPC' = "done" /\ UNCHANGED stops
  /\ UNCHANGED <<decodeVars, inQueue, outQueue, lock, outLock, chunk, nextIn, renderPC, readVars,
                 replyVars, workerVars>>

----------------------------------------------------------------------------
(* render: ReadBuffer::getData and BufferedIOStream::read.  read holds     *)
(* lock_ from its first line to its return, except while it waits.         *)

(* getData doubles a full ReadBuffer, then asks for all the free space. *)
GetData ==
  /\ renderPC = "getData" /\ lock = "free"
  /\ bufSize' = IF Len(valid) = bufSize THEN 2 * bufSize ELSE bufSize
  /\ lock' = "render" /\ renderPC' = "reading"
  /\ UNCHANGED <<decodeVars, inQueue, outQueue, outLock, connVars, readLeft, got, valid, decoded,
                 replyVars, workerVars>>

Wanted == bufSize - Len(valid) - Len(got)

\* Mutant of ReadCopies: forgets what is left.
ReadCopiesOnce ==
  /\ renderPC = "reading" /\ Wanted > 0 /\ readLeft # << >>
  /\ LET avail == IF Wanted < Len(readLeft) THEN Wanted ELSE Len(readLeft)
     IN  got' = got \o FirstBytes(readLeft, avail)
  /\ readLeft' = << >>
  /\ UNCHANGED <<decodeVars, inQueue, outQueue, lock, outLock, connVars, renderPC, valid, bufSize,
                 decoded, replyVars, workerVars>>

ReadCopies ==
  /\ renderPC = "reading" /\ Wanted > 0 /\ readLeft # << >>
  /\ LET avail == IF Wanted < Len(readLeft) THEN Wanted ELSE Len(readLeft)
     IN  /\ got' = got \o FirstBytes(readLeft, avail)
         /\ readLeft' = DropBytes(readLeft, avail)
  /\ UNCHANGED <<decodeVars, inQueue, outQueue, lock, outLock, connVars, renderPC, valid, bufSize,
                 decoded, replyVars, workerVars>>

(* pop_locked while nothing was copied, try_pop_locked afterwards: both    *)
(* take an item if there is one.                                           *)
ReadPops ==
  /\ renderPC = "reading" /\ Wanted > 0 /\ readLeft = << >>
  /\ CanPop(inQueue)
  /\ readLeft' = FrontBuffer(inQueue)
  /\ inQueue' = Popped(inQueue)
  /\ connPC' = IF WakesPusher(inQueue) THEN WakePoster(connPC) ELSE connPC
  /\ UNCHANGED <<decodeVars, outQueue, lock, outLock, chunk, nextIn, stops, renderPC, got, valid,
                 bufSize, decoded, replyVars, workerVars>>

ReadWaits ==
  /\ renderPC = "reading" /\ Wanted > 0 /\ readLeft = << >> /\ got = << >>
  /\ IsEmpty(inQueue) /\ ~inQueue.closed
  /\ lock' = "free" /\ renderPC' = "readAsleep"
  /\ UNCHANGED <<decodeVars, inQueue, outQueue, outLock, connVars, readVars, replyVars, workerVars>>

ReadResumes ==
  /\ renderPC = "readAgain" /\ lock = "free"
  /\ lock' = "render" /\ renderPC' = "reading"
  /\ UNCHANGED <<decodeVars, inQueue, outQueue, outLock, connVars, readVars, replyVars, workerVars>>

(* Enough bytes, or some bytes and no more without waiting. *)
ReadReturns ==
  /\ renderPC = "reading"
  /\ Wanted = 0 \/ (readLeft = << >> /\ got # << >> /\ IsEmpty(inQueue))
  /\ valid' = valid \o got /\ got' = << >>
  /\ lock' = "free" /\ renderPC' = "decode"
  /\ UNCHANGED <<decodeVars, inQueue, outQueue, outLock, connVars, readLeft, bufSize, decoded,
                 replyVars, workerVars>>

(* nullptr: the queue is closed and nothing is left; getData returns -1    *)
(* and RenderThread::main leaves its loop.                                 *)
ReadFails ==
  /\ renderPC = "reading" /\ Wanted > 0 /\ readLeft = << >> /\ got = << >>
  /\ IsEmpty(inQueue) /\ inQueue.closed
  /\ lock' = "free" /\ renderPC' = "done"
  /\ UNCHANGED <<decodeVars, inQueue, outQueue, outLock, connVars, readVars, replyVars, workerVars>>

----------------------------------------------------------------------------
(* render: a round of the decoders, under the lock that all connections    *)
(* share.  They consume some whole commands, possibly none, and may answer *)
(* one through allocBuffer and commitBuffer, which can wait for room with  *)
(* the lock held.  After a round without progress more data is read.       *)
DecodeLocks ==
  /\ renderPC = "decode" /\ globalLock = "free"
  /\ globalLock' = "render" /\ renderPC' = "decoding"
  /\ UNCHANGED <<inQueue, outQueue, lock, outLock, connVars, readVars, replyVars, progress,
                 workerVars>>

DecodeConsumes ==
  /\ renderPC = "decoding"
  /\ \E n \in 1 .. Len(valid) :
       /\ decoded' = decoded \o FirstBytes(valid, n)
       /\ valid' = DropBytes(valid, n)
  /\ \/ /\ renderPC' = "decoding"
        /\ UNCHANGED replyVars
     \/ /\ renderPC' = "commit"
        /\ \E n \in 1 .. MaxChunk :
             /\ nextOut + n <= MaxOut + 1
             /\ reply' = Bytes(nextOut, n)
             /\ nextOut' = nextOut + n
  /\ progress' = TRUE
  /\ UNCHANGED <<inQueue, outQueue, lock, outLock, connVars, readLeft, got, bufSize,
                 globalLock, workerVars>>

DecodeEnds ==
  /\ renderPC = "decoding"
  /\ globalLock' = "free" /\ progress' = FALSE
  /\ renderPC' = IF progress THEN "decode" ELSE "getData"
  /\ UNCHANGED <<inQueue, outQueue, lock, outLock, connVars, readVars, replyVars,
                 workerVars>>

(* The render thread of another connection takes the lock and gives it     *)
(* back when it likes: while its guest does not read its replies, not at   *)
(* all.  Nobody else of this connection looks at the lock, so it matters   *)
(* only while its render thread is about to take it.                       *)
OtherConnection ==
  /\ \/ globalLock = "free" /\ renderPC = "decode" /\ globalLock' = "other"
     \/ globalLock = "other" /\ globalLock' = "free"
  /\ UNCHANGED <<inQueue, outQueue, lock, outLock, connVars, renderPC, readVars, replyVars,
                 progress, workerVars>>

CommitLocks ==
  /\ renderPC = "commit" /\ outLock = "free"
  /\ outLock' = "render" /\ renderPC' = "pushTest"
  /\ UNCHANGED <<decodeVars, inQueue, outQueue, lock, connVars, readVars, replyVars, workerVars>>

(* The loop of push_locked sees a full, open queue, ... *)
CommitMustWait ==
  /\ renderPC = "pushTest"
  /\ IsFull(outQueue) /\ ~outQueue.closed
  /\ renderPC' = "pushWait"
  /\ UNCHANGED <<decodeVars, inQueue, outQueue, lock, outLock, connVars, readVars, replyVars,
                 workerVars>>

(* ... and only then unlocks and sleeps. *)
CommitWaits ==
  /\ renderPC = "pushWait"
  /\ renderPC' = "pushAsleep" /\ outLock' = "free"
  /\ UNCHANGED <<decodeVars, inQueue, outQueue, lock, connVars, readVars, replyVars, workerVars>>

(* commitBuffer ignores the -EIO of a closed queue and drops the reply. *)
CommitDrops ==
  /\ renderPC = "pushTest" /\ outQueue.closed
  /\ reply' = << >>
  /\ renderPC' = "decoding" /\ outLock' = "free"
  /\ UNCHANGED <<decodeVars, inQueue, outQueue, lock, connVars, readVars, nextOut, workerVars>>

CommitPushes ==
  /\ renderPC = "pushTest" /\ CanPush(outQueue)
  /\ outQueue' = Pushed(outQueue, reply)
  /\ workerPC' = IF WakesPopper(outQueue) THEN WakeWorker(workerPC) ELSE workerPC
  /\ reply' = << >>
  /\ renderPC' = "decoding" /\ outLock' = "free"
  /\ UNCHANGED <<decodeVars, inQueue, lock, connVars, readVars, nextOut, sending, socket,
                 delivered>>

----------------------------------------------------------------------------
(* worker: thread_main. *)
WorkerLocks ==
  /\ workerPC = "lock" /\ outLock = "free"
  /\ outLock' = "worker" /\ workerPC' = "popTest"
  /\ UNCHANGED <<decodeVars, inQueue, outQueue, lock, connVars, renderPC, readVars, replyVars,
                 sending, socket, delivered>>

WorkerMustWait ==
  /\ workerPC = "popTest"
  /\ IsEmpty(outQueue) /\ ~outQueue.closed
  /\ workerPC' = "popWait"
  /\ UNCHANGED <<decodeVars, inQueue, outQueue, lock, outLock, connVars, renderPC, readVars,
                 replyVars, sending, socket, delivered>>

WorkerWaits ==
  /\ workerPC = "popWait"
  /\ workerPC' = "asleep" /\ outLock' = "free"
  /\ UNCHANGED <<decodeVars, inQueue, outQueue, lock, connVars, renderPC, readVars, replyVars,
                 sending, socket, delivered>>

WorkerPops ==
  /\ workerPC = "popTest" /\ CanPop(outQueue)
  /\ sending' = FrontBuffer(outQueue)
  /\ outQueue' = Popped(outQueue)
  /\ renderPC' = IF WakesPusher(outQueue) THEN WakePusher(renderPC) ELSE renderPC
  /\ workerPC' = "send"
  /\ UNCHANGED <<decodeVars, inQueue, lock, outLock, connVars, readVars, replyVars, socket,
                 delivered>>

\* Mutant of WorkerSends: a short write is taken for a complete one.
WorkerSendsOnce ==
  /\ workerPC = "send" /\ sending # << >> /\ socket = "open"
  /\ \E n \in 1 .. Len(sending) : delivered' = delivered \o FirstBytes(sending, n)
  /\ sending' = << >>
  /\ UNCHANGED <<decodeVars, inQueue, outQueue, lock, outLock, connVars, renderPC, readVars,
                 replyVars, workerPC, socket>>

(* send accepts any part of what is left; EINTR and EAGAIN change nothing. *)
WorkerSends ==
  /\ workerPC = "send" /\ sending # << >> /\ socket = "open"
  /\ \E n \in 1 .. Len(sending) :
       /\ delivered' = delivered \o FirstBytes(sending, n)
       /\ sending' = DropBytes(sending, n)
  /\ UNCHANGED <<decodeVars, inQueue, outQueue, lock, outLock, connVars, renderPC, readVars,
                 replyVars, workerPC, socket>>

(* Any other error, which the socket keeps reporting: the rest is dropped. *)
WorkerSendFails ==
  /\ workerPC = "send" /\ sending # << >>
  /\ socket' = "broken"
  /\ sending' = << >>
  /\ UNCHANGED <<decodeVars, inQueue, outQueue, lock, outLock, connVars, renderPC, readVars,
                 replyVars, workerPC, delivered>>

WorkerUnlocks ==
  /\ workerPC = "send" /\ sending = << >>
  /\ workerPC' = "lock" /\ outLock' = "free"
  /\ UNCHANGED <<decodeVars, inQueue, outQueue, lock, connVars, renderPC, readVars, replyVars,
                 sending, socket, delivered>>

WorkerExits ==
  /\ workerPC = "popTest"
  /\ IsEmpty(outQueue) /\ outQueue.closed
  /\ workerPC' = "done" /\ outLock' = "free"
  /\ UNCHANGED <<decodeVars, inQueue, outQueue, lock, connVars, renderPC, readVars, replyVars,
                 sending, socket, delivered>>

----------------------------------------------------------------------------
(* A wait may also end without a notification. *)
StreamWakesUp ==
  /\ \/ /\ connPC = "postAsleep" /\ connPC' = WakePoster(connPC)
        /\ UNCHANGED <<renderPC, workerPC>>
     \/ /\ renderPC \in {"readAsleep", "pushAsleep"}
        /\ renderPC' = WakeReader(WakePusher(renderPC))
        /\ UNCHANGED <<connPC, workerPC>>
     \/ /\ workerPC = "asleep" /\ workerPC' = WakeWorker(workerPC)
        /\ UNCHANGED <<connPC, renderPC>>
  /\ UNCHANGED <<decodeVars, inQueue, outQueue, lock, outLock, chunk, nextIn, stops, readVars,
                 replyVars, sending, socket, delivered>>

PostData  == ConnPostWaits \/ ConnPosts
ForceStop == ForceStopClosesIn \/ ForceStopClosesOut \/ ForceStopNotifiesOut
             \/ ForceStopReturns
Read      == GetData \/ ReadCopies \/ ReadPops \/ ReadWaits \/ ReadResumes
             \/ ReadReturns \/ ReadFails
Commit    == CommitLocks \/ CommitMustWait \/ CommitWaits \/ CommitDrops \/ CommitPushes
Decode    == DecodeLocks \/ DecodeConsumes \/ DecodeEnds
Render    == Read \/ Decode \/ Commit
Worker    == WorkerLocks \/ WorkerMustWait \/ WorkerWaits \/ WorkerPops \/ WorkerSends
             \/ WorkerSendFails \/ WorkerUnlocks \/ WorkerExits

AllDone == connPC = "done" /\ UNCHANGED streamVars

StreamNext ==
  \/ ConnReceives \/ PostData \/ ConnEndOfFile \/ ForceStop \/ ConnJoins
  \/ Render \/ Worker \/ OtherConnection \/ StreamWakesUp \/ AllDone

(* Threads that can run do run, and a thread that wants a mutex gets it    *)
(* although others take it again and again.  A send that cannot go on      *)
(* fails: forceStop is called once the guest has closed the socket.        *)
(* Nothing is assumed of the other connection: it may keep the lock.       *)
Fairness ==
  /\ WF_streamVars(PostData) /\ WF_streamVars(ForceStop) /\ WF_streamVars(ConnJoins)
  /\ WF_streamVars(Render) /\ SF_streamVars(Read) /\ SF_streamVars(DecodeLocks)
  /\ SF_streamVars(CommitLocks)
  /\ WF_streamVars(Worker) /\ SF_streamVars(WorkerLocks)
  /\ SF_streamVars(ForceStopClosesIn)

StreamSpec == StreamInit /\ [][StreamNext]_streamVars
FairSpec == StreamSpec /\ Fairness

----------------------------------------------------------------------------
(* The i-th Buffer of c starts with this byte; after the last comes next.  *)
StartOf(c, i, next) == IF i <= Len(c) THEN c[i][1] ELSE next

(* The Buffers of c are the bytes from .. next - 1, cut into runs.         *)
Carries(c, from, next) ==
  /\ StartOf(c, 1, next) = from
  /\ \A i \in 1 .. Len(c) :
       LET start == StartOf(c, i, next)
           end   == StartOf(c, i + 1, next)
       IN  start < end /\ c[i] = Bytes(start, end - start)

(* Between the socket and the decoders no byte is lost, repeated or        *)
(* overtaken: not by the partial reads, the growth of the ReadBuffer, the  *)
(* full queue or the close.  What the render thread has taken is the       *)
(* beginning of what the guest sent, the Buffers in the queue go on from   *)
(* there, and the one being posted follows.  The render thread leaves only *)
(* after all that was posted has reached its ReadBuffer.                   *)
Taken == decoded \o valid \o got \o readLeft
InputConserved ==
  LET posted == nextIn - Len(chunk)
  IN  /\ Taken = Bytes(1, Len(Taken))
      /\ Carries(Contents(inQueue), Len(Taken) + 1, posted)
      /\ chunk = Bytes(posted, Len(chunk))
      /\ renderPC = "done" => Len(decoded) + Len(valid) = nextIn - 1

(* The guest receives the replies in order and without a gap; as long as   *)
(* the socket works and the stream is open they are all still on their     *)
(* way.                                                                    *)
Sent == delivered \o sending
RepliesInOrder ==
  LET pushed == nextOut - Len(reply)
  IN  /\ delivered = Bytes(1, Len(delivered)) /\ Len(delivered) < nextOut
      /\ socket = "open" /\ ~outQueue.closed =>
           /\ Sent = Bytes(1, Len(Sent))
           /\ Carries(Contents(outQueue), Len(Sent) + 1, pushed)
           /\ reply = Bytes(pushed, Len(reply))

(* forceStop ends the threads of the connection.  The wait for the render  *)
(* thread in ~OpenGlesMessageProcessor returns, or else the thread stands  *)
(* for ever before the lock that another connection keeps: nowhere else.   *)
(* The join of the worker in ~BufferedIOStream returns, or else the last   *)
(* notification came, without out_lock_, between the worker's test of      *)
(* closed_ and its wait: in no other place does the worker miss it.        *)
ForceStopEndsThreads ==
  /\ stops > 0 ~> (renderPC = "done" \/ [](renderPC = "decode" /\ globalLock = "other"))
  /\ (connPC = "notifyOut" /\ stops = 3 /\ workerPC # "popWait") ~> connPC = "done"
=============================================================================
