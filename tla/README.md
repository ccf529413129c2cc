# Anbox: a TLA+ verification project

The repository holds the sources of the Integrated Edge Cloud. Most of it
installs things: shell scripts, YAML, vendored frameworks. The program with
logic of its own is Anbox, `src/src/type3_AndroidCloud/anbox-master`: the host
side in `src/anbox` (below, paths are relative to that directory) and the
drivers and daemons of the Android image in `android` (below: `android/...`). It
runs Android in an LXC container and gives the container a display, windows,
OpenGL ES, adb, a camera and a remote control. This project models its
concurrent core.

1. [The system](#1-the-system)
2. [Modules and code](#2-modules-and-code)
3. [Runs](#3-runs)
4. [Fairness](#4-fairness)
5. [Proofs](#5-proofs)
6. [Where code and statements disagree](#6-where-code-and-statements-disagree)
7. [What is not modelled](#7-what-is-not-modelled)
8. [Plan](#8-plan)

## 1. The system

Two processes of Anbox run on the host. The **container manager**
(`cmds/container_manager.cpp`, root) owns the LXC container. The **session
manager** (`cmds/session_manager.cpp`, the user) serves the guest: it tells the
container manager to start the container, with sockets of its own mounted into
it, and then speaks to Android over those sockets. Each process has a `Runtime`:
a boost I/O service with a pool of threads, on which every handler runs.

| Component | State | Operations | Speaks to |
|---|---|---|---|
| `graphics/BufferQueue` | ring `buffers_`, `pos_`, `count_`, `closed_`; two condition variables | push, pop, peek, close | `BufferedIOStream` |
| `BufferedIOStream`, `OpenGlesMessageProcessor`, `RenderThread`, `ReadBuffer` | two queues, two mutexes, the Buffer being read, the bytes not yet decoded | post_data, read, commitBuffer, forceStop, worker loop, decode loop | guest socket, `Renderer` |
| `emugl/Renderer`, `RenderThreadInfo` | tables of contexts, surfaces, counted colour buffers, native windows; per thread what it created and what is current | create, destroy, open, close, attach, bind, drain, draw | EGL, composer |
| `rpc/Channel`, `PendingCallCache`, `MessageProcessor`, `common/WaitHandle` | message id, pending calls, receive buffer, result counters | call_method, send_message, process_data, complete_response, force_completion, wait | messenger, stubs, skeletons |
| `network/BaseSocketMessenger`, `SocketConnection`, `Connections` | message lock, connection table | send, read, accept, remove | sockets |
| `bridge/AndroidApiStub`, `container/ManagementApiStub` | one WaitHandle per method, or one per request | launch, focus, remove, resize; start and stop of the container | `rpc` |
| `container/Service`, `ManagementApiSkeleton`, `LxcContainer`, `BinderDeviceAllocator` | the one connection, `state_`, `container_`, `binder_devices_`, the node counter | new_client, start, stop, destructor | liblxc, binderfs |
| `wm`, `platform/sdl`, `graphics` composer, `bridge` | windows per task, SDL windows, native windows, layers | window state update, window events, compose | `Renderer`, `AndroidApiStub` |
| `qemu` pipe services | state of the adb handshake, one static lock, one port; GSM and sensor answers | per-message handlers | guest, adb host |
| `android/qemud` | hooks of the event loop, handlers, clients, channels | callbacks of epoll, accept, registration, disconnection | clients in Android, the emulator's serial line |
| `android/camera` (HAL3) | status, in-flight queue, the sensor's exposure, the compressor, locked buffers | configure, capture, close; three threads | camera framework, gralloc |
| `android/opengl/system` EGL, gralloc | current context per thread, contexts and surfaces, one stream per thread, registered buffers | create, make current, swap, destroy, register, free | render threads of the host |
| `application`, `dbus` | installed packages and their launcher files | store, remove, find, launch | desktop |
| `input`, `audio` | open clients | forward events and samples | guest |

What is hard in it:

* **Several threads on one object.** A stream has an I/O thread, a render thread
  and a worker on two mutexes, and its shutdown takes only one of them. The
  message id is a plain static that every calling thread increments.
* **Waiting for a peer that may hang or die.** Calls wait on counters shared by
  all calls of a method; some have a limit and some do not; threads that wait
  are joined at exit.
* **Failure between two steps.** A start that throws leaves a binder node; a
  manager that crashes leaves a container and nodes; an answer that cannot be
  sent leaves a connection nobody reads.
* **Cut and repeated delivery.** Reads cut the byte stream anywhere; writes to a
  full non-blocking socket are tried again from the beginning.
* **Lifetime of shared objects.** Render threads of different guests create,
  share and destroy each other's objects and may end at any moment. Windows live
  as long as the last pointer, on whichever thread it is; an adb processor can be
  deleted with a handler queued; qemud frees clients within the batch of events
  that still names them.
* **Two sides that must agree.** What a guest thread believes to be bound and
  what its render thread has bound, the channels of qemud and of the emulator,
  the windows of Android and of the host, buffers held and buffers counted:
  each is changed on one side while commands are on the way to the other.

`PROJECT.json` lists these as `hazards`, each with its line and the properties
that would notice it going wrong.

## 2. Modules and code

| Module | Models | Kind |
|---|---|---|
| `BoundedFifo` | what a queue promises | abstract specification |
| `BufferQueueOps` | the pure part of `buffer_queue.cpp` | operators |
| `BufferQueue` | the queue and the threads in its blocking methods | component |
| `BufferQueueProofs` | theorems about `BufferQueue` and `BufferedIOStream` | proofs |
| `BufferedIOStream` | one OpenGL ES connection: stream, render thread, worker | composes two queues |
| `Renderer` | handle tables, reference counts, current objects | component |
| `RpcChannel` | calls, ids, pending calls, wait handles, reader | component |
| `SessionShutdown` | the end of the session manager | composes `RpcChannel` with the main thread |
| `MessageFraming` | header, send, receive, parsing | component |
| `ContainerManager` | service, skeleton, container object, binder nodes, crashes | component |
| `ContainerManagerProofs` | theorems about `ContainerManager` | proofs |
| `Windows` | `MultiWindowManager`, the table of the SDL platform, native windows of the Renderer, a frame being composed | composes four components |
| `Adb` | the adb connections over one lock and one port | component |
| `Qemud` | the qemud daemon with its clients and the emulator | component |
| `FakeCamera3` | the capture pipeline of the fake camera | component |
| `GuestEgl` | EGL and gralloc of the guest, the streams, the tables of the Renderer they drive | composes guest and host |
| `AdbInvariant`, `QemudInvariant` | the inductive invariants of `Adb` and `Qemud`, in their parts | definitions for the proofs |
| `RendererProofs`, `RpcChannelProofs`, `WindowsProofs`, `FakeCamera3Proofs`, `GuestEglProofs`, `QemuProofs` | theorems about the component of that name, `RpcChannelProofs` also about `MessageFraming`, `QemuProofs` about `Adb` and `Qemud` | proofs |
| `MC*` | constants and symmetry for TLC | instances |

In each component module a variable is a field of the code (the comment beside
it says which), an action is a handler or the part of one between two points at
which another thread can come in, and definitions whose comment starts with
"Mutant of" are deliberately wrong variants, used to see that a property can
fail. They are not part of any specification.

**BufferQueue.** A step is what a thread does between taking the mutex and
giving it up. `Pushed`, `Popped` and `Closed` are the three changes of the
object; `WakesPopper` and `WakesPusher` are the conditions under which
`notify_one` is called (only on the step from empty, or from full). Notified
threads go back to the test of their loop, as a waiter on a condition variable
does, and `SpuriousWakeup` is allowed at any time.

**BufferedIOStream.** Bytes are numbered by their source, so that loss,
repetition and overtaking are visible. `in_queue_` is always used under `lock_`,
so its operations are single steps. `out_queue_` is used under `out_lock_` by
its two users and under `lock_` by `forceStop`: their steps are cut at each
access to `closed_` or `count_`, and the test and the wait of a condition
variable are two steps. The decoders consume any number of bytes and may reply.
A round of them runs under `m_lock`, which all render threads share
(`globalLock`): `DecodeLocks`, `DecodeConsumes`, then `DecodeEnds`, and a reply
that waits for room keeps the lock. The render thread of another connection
(`OtherConnection`) takes it when it likes and gives it back when it likes.

**RpcChannel.** A call goes through `expect_result`, the load and the store of
`next_message_id`, `save_completion_details`, the send and its wait. The reader
fills in the response and completes the call in two steps, because
`PendingCallCache` releases its mutex between them. `HandleOf` says which
WaitHandle a call waits on; the two stubs differ only in this and in `Timed` and
`Checked`. `SessionShutdown` runs `start` and `stop` of the container over this
channel next to the main thread; `Runtime::stop` first stops the service, after
which no handler starts, and then joins its threads. `handler` is a further
handler of the pool, of any other socket: it ends, or it waits without a limit,
as an adb connection does for the active one, and only another handler could
release it.

**MessageFraming.** A byte is a number below `Base`, so the three digits of the
size are computed as in the code. The socket is a bounded sequence of bytes; a
write takes what fits, or fails with `try_again`, after which the loop in
`send` begins the message again. `stream` and `ends` are history: all bytes the
socket took, and where in them each message sent ends; what has been read cannot
be said to be what was written without them.

**ContainerManager.** Requests of the one connection are handled one at a time
but in several steps; between two of them the client may go, the container may
end and the manager may crash. `stale` remembers the nodes of dead managers,
`ours` whether the running container was started by the present object,
`binder` the node it runs with. An allocation fails because the name is taken
(`NewDevice`, counted in `clashes`) or for another reason (`NewDeviceRefused`);
either way the id is used up.

**Renderer.** Every method holds `m_lock` and is one step. The end of a render
thread is three methods and hence three steps. `bound` is the context a surface
object was bound to; surface objects are named by their handles, which is exact
until a handle is used a second time.

**Windows.** The thread that reads the bridge holds `mutex_` over the whole
update; its steps are cut where it calls out (SDL, EGL, Android). A window is
held by those who have a `shared_ptr` (`holders`) and is destroyed by the last of
them. The window system reuses native handles. A call of Android is answered
only while the socket is read, and otherwise given up after its limit. It then
throws, unless an earlier call of the method was answered (`results`:
`has_result` looks at a counter all of them share). On the thread of the bridge
the exception drops the rest of the update and ends the reading (`deaf`); on the
event thread nothing catches it and the process ends (`terminated`).

**Adb.** A handler takes a thread of the pool, and one that waits for
`active_instance_` (`locking`) keeps it. It is one step where nothing it shares
can change in between; the others are cut. The handler that gets the lock binds
the port in a step of its own, which throws when another processor or another
program has it. The destructor gives the port back (`Remove`), then the members
go, `lock_` among them (`MembersGo`). `on_host_connection` has no lock against
the handler of the guest's data, so each of its statements is a step: the
messenger is replaced, ok is sent (`SendsOk`), `state_` is set (`SetsState`),
`expected_command_` is set and the next accept started (`SetsExpected`).
`buffer_` keeps what arrives while no command is expected; when one is, the
comparison runs over the length of the new data, so its outcome is open once
something was kept. Messages of adbd are numbered so that a gap, or a command of
the handshake that leaks into the data, is visible. A send to a peer that has
gone throws or not; the exception ends the reading of the connection. That
`state_` is `closed_by_host` in the test behind `lock_.lock()` cannot happen: only
a processor with a host gets into this state.

**Qemud.** The daemon has one thread: every C function is an operator on the
record `d` of its memory, and every callback of the loop is one step. The hooks
array with its deleted entries, the slot epoll delivers to and the order within
a batch are as in the code, because that is where the difficulty is. Reading a
freed object stops the model in status "undefined"; writing to a client that
left since `epoll_wait` kills the daemon (SIGPIPE). A frame on the serial line
is read and written whole. The callback of the serial line is cut into its read
(`SerialReads`), one step for each frame (`SerialReceives`) and its write
(`SerialWrites`), and the sweep into one step for each hook it removes; the phase
of `d` keeps everything else of the daemon out in between. So no operator of the
module needs a fold, and the theorems can speak of all of them. `reused`, `rude`
and `crossed` remember what the properties except: an fd accepted while its old
hook was still there, a client thrown out, and an answer or disconnect that
reached a client it was not for.

**FakeCamera3.** Four threads, with the steps cut at each release of a mutex:
`mLock` of the device, the three mutexes of the sensor, the readout thread's and
the compressor's. A request is a frame number; a buffer is a pair of number and
stream, locked or not and returned or not. Waits that the code repeats are
waits; those that give up may give up at any time. A wait on a condition may end
without a signal, and where the code does not test again it goes on: the sensor
overwrites `mCapturedBuffers` (`SensorWoken`, `ReadoutCompleted`; `overrun`
remembers it), the framework's thread goes on while the compressor is busy
(`WokenBusy`), the readout thread takes the front of an empty list
(`WokenForNothing`, undefined). `closeCamera` releases the Sensor before it joins
the readout thread; a step of that thread in the Sensor after this is undefined,
also one that ends a sleep begun before.

**GuestEgl.** Each thread of the application has its own stream and its own
render thread, so commands of two threads overtake each other. Commands without
an answer stay in the buffer until a flush. Addresses of contexts and surfaces
are used again, handles of the host are not. `Conns` has the thread of
SurfaceFlinger besides: it allocates, consumes and frees the colour buffers.

Where a known defect would make every property about it false, the module has a
history variable that says that it has happened (`torn`, `rude`, `reused`,
`split`, `lost`, `overrun`, `halfway`, `excused`, `deaf`, `terminated`, `loose`,
`miscounted`), and the
properties name it as their exception. So a property says two things: this is
how the code can go wrong, and there is no other way.

## 3. Runs

| Run | Properties | Shows |
|---|---|---|
| `buffer_queue` | `OccupiedSlotsHoldData`, `NoLostWakeup`, `ImplementsFifo` | the ring is a closable FIFO, and nobody sleeps beside work or on a closed queue |
| `stream` | `InputConserved`, `RepliesInOrder`, `ForceStopEndsThreads` | no byte is lost, doubled or overtaken in either direction; `forceStop` ends the render thread, unless another connection keeps the lock of all render threads for ever, and the worker, unless the notification falls between its test and its wait |
| `rpc_channel` | `ClosureRunsOnce`, `StuckOnlyAfterClash`, `FalseSuccessIsShared` | each completion runs once although ids can clash and answers come late; an unanswered call passes for a success only through a WaitHandle shared with an answered one |
| `session_shutdown` | `StartedSessionExits`, `FailedStopReleasesStart` | a session whose start has come back exits whatever the container manager does, unless another handler of the pool, which `Runtime::stop` joins too, never leaves its own wait; a stop that cannot be sent releases a start that waits |
| `container_manager` | `RunsOwnConfiguration`, `RunningKeepsBinder`, `NodesAccountedFor`, `NoContainerWithoutClient`, `ClashesBounded`, `SlotFreedIfIdle` | failures and crashes in any order neither leak nodes nor leave a container without a client, and a stale node costs at most one failed start |
| `framing` | `MessagesInOrder`, `AllDispatched` | messages come out whole, in order and all, up to a read that ends within a header or a message that was torn by a retry |
| `renderer` | `DrainReachesAll`, `CurrentSurfaceBound`, `CountExplained` | nothing of a render thread outlives it; handles of contexts and surfaces stay apart even after the counter has wrapped |
| `windows` | `NativeWindowsLive`, `WindowsFollowAndroid`, `NobodyWaitsForever` | a frame looked up before an update is drawn into its window or nowhere; host and Android have windows for the same tasks; no wait under `mutex_` is without end, unless a call given up on the event thread has ended the process |
| `adb` | `ActiveOwnsPort`, `HandshakeNotLeaked`, `LockComesBack` | one connection listens and proxies, a host sees data of one connection without gaps and no other handshake, whatever falls between the statements of the handlers; the lock comes back unless a send or a bind has thrown or the waiting connections have taken every thread |
| `qemud` | `PoliteNeverUndefined`, `ClientsAreHeard`, `ChannelsAgree`, `GoneClientsForgotten` | freed objects are used only after a client spoke too early or the emulator hung up; epoll leads to the right hook after every sweep; both ends of the line agree about channels |
| `fake_camera` | `FramesInStep`, `LocksFollowOwnership`, `ShutterAnnouncesResult`, `ReadyMeansDrained`, `AcceptedFramesAnswered` | image, request and result stay together through three threads until the sensor is woken without a signal, and then a result may only get a later image; no buffer returns locked or twice; every accepted buffer returns, but for the lost wake-up, the overwritten frame, a released object and one deadlock, which the property names |
| `guest_egl` | `BindingsAgree`, `HostKeepsWhatGuestHolds`, `BuffersCounted` | guest and host agree about what is current, what exists and how often a buffer is referenced, with the exceptions the properties name; a killed application leaves no context and no surface on the host |

Every run passes. For each property `PROJECT.json` lists a mutant, a plausible
mistake in the code it is about, under which TLC finds it violated.

### Bounds

* `buffer_queue`: three slots make full, empty and in between distinct and let
  `pos_` wrap; two values make a swap visible; one producer and one consumer is
  what both queues of a stream have.
* `stream`: Buffers of one or two bytes against a read of one byte and a
  ReadBuffer that starts with one byte: a read can be served from a leftover,
  from one Buffer and from several, the ReadBuffer grows, and an `out_queue_` of
  one slot makes replies wait. Three bytes in and two out cover every pair of
  these; the second reply waits for room, with the lock of all render threads held.
* `rpc_channel`: two calls of one method and one of another are the least in
  which a WaitHandle is shared and an unrelated call is pending; with four ids
  an id repeats only through the race, not by wrapping. `session_shutdown` has
  exactly the two calls of the code.
* `container_manager`: three clients (one served, one refused, one after it),
  two crashes, three node names per process, so that a name can be free, stale
  or in use. The bound on names ends a behaviour's starts, nothing else.
* `framing`: bytes are bits, so a payload of five bytes has a size of three
  digits (1, 0, 1), in which a swap or a digit that is not reduced shows; an
  empty payload is the other extreme; a socket of ten
  bytes holds a large message, or two small ones, or tears the second; reads of
  up to eight bytes cover a part of a header, a part of a body and two messages.
  After a torn message nothing more is written: its sender could repeat the part
  that was taken for ever.
* `renderer`: three handles and four objects: all three kinds can exist at once,
  one handle is used again after the wrap; two threads, each with at most one
  reference to a colour buffer. Threads are interchangeable (symmetry).
* `windows`: a task with two windows of Android, so that one can be removed
  beside the other, and a task with one; three updates make, remove and make
  again; three handles, so that a handle returns while
  a frame still holds its old window; four changes of windows over the updates;
  one callback, one frame, one failure. Calls before the first window have been
  answered or not.
* `adb`: three connections on two threads, so that the two which wait for the
  lock can take every thread while the owner waits for one (with two connections
  this cannot happen); two servers of which the second comes while the first is
  served; four messages of all guests and hosts, enough for accept, start, data
  and one more, which may be the accept of another connection, or data after
  the second host. A third connection opens only after the second has spoken.
* `qemud`: two clients and three chunks: a registration, one that comes too
  early, data; two channel numbers, so that the counter wraps and hands out 0, a
  number is given out again while frames about its last owner are on the way, and
  a search may find all of them taken; one data frame or disconnect started by
  the emulator.
* `fake_camera`: four requests: one in the hands of the readout thread, two that
  fill the queue behind it and one that waits for room with `mLock` held, so that
  the readout thread waits for `mLock` in turn. Two of them may have a JPEG, which
  is what the compressor can confuse; one may fail to be locked. Waits that give
  up and wake-ups without a signal are not bounded.
* `guest_egl`: two threads, two addresses of contexts and one of a surface over
  three handles, so that an address is used again while the other thread holds
  it; one buffer; a pipe of one command, so that another thread overtakes it.
  Threads and contexts are interchangeable (symmetry; only invariants are checked).

Deadlock is checked in `buffer_queue`, `stream` and `container_manager`; the
others really stop when all calls, messages or objects of the bound are used, or
when an undefined step has been taken.

## 4. Fairness

Liveness is stated only where the code's scheduling gives it:

* threads of the process that can go on do go on (weak fairness of their steps),
  and a mutex that becomes free again and again is got at some point (strong
  fairness of the steps that take one). Both are what the operating system and
  pthreads give in practice; neither peer nor guest is involved;
* a wait with a limit ends, by its predicate or by the clock;
* an accepted connection is handed to its handler.

* in `qemud`, the daemon goes on and the emulator reads its line. Both are written
  as weak fairness with the guard spelled out, since the daemon's steps are many;
* in `stream` the strong fairness includes `DecodeLocks`; the other connection is
  not fair, it may keep the lock of all render threads for ever;
* in `session_shutdown` a handler that runs goes on, one that waits for another
  connection need not be released;
* in `fake_camera` each of the threads goes on, and each wait with a limit gives up
  (`kMaxWaitLoops`, `kMaxSyncTimeoutCount`, `kFenceTimeoutMs`, `kWaitPerLoop`):
  `GiveUp`, `RequestTimesOut` and `FrameTimesOut` are fair by themselves;
* in `windows` the three threads go on; a call of Android ends by its limit;
* in `adb` handlers that find a thread do run, and the end of a host's stream is
  seen.

Nothing is assumed of a peer, of the guest, of clients or of LXC, except that the
emulator reads: they may stop answering, die or never be started again. Nobody has to push, close, send or
connect, and spurious wake-ups are possible but never relied upon.

In `framing` a sender that spins on a full socket gets its turn when there is
room (strong fairness of its write); without it the loop in `send` may lose
every race against the other sender.

## 5. Proofs

`BufferQueueProofs` first proves four theorems about `BufferQueue!Spec`, for every
capacity above zero, every set of values, every finite or infinite set of
threads. Assumptions: `CapacityAssumption`, `ThreadsAssumption`, and that
`NoBuffer` is no value; TLC evaluates them in the run.

* `TypeCorrect` (`TypeOK`) is inductive as it stands. The lemmas `PushedType`,
  `PoppedType`, `ClosedType` and `WakeType` say that the operators keep the type;
  they rest on `SlotInRing`, the arithmetic of `(pos_ + i) % capacity_`.
* `SlotsCorrect` (`OccupiedSlotsHoldData`) needs `TypeOK` and that distinct
  offsets are distinct slots (`SlotsDistinct`), also after the step of `pos_`
  (`SlotAfterPop`).
* `NoWakeupLost` (`NoLostWakeup`) needs one more assumption, stated in the
  theorem: there is at most one producer and at most one consumer. It is needed:
  `push` notifies one sleeper and only on the step from empty, so with two
  consumers asleep two pushes in a row leave one asleep beside an item. Both
  queues of a stream satisfy it.
* `Refinement` (`ImplementsFifo`): with `fifo` as the sequence of the `count_`
  slots from `pos_` on, every step of the ring is a step of `BoundedFifo` or
  leaves it unchanged. `PushedContents` and `PoppedContents` relate the ring to
  `Append` and `Tail`.

Then, with the same lemmas about the ring, it proves `NoInputLost`
(`InputConserved`) and `RepliesKeepOrder` (`RepliesInOrder`) about
`BufferedIOStream!StreamSpec`, for every size of the two queues, of the Buffers,
of the ReadBuffer and of the traffic. Assumptions: `StreamAssumption` (the sizes
are positive) and `BufferAssumption` (what arrives fits the type of a Buffer).

* Bytes are numbered, so a run of bytes is known by its first and its length
  (`IsBytes`); runs that meet are one run (`BytesJoin`), and moving the first bytes
  of one place behind another keeps the whole (`FirstMoves`). `Carries(c, from,
  next)` says without a fold that the Buffers of a queue are the bytes `from ..
  next - 1` cut into runs; `ChainPush` and `ChainPop` say that a push goes on at
  `next` and that the front begins with `from`.
* `InInv` adds to `InputConserved` that the I/O thread has a Buffer in hand exactly
  while it posts, that read() has copied bytes only inside its loop, and that
  `in_queue_` is closed by the thread that posts, after its last post
  (`StopSoFar`); without it a byte could be posted after the render thread has
  found the queue closed and empty.
* `OutInv` cannot say that all replies are on their way: forceStop closes
  `out_queue_` without its mutex and replies are dropped from then on. `OutOpen`
  says that a closed queue still carries the replies from the last one sent up to
  some point, and an open one all of them, as long as no send has failed for good.

`ContainerManagerProofs` proves `ManagerTypeCorrect`, `OwnConfiguration`,
`BinderKept`, `NodesKept` and `ContainerHasClient` (the invariants `TypeOK`,
`RunsOwnConfiguration`, `RunningKeepsBinder` with `OwnContainerKnown`,
`NodesAccountedFor` and `NoContainerWithoutClient`) about
`ContainerManager!Spec`, for any set of clients and any bounds, from
`ContainerAssumption` alone. None of them is inductive by itself; `IInv` adds

* `ObjectOfConnection`: no LxcContainer without a connection, no connection
  without a process; needed because a new connection assumes a clean object;
* `StartInProgress`: during a start `state_` is inactive, `container_` exists
  after its first step and a node after the allocation; needed because a start
  may throw after any of them;
* `OwnedNode`: `binder_devices_` holds at most one node and it exists;
* `OriginOfContainer`: a container this object started has its `container_`, and
  one it did not start goes back to a crash; needed because the destructor stops
  the container only if `container_` is set.

`NextIInv` has one step per action. `ClashesAreStale` (`ClashesBounded`) needs a
further invariant, `CountInv`: the nodes of the running process lie behind
`nextId`, and each failed start of this process met a stale node of its own
(`clashes <= Cardinality(MetStale)`). That the stale nodes are finitely many is
the lemma `StaleFinite`.

The other components have one inductive invariant each (`Qemud` has two), and a lemma for
every action. What they add to the property, and why:

* `QemuProofs` (invariants in `AdbInvariant` and `QemudInvariant`) proves, about
  `Adb`, `PortGoesWithLock` (`ActiveOwnsPort`) and `ProxyTransparent`
  (`HandshakeNotLeaked`), for any number of connections, sockets, threads and
  messages, from `AdbAssumption`. `LockAndPort` follows the two steps in
  which they are given back: who listens has the lock and has not begun to give
  anything back, and a processor without the lock, or whose bind has thrown, has
  not begun to talk (`NotBegun`). A deleted one can cancel nothing any more
  (`NoProcessor`). That a host sees the data of one connection without gaps needs
  the numbers of the messages still on the way (`Numbered`), that a socket belongs
  to one processor from the moment of its accept (`HostsApart`) and that what it
  got last is what the processor took last (`HostUpToDate`). Since
  `on_host_connection` is cut into its statements, the invariant also says what
  holds between them: no accept is under way meanwhile (`Accepts`), what `state_`
  and `expected_command_` may be (`StateOfProcessor`, `OkFirst`), and what may have
  been left in `buffer_` (`Buffered`, `StartIsOver`: no start is in it once data
  has gone to a host).
* `QemuProofs` proves, about `Qemud!QemudSpec`, `PoliteIsSafe`
  (`PoliteNeverUndefined`), `LiveClientsHeard` (`ClientsAreHeard`) and
  `ChannelsInAgreement` (`ChannelsAgree`), for any number of connections, channels,
  chunks and frames in flight, from `QemudAssumption` (finitely many connections
  with positive numbers, at least one channel). Each C function has a lemma that
  says what it does to the memory of the daemon (`SerialSend`, `Enqueue`,
  `ClientFree`, `HangUp`, `Receive`, `HandleFrame`, `Accept`, `SweepOne`); the
  lemmas about the steps of the loop are put together from them. There are two
  inductive invariants:
  * `HookInv` is about the loop. A hook that is not closed leads to an open handler
    with its fd and a closed one to a freed handler (`HookOfHandler`); Client and
    handler live and die together (`ClientsLive`); nobody who waits in the backlog
    has a handler (`NotYet`); a connection that has an event pending or a channel
    shares its fd with no other hook (`Alone`). The last is what makes `looper_find`
    safe although an fd may have two hooks: the second is added by an accept, and
    the sweep comes before the new connection can be heard. `Heard` adds the
    registrations, and is lost only when `reused` is set. `Politely` says that with
    polite peers nothing pending is closed, no handler lingers in state closing and
    no disconnect is on the way up, which is what a callback would need to meet a
    freed object.
  * `ChannelInv` is about the line. `ChannelsAgree` speaks of a quiet line only, so
    the invariant has to say what every frame in flight will do. For each channel
    and client (`Pair`), with `toEmu` and `serialOut` as one sequence and `got` and
    `fromEmu` as another, a client that asked is `Waiting`: its connect is the last
    word on the channel, or the refusal or the ok is on the way; a registered one is
    `Serving`: the emulator has the channel open for it, or has hung up and the
    disconnect is on the way; for any other live client nothing is on the way
    (`Fresh`). `AllSettled` is the converse: whoever the emulator serves or will
    serve holds the channel, or a disconnect follows. The lemmas about `None`,
    `Single` and `Last` say how such a statement changes when a frame is appended
    or taken; they need no induction.

  The proof corrected the run. The property used to be checked with more channel
  numbers than the clients can use up, and there it holds without a third
  exception; for fewer the invariant is not inductive: a client leaves, its number
  is given out again, and the emulator's answer to the first is taken for one to
  the second. `multiplexer_handle_control` has nothing to tell the two apart. The
  run now has few enough numbers to meet this, and `crossed` names it.
* `RpcChannelProofs` proves `ClosuresRunOnce` (`ClosureRunsOnce`),
  `ReaderLostOnlyByClash` (`StuckOnlyAfterClash`) and `FalseSuccessNeedsSharing`
  (`FalseSuccessIsShared`). The entry of a pending call is at the id of that call,
  whose closure has not run (`EntriesUnrun`); the counters of a WaitHandle are the
  cardinalities of the sets of its calls (`HandlesCount`), so a wait that ends by
  its predicate has all its results; as long as no two calls have one id, every id
  on the wire has its entry (`WireHasEntries`). `RpcAssumption` says besides that
  the calls are finitely many and that calls which share a handle have a limit:
  `start_container`, which waits for all, has a handle of its own.

  About `MessageFraming!FramingSpec` it proves `StreamKeepsMessages`
  (`MessagesInOrder`), for any number of senders, any `Base`, any size of the
  socket and of a read. `FramingAssumption` says that a payload is shorter than
  `Base` cubed, which the three bytes of the header can express. `LiesAt(x, n, s,
  at)` says where in the stream a piece of it is; `LiesOn`, `LiesJoined`,
  `LiesReceived`, `LiesBehind` and `LiesWritten` say what a write, a read and a
  cut do to it. `ThreeDigits` and `FrameHeader` show that the header gives back
  the size, `FrameFound` that what `process_data` cuts out is then the message.
  `FramingInv` holds while no message is torn: a sender without the lock has
  written nothing (`Sending`), the messages sent lie one behind the other
  (`SentLie`), then the part taken of the current one (`PartLies`), and `buffer_`
  and the socket hold what comes behind the messages processed (`RestLies`).
* `WindowsProofs` proves `EntriesOfLiveWindows` (`NativeWindowsLive`) and
  `MapAgreesWithAndroid` (`WindowsFollowAndroid`). An entry of `m_nativeWindows`
  is an attached window of the manager's map and not the one in hand
  (`EntriesOfManager`, `InHand`); a window exists as long as somebody holds it. For
  the second, an update is followed through its phases: what is shown is still to
  do, done or excused (`ShownAreDone`), what is gone waits for its removal
  (`GoneAreRemoved`). `WindowsAssumption` has finitely many tasks and no handle 0;
  `IdsSuffice` shows that the names the model has for windows do not run out.
* `RendererProofs` proves `NothingLeaks` (`DrainReachesAll`), `FlushFindsContext`
  (`CurrentSurfaceBound`) and `ReferencesExplained` (`CountExplained`), for any
  finite number of threads and any range of handles. Each object is in the set of its creator and no handle in two tables,
  which holds after a wrap too, since `genHandle` looks at both tables; no object
  is current on two threads (`CurrentApart`); and until the counter has wrapped
  every handle in use is behind it (`HandlesBehind`). `MinIsLeast` gives what
  `genHandle` returns. For the counts `CountInv` adds that a handle not given out
  yet has neither a count nor a reference, so that a new buffer starts with one;
  `OneMoreRef` says that opening and closing move the number of all references by
  one, and a drain moves the count into `drained`.
* `FakeCamera3Proofs` proves `ResultsInStep` (`FramesInStep`), `LocksReleased`
  (`LocksFollowOwnership`), `ResultsAnnounced` (`ShutterAnnouncesResult`) and
  `ReadyIsDrained` (`ReadyMeansDrained`), for any number of requests, failures and
  wake-ups without a signal. The heart is `InStep`: the frames inside the sensor
  are frames the readout thread still waits for, exactly these as long as no frame
  was overwritten, and both are in order (`SensorOrdered`, `QueueOrdered`); hence
  after an overrun the readout thread can only get a later image than its own.
  `OrphansFailed` counts the frames that stay locked against the failures.
* `GuestEglProofs` proves `BoundAlike` (`BindingsAgree`), `HandlesHeld`
  (`HostKeepsWhatGuestHolds`) and `ReferencesCounted` (`BuffersCounted`), for any
  finite number of threads, any addresses, buffers, handles and size of the pipes.
  `Safe` says that every object in use has a handle of its own which is in the
  table of the host (`Objects`, `InTables`), that no command on the way in any
  stream destroys an object in use (`DestroyedAreFreed`), that the end of a stream
  is on the way as long as the host has something of an ended thread (`Ends`), and
  what `BindingsAgree` says also in the middle of calls (`Bound`). `Counted` adds
  that nobody knows a buffer before it is allocated and that no closing waits in a
  buffer of a stream, so a reference is held, on the way, or gone; the lemmas
  `ClosingSent`, `ClosingAdded` and `ClosingExecuted` say how the number of
  closings changes when a pipe grows or is read.

The proof of `BindingsAgree` corrected the model: `loose`, which remembers where
the guest has lost sight of a binding, left out the threads whose context another
thread frees by its pending deletion, and those that still hold an address at
which a new context is made current. With one surface and three handles TLC does
not meet either; with two surfaces and four handles it does.

Only model-checked:

* all liveness properties (`ForceStopEndsThreads`, `NobodyWaitsForever`,
  `LockComesBack`, `GoneClientsForgotten`, `AcceptedFramesAnswered`, the session,
  slot and framing properties), because the prover does not handle fairness.

Every invariant that a run checks is stated by a theorem.

## 6. Where code and statements disagree

What a comment says and the code does not do. Each is visible in a module as the
exception a property names.

| Statement | Behaviour | Module |
|---|---|---|
| "Wake any potential waiters." (`graphics/buffer_queue.cpp:95`) | `forceStop` closes `out_queue_` under `lock_`; a worker that has tested `closed_` under `out_lock_` and not yet gone to sleep misses the notification, and `~BufferedIOStream` joins it for ever | `BufferedIOStream` |
| "If container manager dies before session manager, the session manager cannot exit if it waits for all, so just wait for 3 seconds." (`container/management_api_stub.cpp:94`) | `start_container` still waits for all, on a thread that `Runtime::stop` joins | `SessionShutdown` |
| "catching all exceptions and restarting operation until an explicit shutdown has been requested" (`runtime.cpp:24`) | when an answer cannot be sent, the connection is neither read nor removed, and no later client is accepted | `ContainerManager` |
| "If we don't have yet all bytes for a new message return and wait until we have all." (`rpc/message_processor.cpp:55`) | with one to three bytes of a header the test reads past the buffer and a subtraction wraps, so it never waits | `MessageFraming` |
| "number of client-side references" (`graphics/emugl/Renderer.h:43`) | the end of a thread drops a reference for each attached colour buffer although attaching took none | `Renderer`, `GuestEgl` |
| "send any pending outgoing packets then auto-free itself" (`android/qemud/qemud.c:852`) | nothing frees a handler of the closing list when its last packet has gone; it stays until the client hangs up | `Qemud` |
| "the client should wait for our 'ok' or 'ko'. close the connection." (`android/qemud/qemud.c:1297`) | the client is freed within its own callback, which goes on with the freed handler, and the emulator is not told that the channel is free | `Qemud` |
| "In this case the container will close the pipe connection and this message processor will be deleted" (`qemu/adb_message_processor.cpp:102`) | after a send or the bind has thrown nobody reads the connection, so the processor stays with the lock | `Adb` |
| "The container directly starts a second connection once the first one is established but will not use it until the active one is closed." (`qemu/adb_message_processor.cpp:71`) | each connection that waits in `lock_.lock()` keeps a thread of the pool; when they have all threads, nobody can see that the active one is closed | `Adb`, `SessionShutdown` |

More of this kind, without a sentence against it: `has_result` of a WaitHandle
that an earlier call has raised makes a timed-out call look successful
(`FalseSuccessIsShared` states how far this goes); `state()` says running of a
container that has ended by itself (`OwnContainerKnown` is the direction that
holds); `genHandle` does not look at `m_colorbuffers`, so after a wrap of the
counter a new colour buffer can take the handle of a live one (`CountExplained`
holds until then); the channel counter of qemud hands out 0, which both ends
take for the control channel, gives the number of a client that has left to a new
one while an answer to the old one is on the way (`ChannelsAgree` holds until such
an answer is taken for the new one's), and is searched for ever when all 256
numbers are taken; `closeCamera` waits for the sensor under the lock
that the readout thread needs (`CloseDeadlock`).

## 7. What is not modelled

* In modelled components: `send_raw` and
  the blocking receive of the messenger; events (`send_event`), which keep no
  state; the contents of the LXC configuration; the static `/dev/binder` device,
  which is used where there is no binderfs and has no life cycle; the mounts of
  the container's root, made by one sequential function; drawing and client
  images of the `Renderer`; the servers the session manager sets up besides the
  container client; geometry of windows and layers, input and audio; pbuffers,
  images and fences of the guest's EGL; metadata and the fake 3A of the camera.
* Data races on a container of the standard library (`Platform::windows_`,
  `m_nativeWindows`, `Connections::size`) are treated as atomic accesses.
* The size of an RPC message has 24 bits and is not tested; the models assume
  that messages are smaller.
* Several OpenGL ES connections at once: of another connection only what this one
  sees of it is modelled, the lock of all render threads taken and given back, or
  kept.
* Data races on single fields (`state_` and `expected_command_` of an adb
  processor, `next_message_id`) are interleavings of whole reads and writes.
* Not modelled at all, with the reasons in `PROJECT.json`: the application
  database and D-Bus, the other HALs and services of the Android image, the older
  camera HAL, `external/` and the other vendored code, the deployment scripts and
  YAML of the edge stack, the Robox release, the foundation's web application,
  command line, logging and paths.

Measured in lines, most of the code stays outside, for what it is: the encoders
of the guest's OpenGL ES (`android/opengl/system/GLESv1_enc` and `GLESv2_enc`,
about 20,000 lines) are generated, one function like the other for every call of
GL; the tables and getters of the camera's metadata, the dispatch tables of the
EGL and GLES libraries, keycode tables, and the vendored web framework have no
control flow that two threads, a failure or an order of calls could upset. What
has such control flow, on both sides of the pipe, is in the modules above.

## 8. Plan

Done: `BufferQueue` and `ContainerManager` with their proofs, `BufferedIOStream`,
`RpcChannel`, `SessionShutdown`, `MessageFraming`, `Renderer`, then `Windows`,
`Adb`, `Qemud`, `FakeCamera3` and `GuestEgl`.

Proved since: the safety invariants of `RpcChannel`, `Adb`, `Windows`,
`FakeCamera3`, `GuestEgl`, `Renderer`, `BufferedIOStream`, `MessageFraming` and
`Qemud`, and `ClashesBounded` of `ContainerManager`. No invariant is left without
its theorem; the liveness properties stay with TLC.

Next: action properties that follow from the invariants at hand (handles are not
given back to a live object, a released lock is released by its owner).
