-------------------------- MODULE SessionShutdown --------------------------
(***************************************************************************)
(* How the session manager ends.  Its main thread waits for a signal (or   *)
(* for the loss of the container manager), calls container_->stop() and    *)
(* then rt->stop(), which stops the I/O service and joins its threads.     *)
(* One of those threads runs container_->start(), dispatched at start-up,  *)
(* and waits for its answer without a limit; another one reads the         *)
(* answers.  Both calls go through the RpcChannel of container::Client.    *)
(* The other threads of the pool run the handlers of all other sockets,    *)
(* and some of those wait without a limit too: an adb connection for the   *)
(* one that is active, a graphics connection for its render thread.        *)
(***************************************************************************)
EXTENDS RpcChannel

CONSTANTS start, stop   \* the two calls of ManagementApiStub

ASSUME ShutdownAssumption ==
  /\ Calls = {start, stop} /\ start # stop
  /\ HandleOf[start] # HandleOf[stop]
  /\ Timed = {stop} /\ Checked = {}

VARIABLES
  main,        \* "running", "stopping", "joining" or "exited"
  ioStopped,   \* service_.stop() was called
  handler      \* another handler of the pool: "none", "running" or "blocked"

shutdownVars == <<main, ioStopped, handler>>
allVars == <<vars, shutdownVars>>

SessionInit ==
  /\ Init
  /\ main = "running" /\ ioStopped = FALSE /\ handler = "none"

(* The Client's constructor makes the channel before anything else. *)
ClientCreated == SetRpcChannel /\ UNCHANGED shutdownVars

(* The dispatched task starts on an I/O thread. *)
StartDispatched ==
  /\ ~ioStopped
  /\ CallExpects(start)
  /\ UNCHANGED shutdownVars

CallRuns(c) ==
  /\ CallMethod(c) \/ WaitEnds(c) \/ WaitTimesOut(c)
  /\ UNCHANGED shutdownVars

(* trap->run() returns: a signal, a failed start or the lost connection. *)
TrapReturns ==
  /\ main = "running"
  /\ main' = "stopping"
  /\ CallExpects(stop)
  /\ UNCHANGED <<ioStopped, handler>>

\* Mutant of RuntimeStops: only a successful stop ends the service.
RuntimeStopsOnSuccess ==
  /\ main = "stopping" /\ pc[stop] = "returned"
  /\ main' = "joining" /\ ioStopped' = TRUE
  /\ UNCHANGED <<vars, handler>>

(* container_->stop() came back or threw: rt->stop(), called here or by    *)
(* the destructor of the Runtime, stops the service.                       *)
RuntimeStops ==
  /\ main = "stopping" /\ pc[stop] \in Outcomes
  /\ main' = "joining" /\ ioStopped' = TRUE
  /\ UNCHANGED <<vars, handler>>

(* The join of the workers needs the running handlers to end, all of them. *)
WorkersJoined ==
  /\ main = "joining"
  /\ pc[start] \notin InCall /\ reader # "completing" /\ handler = "none"
  /\ main' = "exited"
  /\ UNCHANGED <<vars, ioStopped, handler>>

(* A handler of another socket starts, ends or waits (lock_.lock() of an   *)
(* AdbMessageProcessor) for something that another handler releases.  That *)
(* one may have begun before the service was stopped, or not at all.  With *)
(* the mutex in hand the handler goes on to its end.                       *)
HandlerStarts ==
  /\ ~ioStopped /\ handler = "none" /\ handler' = "running"
  /\ UNCHANGED <<vars, main, ioStopped>>
HandlerRuns ==
  /\ handler = "running" /\ handler' \in {"none", "blocked"}
  /\ UNCHANGED <<vars, main, ioStopped>>
HandlerReleased ==
  /\ handler = "blocked" /\ handler' = "none"
  /\ UNCHANGED <<vars, main, ioStopped>>

(* No handler starts on a stopped service; one that runs may finish. *)
ReaderRuns ==
  /\ ioStopped => reader = "completing"
  /\ Reader
  /\ UNCHANGED shutdownVars

PeerSteps == (PeerAnswers \/ PeerDies) /\ UNCHANGED shutdownVars

SessionNext ==
  \/ ClientCreated \/ StartDispatched \/ TrapReturns \/ RuntimeStops \/ WorkersJoined
  \/ \E c \in Calls : CallRuns(c)
  \/ HandlerStarts \/ HandlerRuns \/ HandlerReleased
  \/ ReaderRuns \/ PeerSteps

(* A thread that runs keeps running.  The container manager may hang or    *)
(* die, and the reader may find no free thread to begin on.                *)
SessionFairness ==
  /\ WF_allVars(ClientCreated) /\ WF_allVars(RuntimeStops) /\ WF_allVars(WorkersJoined)
  /\ \A c \in Calls : WF_allVars(CallRuns(c))
  /\ WF_allVars(reader = "completing" /\ ReaderRuns) /\ WF_allVars(HandlerRuns)

SessionSpec == SessionInit /\ [][SessionNext]_allVars /\ SessionFairness

----------------------------------------------------------------------------
(* Once the container was started, or its start failed, a signal ends the  *)
(* session manager, whatever the container manager does meanwhile: the     *)
(* wait of stop_container is limited.  The only thing that keeps it is a   *)
(* handler of another connection that stays in its own wait for ever,      *)
(* which Runtime::stop joins like the others.                              *)
StartedSessionExits ==
  main = "stopping" /\ pc[start] \in Outcomes
    ~> (main = "exited" \/ [](main = "joining" /\ handler = "blocked"))

(* A start that is still waiting when the container manager dies is        *)
(* released by the failing send of stop_container, unless the race on      *)
(* next_message_id gave both calls one entry of the cache.                 *)
FailedStopReleasesStart ==
  pc[stop] = "failed" /\ pc[start] = "wait" /\ id[start] # id[stop]
    ~> pc[start] = "returned"
=============================================================================
