----------------------------- MODULE RpcChannel -----------------------------
(***************************************************************************)
(* Remote calls of the session manager: a Channel with its                 *)
(* PendingCallCache, the stubs that call through it from several threads   *)
(* (AndroidApiStub, ManagementApiStub), the WaitHandles they wait on and   *)
(* the I/O thread that reads the answers.                                  *)
(*                                                                         *)
(* A call c waits on HandleOf[c]: AndroidApiStub has one WaitHandle per    *)
(* method, shared by all calls of the method and never reset;              *)
(* ManagementApiStub has one per request (start_container, the one call    *)
(* without a limit, shares its handle with nobody).  Calls in Timed give   *)
(* up after a limit, calls in Checked look at has_result afterwards.       *)
(* Parameters and results are abstracted to the fact that they arrived.    *)
(***************************************************************************)
EXTENDS Naturals, Sequences, FiniteSets

CONSTANTS
  Calls,      \* the calls made during the run, each by a thread of its own
  Handles,    \* the WaitHandle objects
  HandleOf,   \* the WaitHandle a call uses
  Timed,      \* launch, set_focused_task, remove_task, resize_task, stop_container
  Checked,    \* the calls of AndroidApiStub
  IdSpace,    \* values of the message id: 2^32 in the code
  NoCall      \* no entry in pending_calls_

ASSUME RpcAssumption ==
  /\ IsFiniteSet(Calls) /\ HandleOf \in [Calls -> Handles]
  /\ \A c, d \in Calls : c # d /\ HandleOf[c] = HandleOf[d] => c \in Timed
  /\ Checked \subseteq Timed /\ Timed \subseteq Calls
  /\ IdSpace \in Nat \ {0}
  /\ NoCall \notin Calls

VARIABLES
  channelSet,   \* set_rpc_channel has been called
  pc,           \* where each call is
  nextId,       \* the static next_message_id, shared without a lock
  id,           \* the id a call has loaded
  pending,      \* pending_calls_: id -> call
  expecting,    \* of each WaitHandle
  received,     \* of each WaitHandle
  requests,     \* invocations on the wire
  answers,      \* results on the wire
  peer,         \* "up" or "down"
  reader,       \* "reading", "completing", "stuck" or "closed"
  populated,    \* calls whose response object was filled in
  runs          \* how often the closure of a call was run

callVars == <<channelSet, pc, nextId, id>>
netVars  == <<requests, answers, peer>>
vars == <<callVars, pending, expecting, received, netVars, reader, populated, runs>>

Ids == 0 .. (IdSpace - 1)

Init ==
  /\ channelSet = FALSE
  /\ pc = [c \in Calls |-> "idle"]
  /\ nextId = 0
  /\ id = [c \in Calls |-> 0]
  /\ pending = [i \in Ids |-> NoCall]
  /\ expecting = [h \in Handles |-> 0]
  /\ received = [h \in Handles |-> 0]
  /\ requests = << >> /\ answers = << >> /\ peer = "up"
  /\ reader = "reading"
  /\ populated = {}
  /\ runs = [c \in Calls |-> 0]

(* Run() of the closures of the calls in S: each is one result_received    *)
(* on the handle of its call.                                              *)
RunClosures(S) ==
  /\ runs' = [c \in Calls |-> IF c \in S THEN runs[c] + 1 ELSE runs[c]]
  /\ received' = [h \in Handles |->
                    received[h] + Cardinality({c \in S : HandleOf[c] = h})]

PendingCalls == {pending[i] : i \in Ids} \ {NoCall}

----------------------------------------------------------------------------
(* The peer's connection gives the stub its channel; it is never reset. *)
SetRpcChannel ==
  /\ ~channelSet
  /\ channelSet' = TRUE
  /\ UNCHANGED <<pc, nextId, id, pending, expecting, received, netVars, reader,
                 populated, runs>>

(* ensure_rpc_channel throws "No remote client connected". *)
CallRefused(c) ==
  /\ pc[c] = "idle" /\ ~channelSet
  /\ pc' = [pc EXCEPT ![c] = "refused"]
  /\ UNCHANGED <<channelSet, nextId, id, pending, expecting, received, netVars, reader,
                 populated, runs>>

CallExpects(c) ==
  /\ pc[c] = "idle" /\ channelSet
  /\ expecting' = [expecting EXCEPT ![HandleOf[c]] = @ + 1]
  /\ pc' = [pc EXCEPT ![c] = "loadId"]
  /\ UNCHANGED <<channelSet, nextId, id, pending, received, netVars, reader, populated,
                 runs>>

(* next_message_id++ on a plain static: a load and a store that the        *)
(* threads may interleave.                                                 *)
LoadNextId(c) ==
  /\ pc[c] = "loadId"
  /\ id' = [id EXCEPT ![c] = nextId]
  /\ pc' = [pc EXCEPT ![c] = "storeId"]
  /\ UNCHANGED <<channelSet, nextId, pending, expecting, received, netVars, reader,
                 populated, runs>>

StoreNextId(c) ==
  /\ pc[c] = "storeId"
  /\ nextId' = (id[c] + 1) % IdSpace
  /\ pc' = [pc EXCEPT ![c] = "save"]
  /\ UNCHANGED <<channelSet, id, pending, expecting, received, netVars, reader,
                 populated, runs>>

(* operator[] of the map: an entry with the same id is overwritten. *)
SaveCompletionDetails(c) ==
  /\ pc[c] = "save"
  /\ pending' = [pending EXCEPT ![id[c]] = c]
  /\ pc' = [pc EXCEPT ![c] = "send"]
  /\ UNCHANGED <<channelSet, nextId, id, expecting, received, netVars, reader,
                 populated, runs>>

SendMessage(c) ==
  /\ pc[c] = "send" /\ peer = "up"
  /\ requests' = Append(requests, id[c])
  /\ pc' = [pc EXCEPT ![c] = "wait"]
  /\ UNCHANGED <<channelSet, nextId, id, pending, expecting, received, answers, peer,
                 reader, populated, runs>>

\* Mutant of SendFails: force_completion keeps the entries it completed.
SendFailsKeeps(c) ==
  /\ pc[c] = "send" /\ peer = "down"
  /\ RunClosures(PendingCalls)
  /\ pc' = [pc EXCEPT ![c] = "failed"]
  /\ UNCHANGED <<channelSet, nextId, id, pending, expecting, netVars, reader, populated>>

\* Mutant of SendFails: the error goes to the caller only.
SendFailsAlone(c) ==
  /\ pc[c] = "send" /\ peer = "down"
  /\ pc' = [pc EXCEPT ![c] = "failed"]
  /\ UNCHANGED <<channelSet, nextId, id, pending, expecting, received, netVars, reader,
                 populated, runs>>

(* The send fails: notify_disconnected completes every pending call, this  *)
(* one included, and the exception goes on to the caller.                  *)
SendFails(c) ==
  /\ pc[c] = "send" /\ peer = "down"
  /\ RunClosures(PendingCalls)
  /\ pending' = [i \in Ids |-> NoCall]
  /\ pc' = [pc EXCEPT ![c] = "failed"]
  /\ UNCHANGED <<channelSet, nextId, id, expecting, netVars, reader, populated>>

(* The predicate of wait_for_all and wait_for_pending holds.  wait_for_all *)
(* (the calls without a limit) also resets the handle.                     *)
WaitEnds(c) ==
  LET h == HandleOf[c] IN
  /\ pc[c] = "wait" /\ received[h] = expecting[h]
  /\ pc' = [pc EXCEPT ![c] = "returned"]
  /\ IF c \in Timed
     THEN UNCHANGED <<expecting, received>>
     ELSE /\ expecting' = [expecting EXCEPT ![h] = 0]
          /\ received' = [received EXCEPT ![h] = 0]
  /\ UNCHANGED <<channelSet, nextId, id, pending, netVars, reader, populated, runs>>

\* Mutants of WaitTimesOut: has_result is not asked; the call forgets its entry
\* in the cache when it gives up.
WaitTimesOutUnasked(c) ==
  /\ pc[c] = "wait" /\ c \in Timed /\ received[HandleOf[c]] # expecting[HandleOf[c]]
  /\ pc' = [pc EXCEPT ![c] = "gaveUp"]
  /\ UNCHANGED <<channelSet, nextId, id, pending, expecting, received, netVars, reader,
                 populated, runs>>
WaitTimesOutForgets(c) ==
  LET h == HandleOf[c] IN
  /\ pc[c] = "wait" /\ c \in Timed /\ received[h] # expecting[h]
  /\ pending' = [pending EXCEPT ![id[c]] = NoCall]
  /\ pc' = [pc EXCEPT ![c] = IF received[h] = 0 THEN "timedOut" ELSE "gaveUp"]
  /\ UNCHANGED <<channelSet, nextId, id, expecting, received, netVars, reader,
                 populated, runs>>

(* wait_for_pending reaches its limit.  AndroidApiStub then asks has_result *)
(* and throws "RPC call timed out"; ManagementApiStub goes on.             *)
WaitTimesOut(c) ==
  LET h == HandleOf[c] IN
  /\ pc[c] = "wait" /\ c \in Timed /\ received[h] # expecting[h]
  /\ pc' = [pc EXCEPT ![c] = IF c \in Checked /\ received[h] = 0
                             THEN "timedOut" ELSE "gaveUp"]
  /\ UNCHANGED <<channelSet, nextId, id, pending, expecting, received, netVars, reader,
                 populated, runs>>

----------------------------------------------------------------------------
(* The peer handles the invocations one after the other, or dies. *)
PeerAnswers ==
  /\ peer = "up" /\ requests # << >>
  /\ requests' = Tail(requests)
  /\ answers' = Append(answers, Head(requests))
  /\ UNCHANGED <<callVars, pending, expecting, received, peer, reader, populated, runs>>

PeerDies ==
  /\ peer = "up"
  /\ peer' = "down" /\ requests' = << >>
  /\ UNCHANGED <<callVars, pending, expecting, received, answers, reader, populated,
                 runs>>

----------------------------------------------------------------------------
(* The I/O thread in MessageProcessor::process_data. *)
PopulateMessage ==
  /\ reader = "reading" /\ answers # << >>
  /\ pending[Head(answers)] # NoCall
  /\ populated' = populated \cup {pending[Head(answers)]}
  /\ reader' = "completing"
  /\ UNCHANGED <<callVars, pending, expecting, received, netVars, runs>>

(* pending_calls_.at throws: the exception leaves process_data before the  *)
(* message is erased and before the next read is started.                  *)
PopulateThrows ==
  /\ reader = "reading" /\ answers # << >>
  /\ pending[Head(answers)] = NoCall
  /\ reader' = "stuck"
  /\ UNCHANGED <<callVars, pending, expecting, received, netVars, populated, runs>>

CompleteResponse ==
  /\ reader = "completing"
  /\ LET i == Head(answers)
     IN  /\ pending' = [pending EXCEPT ![i] = NoCall]
         /\ RunClosures({pending[i]} \ {NoCall})
  /\ answers' = Tail(answers)
  /\ reader' = "reading"
  /\ UNCHANGED <<callVars, expecting, requests, peer, populated>>

(* End of file after the last answer. *)
ReaderCloses ==
  /\ reader = "reading" /\ answers = << >> /\ peer = "down"
  /\ reader' = "closed"
  /\ UNCHANGED <<callVars, pending, expecting, received, netVars, populated, runs>>

----------------------------------------------------------------------------
CallMethod(c) ==
  \/ LoadNextId(c) \/ StoreNextId(c) \/ SaveCompletionDetails(c)
  \/ SendMessage(c) \/ SendFails(c)
Reader == PopulateMessage \/ PopulateThrows \/ CompleteResponse \/ ReaderCloses

Next ==
  \/ SetRpcChannel
  \/ \E c \in Calls : \/ CallRefused(c) \/ CallExpects(c) \/ CallMethod(c)
                      \/ WaitEnds(c) \/ WaitTimesOut(c)
  \/ PeerAnswers \/ PeerDies
  \/ Reader

Spec == Init /\ [][Next]_vars

----------------------------------------------------------------------------
InCall == {"loadId", "storeId", "save", "send", "wait"}
Outcomes == {"refused", "returned", "timedOut", "gaveUp", "failed"}

(* The closure of a call deletes itself when it runs, so it must not run   *)
(* again: neither a late answer, nor a disconnect that force_completion    *)
(* handles while the reader is at the same entry, nor an id used twice     *)
(* runs it twice.  And it has run when the wait of its call ended by its   *)
(* predicate, although a WaitHandle counts the results of all its calls.   *)
ClosureRunsOnce ==
  \A c \in Calls : runs[c] <= 1 /\ (pc[c] = "returned" => runs[c] = 1)

(* The reader meets an answer it has no entry for only when two calls got  *)
(* the same id from the race on next_message_id, or after a send failed.   *)
StuckOnlyAfterClash ==
  reader = "stuck" =>
    \/ \E c, d \in Calls : c # d /\ {pc[c], pc[d]} \cap {"idle", "loadId", "refused"} = {}
                           /\ id[c] = id[d]
    \/ \E c \in Calls : pc[c] = "failed"

(* A call that reached its limit without an answer is reported as a        *)
(* success only when another call of the same method has had an answer:    *)
(* has_result looks at the counter of the WaitHandle they share.           *)
FalseSuccessIsShared ==
  \A c \in Checked : pc[c] = "gaveUp" /\ runs[c] = 0 =>
    \E d \in Calls \ {c} : HandleOf[d] = HandleOf[c] /\ runs[d] > 0
=============================================================================
