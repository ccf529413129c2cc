-------------------------------- MODULE Adb --------------------------------
(***************************************************************************)
(* The adb proxy of the session manager: one AdbMessageProcessor for each  *)
(* connection of the container's adbd, all of them over one static mutex   *)
(* active_instance_ and one listening port for the adb server of the host. *)
(* The handlers of the sockets run on the threads of Runtime, without a    *)
(* strand: the handler of a host's connection and the one of the guest's   *)
(* data may run at the same time, statement by statement.  A handler that  *)
(* waits for the mutex keeps its thread.                                   *)
(*                                                                         *)
(* A message of the guest or of the host arrives in one piece.  A send to  *)
(* a peer that has gone throws, at once or not before the next time; the   *)
(* exception leaves the handler, which then does not read again.  A        *)
(* handler that runs on a processor under destruction or deleted is        *)
(* undefined: the model stops.                                             *)
(***************************************************************************)
EXTENDS Naturals, Sequences, FiniteSets

CONSTANTS Conns,        \* connections of adbd, in the order they are opened
          HostSockets,  \* connections of the adb server, in the order they are opened
          Threads,      \* threads of Runtime
          MaxSends,     \* bound: messages of all guests and hosts
          MaxHostSends  \* bound: messages of all hosts

ASSUME AdbAssumption == /\ Conns = 1..Cardinality(Conns) /\ HostSockets \subseteq Nat \ {0}
                        /\ Threads \in Nat /\ MaxSends \in Nat /\ MaxHostSends \in Nat

VARIABLES
  guest,      \* adbd's end of a connection: "none", "open", "closed"
  sent,       \* messages adbd has sent
  in,         \* what is on the way to the processor
  out,        \* what the processor has sent to adbd
  proc,       \* the connection and its AdbMessageProcessor
  lock,       \* holder of active_instance_, 0 for none
  port,       \* processor whose host_connector_ listens, 0 for none
  hosts,      \* state of the adb server's sockets
  toHost,     \* what the processors have sent to each of them
  hostSent,   \* messages the hosts have sent
  undefined   \* a handler has run on a deleted processor

vars == <<guest, sent, in, out, proc, lock, port, hosts, toHost, hostSent, undefined>>
hostVars == <<hosts, toHost, hostSent>>

NewProc == [pc |-> "none", state |-> "waiting_for_guest_accept_command", expected |-> "accept",
            kept |-> <<>>,       \* buffer_
            reading |-> FALSE, open |-> FALSE, host |-> 0, next |-> 0, pending |-> {},
            accepting |-> "no",  \* how far on_host_connection is
            halfway |-> FALSE]   \* process_data has run with it half done

Init ==
  /\ guest = [c \in Conns |-> "none"] /\ sent = [c \in Conns |-> 0]
  /\ in = [c \in Conns |-> <<>>] /\ out = [c \in Conns |-> <<>>]
  /\ proc = [c \in Conns |-> NewProc]
  /\ lock = 0 /\ port = 0
  /\ hosts = [h \in HostSockets |-> "none"] /\ toHost = [h \in HostSockets |-> <<>>] /\ hostSent = 0
  /\ undefined = FALSE

Locking == {c \in Conns : proc[c].pc = "locking"}
Busy == {c \in Conns : proc[c].pc \in {"binding", "deleting"}}
Accepting == {c \in Conns : proc[c].accepting \in {"replaced", "ok sent", "state set"}}
ThreadFree ==
  ~undefined /\ Cardinality(Locking) + Cardinality(Busy) + Cardinality(Accepting) < Threads
Exists(c) == proc[c].pc \in {"idle", "locking", "binding"}
GuestListens(c) == guest[c] = "open" /\ proc[c].open

----------------------------------------------------------------------------
(* The container's adbd: accept, then start after ok, then data.  It opens *)
(* the next connection as soon as the last one is established.  Messages   *)
(* are numbered.                                                           *)

Command(n) == CASE n = 1 -> "accept" [] n = 2 -> "start" [] OTHER -> "data"

Messages == UNION {{c} \X (1..sent[c]) : c \in Conns}

GuestConnects(c) ==
  /\ ThreadFree /\ guest[c] = "none" /\ \A b \in 1..(c - 1) : guest[b] # "none" /\ sent[b] > 0
  /\ guest' = [guest EXCEPT ![c] = "open"]
  /\ proc' = [proc EXCEPT ![c] = [NewProc EXCEPT !.pc = "idle", !.reading = TRUE, !.open = TRUE]]
  /\ UNCHANGED <<sent, in, out, lock, port, hostVars, undefined>>

GuestSends(c) ==
  /\ ~undefined /\ GuestListens(c) /\ Cardinality(Messages) + hostSent < MaxSends
  /\ sent[c] >= 1 => out[c] # <<>>
  /\ in' = [in EXCEPT ![c] = Append(@, sent[c] + 1)]
  /\ sent' = [sent EXCEPT ![c] = @ + 1]
  /\ UNCHANGED <<guest, out, proc, lock, port, hostVars, undefined>>

GuestCloses(c) ==
  /\ ~undefined /\ guest[c] = "open"
  /\ guest' = [guest EXCEPT ![c] = "closed"]
  /\ UNCHANGED <<sent, in, out, proc, lock, port, hostVars, undefined>>

----------------------------------------------------------------------------
\* Mutant of Remove: the lock is given back before the listening socket.
RemoveUnordered(c) ==
  /\ proc' = [proc EXCEPT ![c].pc = "deleting", ![c].reading = FALSE, ![c].open = FALSE,
                          ![c].pending = @ \ {"accept"}]
  /\ lock' = IF lock = c THEN 0 ELSE lock
  /\ UNCHANGED port

(* Connections::remove: the processor is deleted.  The destructor gives    *)
(* the port back; an accept under way is cancelled, one that has ended is  *)
(* not.                                                                    *)
Remove(c) ==
  /\ proc' = [proc EXCEPT ![c].pc = "deleting", ![c].reading = FALSE, ![c].open = FALSE,
                          ![c].pending = @ \ {"accept"}]
  /\ port' = IF port = c THEN 0 ELSE port
  /\ UNCHANGED lock

(* The socket of the processor's messenger is closed. *)
DropsHost(c) == hosts' = [h \in HostSockets |-> IF h = proc[c].host THEN "closed" ELSE hosts[h]]

(* After it the members go: lock_, then host_messenger_ and with it a read *)
(* of the host that is under way.  adbd finds its connection closed.       *)
MembersGo(c) ==
  /\ ~undefined /\ proc[c].pc = "deleting"
  /\ lock' = IF lock = c THEN 0 ELSE lock
  /\ proc' = [proc EXCEPT ![c] = [NewProc EXCEPT !.pc = "gone", !.pending = proc[c].pending \ {"read"},
                                                !.accepting = proc[c].accepting, !.halfway = proc[c].halfway]]
  /\ guest' = [guest EXCEPT ![c] = "closed"]
  /\ DropsHost(c)
  /\ UNCHANGED <<sent, in, out, port, toHost, hostSent, undefined>>

(* SocketConnection::on_read_size with an error.                           *)
GuestGone(c) ==
  /\ ThreadFree /\ proc[c].pc = "idle" /\ proc[c].reading
  /\ ~GuestListens(c) /\ (proc[c].open => in[c] = <<>>)
  /\ Remove(c)
  /\ UNCHANGED <<guest, sent, in, out, hostVars, undefined>>

(* process_data: proxying.                                                 *)
ProxiesToHost(c, throws) ==
  LET h == proc[c].host IN
  /\ ThreadFree /\ proc[c].pc = "idle" /\ proc[c].reading /\ proc[c].open /\ in[c] # <<>>
  /\ proc[c].state = "proxying_data"
  /\ throws => hosts[h] = "closed"
  /\ proc' = [proc EXCEPT ![c].reading = ~throws, ![c].halfway = @ \/ proc[c].accepting # "no"]
  /\ in' = [in EXCEPT ![c] = Tail(@)]
  /\ toHost' = IF hosts[h] = "open" THEN [toHost EXCEPT ![h] = Append(@, <<c, Head(in[c])>>)] ELSE toHost
  /\ UNCHANGED <<guest, sent, out, lock, port, hosts, hostSent, undefined>>

(* process_data: a command.  What comes while none is expected stays in    *)
(* buffer_.  Later the front of buffer_ is compared over the length of the *)
(* new message, which may be longer than the command (~short).             *)
CommandArrives(c, short) ==
  LET buffer == Append(proc[c].kept, Head(in[c]))
      same == Command(Head(buffer)) = proc[c].expected /\ (proc[c].kept = <<>> \/ short)
      took == [proc EXCEPT ![c].halfway = @ \/ proc[c].accepting # "no"]
  IN
  /\ ThreadFree /\ proc[c].pc = "idle" /\ proc[c].reading /\ proc[c].open /\ in[c] # <<>>
  /\ proc[c].state # "proxying_data"
  /\ in' = [in EXCEPT ![c] = Tail(@)]
  /\ \/ /\ proc[c].expected = ""
        /\ proc' = [took EXCEPT ![c].kept = buffer]
        /\ UNCHANGED <<lock, port>>
     \/ proc[c].expected # "" /\ ~same /\ Remove(c)
     \/ /\ proc[c].expected = "accept" /\ same
        /\ proc' = [took EXCEPT ![c].kept = Tail(buffer), ![c].expected = "",
                                ![c].pc = "locking", ![c].reading = FALSE]
        /\ UNCHANGED <<lock, port>>
     \/ /\ proc[c].expected = "start" /\ same
        /\ proc' = [took EXCEPT ![c].kept = Tail(buffer), ![c].expected = "",
                                ![c].state = "proxying_data", ![c].pending = @ \cup {"read"}]
        /\ UNCHANGED <<lock, port>>
  /\ UNCHANGED <<guest, sent, out, hostVars, undefined>>

(* advance_state gets the lock.                                            *)
TakesLock(c) ==
  /\ ~undefined /\ proc[c].pc = "locking" /\ lock = 0
  /\ lock' = c
  /\ proc' = [proc EXCEPT ![c].pc = "binding"]
  /\ UNCHANGED <<guest, sent, in, out, port, hostVars, undefined>>

(* wait_for_host_connection: a port in use throws, with the lock held; it  *)
(* is if another processor or another program, such as an emulator, has    *)
(* bound it.                                                               *)
wait_for_host_connection(c, foreign) ==
  LET free == port = 0 /\ ~foreign IN
  /\ ~undefined /\ proc[c].pc = "binding"
  /\ port' = IF free THEN c ELSE port
  /\ proc' = [proc EXCEPT ![c].pc = "idle", ![c].reading = free,
                          ![c].pending = IF free THEN {"accept"} ELSE {}]
  /\ UNCHANGED <<guest, sent, in, out, lock, hostVars, undefined>>

----------------------------------------------------------------------------
(* The adb server connects, again and again if it likes, and the accept    *)
(* ends; its handler runs later.                                           *)
HostConnects(h) ==
  /\ ~undefined /\ port # 0 /\ hosts[h] = "none" /\ "accept" \in proc[port].pending
  /\ \A g \in HostSockets : g < h => hosts[g] # "none"
  /\ hosts' = [hosts EXCEPT ![h] = "open"]
  /\ proc' = [proc EXCEPT ![port].next = h, ![port].pending = (@ \ {"accept"}) \cup {"accepted"}]
  /\ UNCHANGED <<guest, sent, in, out, lock, port, toHost, hostSent, undefined>>

(* on_new_connection and on_host_connection: the messenger is replaced,    *)
(* whatever the state.                                                     *)
on_host_connection(c) ==
  /\ ThreadFree /\ "accepted" \in proc[c].pending
  /\ IF Exists(c)
     THEN /\ proc' = [proc EXCEPT ![c].host = proc[c].next, ![c].accepting = "replaced",
                                  ![c].pending = @ \ {"read", "accepted"}]
          /\ DropsHost(c)
          /\ UNCHANGED undefined
     ELSE undefined' = TRUE /\ UNCHANGED <<proc, hosts>>
  /\ UNCHANGED <<guest, sent, in, out, lock, port, toHost, hostSent>>

(* ok is sent.  When it cannot be, the exception ends the accepting.       *)
SendsOk(c, throws) ==
  /\ ~undefined /\ proc[c].accepting = "replaced"
  /\ throws => ~GuestListens(c)
  /\ IF Exists(c)
     THEN /\ proc' = [proc EXCEPT ![c].accepting = IF throws THEN "thrown" ELSE "ok sent"]
          /\ out' = IF GuestListens(c) THEN [out EXCEPT ![c] = Append(@, "ok")] ELSE out
          /\ UNCHANGED undefined
     ELSE undefined' = TRUE /\ UNCHANGED <<proc, out>>
  /\ UNCHANGED <<guest, sent, in, lock, port, hostVars>>

(* state_ is assigned, whatever it has become.                             *)
SetsState(c) ==
  /\ ~undefined /\ proc[c].accepting = "ok sent"
  /\ IF Exists(c)
     THEN /\ proc' = [proc EXCEPT ![c].accepting = "state set", ![c].state = "waiting_for_guest_start_command"]
          /\ UNCHANGED undefined
     ELSE undefined' = TRUE /\ UNCHANGED proc
  /\ UNCHANGED <<guest, sent, in, out, lock, port, hostVars>>

\* Mutant of SetsExpected: the start command is not waited for.
SetsExpectedToNothing(c) ==
  /\ ~undefined /\ proc[c].accepting = "state set" /\ Exists(c)
  /\ proc' = [proc EXCEPT ![c].accepting = "no", ![c].state = "proxying_data",
                          ![c].pending = @ \cup {"accept", "read"}]
  /\ UNCHANGED <<guest, sent, in, out, lock, port, hostVars, undefined>>

(* expected_command_ is assigned and the next host is accepted.            *)
SetsExpected(c) ==
  /\ ~undefined /\ proc[c].accepting = "state set"
  /\ IF Exists(c)
     THEN /\ proc' = [proc EXCEPT ![c].accepting = "no", ![c].expected = "start",
                                  ![c].pending = @ \cup {"accept"}]
          /\ UNCHANGED undefined
     ELSE undefined' = TRUE /\ UNCHANGED proc
  /\ UNCHANGED <<guest, sent, in, out, lock, port, hostVars>>

HostCloses(h) ==
  /\ ~undefined /\ hosts[h] = "open"
  /\ hosts' = [hosts EXCEPT ![h] = "closed"]
  /\ UNCHANGED <<guest, sent, in, out, proc, lock, port, toHost, hostSent, undefined>>

(* The read of the host socket ends; its handler runs later.               *)
HostReadEnds(c, what) ==
  /\ ~undefined /\ "read" \in proc[c].pending
  /\ CASE what = "eof" -> hosts[proc[c].host] = "closed" /\ UNCHANGED hostSent
       [] what = "data" -> /\ hosts[proc[c].host] = "open" /\ hostSent < MaxHostSends /\ Cardinality(Messages) + hostSent < MaxSends
                           /\ hostSent' = hostSent + 1
  /\ proc' = [proc EXCEPT ![c].pending = (@ \ {"read"}) \cup {what}]
  /\ UNCHANGED <<guest, sent, in, out, lock, port, hosts, toHost, undefined>>

\* Mutant of on_host_read_size: the guest is not told that the host has gone.
on_host_read_size_silent(c, what, throws) ==
  /\ ThreadFree /\ what \in proc[c].pending \cap {"data", "eof"} /\ Exists(c)
  /\ throws => what = "data" /\ ~GuestListens(c)
  /\ proc' = [proc EXCEPT ![c].state = IF what = "eof" THEN "closed_by_host" ELSE @,
                          ![c].pending = (@ \ {what}) \cup (IF throws \/ what = "eof" THEN {} ELSE {"read"})]
  /\ out' = IF what = "data" /\ GuestListens(c) THEN [out EXCEPT ![c] = Append(@, "data")] ELSE out
  /\ UNCHANGED <<guest, sent, in, lock, port, hostVars, undefined>>

on_host_read_size(c, what, throws) ==
  /\ ThreadFree /\ what \in proc[c].pending \cap {"data", "eof"}
  /\ throws => what = "data" /\ ~GuestListens(c)
  /\ IF ~Exists(c) THEN undefined' = TRUE /\ UNCHANGED <<proc, out>>
     ELSE /\ IF what = "eof"
             THEN /\ proc' = [proc EXCEPT ![c].pending = @ \ {what}, ![c].open = FALSE,
                                          ![c].state = "closed_by_host"]
                  /\ UNCHANGED out
             ELSE /\ proc' = [proc EXCEPT ![c].pending = (@ \ {what}) \cup (IF throws THEN {} ELSE {"read"})]
                  /\ out' = IF GuestListens(c) THEN [out EXCEPT ![c] = Append(@, "data")] ELSE out
          /\ UNCHANGED undefined
  /\ UNCHANGED <<guest, sent, in, lock, port, hostVars>>

----------------------------------------------------------------------------
Peers == \/ \E c \in Conns : GuestConnects(c) \/ GuestSends(c) \/ GuestCloses(c)
         \/ \E h \in HostSockets : HostConnects(h) \/ HostCloses(h)
Handler(c) == \/ GuestGone(c) \/ on_host_connection(c)
              \/ \E throws \in BOOLEAN : ProxiesToHost(c, throws)
              \/ \E short \in BOOLEAN : CommandArrives(c, short)
              \/ \E what \in {"data", "eof"}, throws \in BOOLEAN : on_host_read_size(c, what, throws)
HostHandler(c) == SetsState(c) \/ SetsExpected(c) \/ \E throws \in BOOLEAN : SendsOk(c, throws)
Locks(c) == TakesLock(c) \/ \E foreign \in BOOLEAN : wait_for_host_connection(c, foreign)

(* What Runtime's threads do once they can, and the kernel. *)
Runs == \E c \in Conns : Handler(c) \/ HostHandler(c) \/ Locks(c) \/ MembersGo(c) \/ HostReadEnds(c, "eof")

Next == Peers \/ Runs \/ \E c \in Conns : HostReadEnds(c, "data")
Spec == Init /\ [][Next]_vars /\ WF_vars(Runs)

----------------------------------------------------------------------------
(* PROPERTIES *)

(* An exception has left a handler of c and nothing reads its socket.      *)
Deaf(c) == proc[c].pc = "idle" /\ ~proc[c].reading

(* Only the processor that has active_instance_ listens and talks to a     *)
(* host, although lock and port are given back in two steps and by another *)
(* thread than the one that took them: a processor that gets the lock      *)
(* never finds the port held by another one, and it has the port until it  *)
(* is deleted unless its bind has thrown, as it does when another program  *)
(* has the port, or a later send.                                          *)
ActiveOwnsPort ==
  /\ port # 0 => lock = port
  /\ \A c \in Conns : proc[c].pc = "binding" => lock = c /\ port = 0
  /\ lock # 0 => \/ port = lock
                 \/ proc[lock].pc \in {"binding", "deleting"}
                 \/ Deaf(lock) /\ proc[lock].host = 0
  /\ \A c \in Conns : proc[c].host # 0 \/ proc[c].state # "waiting_for_guest_accept_command" =>
       lock = c \/ proc[c].pc = "gone"

(* The proxy is transparent: what a host gets are the data of one adbd     *)
(* connection, in order, without gaps and without the commands of the      *)
(* handshake, whatever else is connected and however often hosts connect;  *)
(* and adbd gets ok before anything else.  Nothing adbd sends is swallowed *)
(* and no host gets data from the middle of the conversation with another  *)
(* one, unless adbd's message was taken while on_host_connection was half  *)
(* done: between its statements, or left for good by the exception of a    *)
(* send to an adbd that has closed its end.                                *)
HandshakeNotLeaked ==
  /\ \A c \in Conns : out[c] # <<>> => out[c][1] = "ok"
  /\ \A h \in HostSockets : \A i \in DOMAIN toHost[h] :
       /\ Command(toHost[h][i][2]) = "data"
       /\ i > 1 => toHost[h][i] = <<toHost[h][i - 1][1], toHost[h][i - 1][2] + 1>>
       /\ i = 1 => toHost[h][i][2] = 3 \/ proc[toHost[h][i][1]].halfway
  /\ \A c \in Conns : proc[c].kept # <<>> => proc[c].halfway

(* Every thread of Runtime waits for the lock in advance_state, and its    *)
(* owner waits for a thread.                                               *)
Starved == lock # 0 /\ Cardinality(Locking) = Threads

(* A connection whose guest has gone, or whose host has gone while data    *)
(* was proxied, gives the lock back, so that the standing connection of    *)
(* adbd can proceed: unless a bind or a send of it has thrown, or the      *)
(* connections that wait for the lock have taken every thread.             *)
LockComesBack ==
  (lock # 0 /\ (guest[lock] = "closed" \/ proc[lock].state = "closed_by_host")) ~>
    (lock = 0 \/ Deaf(lock) \/ Starved \/ undefined)
=============================================================================
