---------------------------- MODULE AdbInvariant ----------------------------
(***************************************************************************)
(* The inductive invariant of the adb proxy, in its parts: what the lock,  *)
(* the port, the state of a processor and the data on the way have to do   *)
(* with each other, also between the statements of on_host_connection.     *)
(***************************************************************************)
EXTENDS Adb

(* What may be under way, or have ended, for a processor. *)
Waits == {"accept", "accepted", "read", "data", "eof"}

Procs == [pc : {"none", "idle", "locking", "binding", "deleting", "gone"},
          state : {"waiting_for_guest_accept_command", "waiting_for_guest_start_command",
                   "proxying_data", "closed_by_host"},
          expected : {"", "accept", "start"}, kept : Seq(Nat),
          reading : BOOLEAN, open : BOOLEAN,
          host : HostSockets \cup {0}, next : HostSockets \cup {0},
          pending : SUBSET Waits,
          accepting : {"no", "replaced", "ok sent", "state set", "thrown"}, halfway : BOOLEAN]

TypeOK ==
  /\ guest \in [Conns -> {"none", "open", "closed"}]
  /\ sent \in [Conns -> Nat]
  /\ in \in [Conns -> Seq(Nat)]
  /\ out \in [Conns -> Seq({"ok", "data"})]
  /\ proc \in [Conns -> Procs]
  /\ lock \in Conns \cup {0} /\ port \in Conns \cup {0}
  /\ hosts \in [HostSockets -> {"none", "open", "closed"}]
  /\ toHost \in [HostSockets -> Seq(Conns \X Nat)]
  /\ hostSent \in Nat
  /\ undefined \in BOOLEAN

(* A processor that has not begun to talk to a host. *)
NotBegun(c) ==
  /\ proc[c].host = 0 /\ proc[c].pending = {} /\ proc[c].accepting = "no"
  /\ proc[c].state = "waiting_for_guest_accept_command" /\ proc[c].expected # "start"
  /\ proc[c].kept = <<>>

(* Who listens has the lock, and has not begun to give anything back.  A   *)
(* processor that has not got the lock, or whose bind has thrown, is       *)
(* fresh.                                                                  *)
LockAndPort(c) ==
  /\ lock = c => proc[c].pc \in {"binding", "idle", "deleting"} /\ proc[c].expected # "accept"
  /\ port = c => lock = c /\ proc[c].pc = "idle"
  /\ proc[c].pc = "binding" => lock = c
  /\ proc[c].pc \in {"locking", "binding"} => proc[c].expected = ""
  /\ proc[c].pc # "gone" /\ (lock # c \/ proc[c].pc = "binding") => NotBegun(c)
  /\ proc[c].pc = "idle" /\ port # c => NotBegun(c)
  /\ proc[c].pc = "idle" /\ port # c /\ lock = c => ~proc[c].reading
  /\ proc[c].pc = "idle" /\ lock # c => proc[c].expected = "accept"

(* What a deleted processor leaves behind: nothing that could still be     *)
(* cancelled.  A connection that has not been made has no processor.       *)
NoProcessor(c) ==
  /\ proc[c].pc = "gone" =>
       /\ proc[c].host = 0 /\ "read" \notin proc[c].pending /\ "accept" \notin proc[c].pending
       /\ proc[c].state = "waiting_for_guest_accept_command" /\ proc[c].expected = "accept"
       /\ proc[c].kept = <<>> /\ ~proc[c].open
  /\ proc[c].pc = "deleting" => "accept" \notin proc[c].pending
  /\ guest[c] = "none" => proc[c].pc = "none"
  /\ proc[c].pc = "none" => ~proc[c].open /\ ~proc[c].halfway

(* The messages of adbd are numbered: what is on the way follows what was  *)
(* taken.                                                                  *)
Taken(c) == sent[c] - Len(in[c])
Numbered ==
  \A c \in Conns : /\ Taken(c) \in Nat
                   /\ \A i \in DOMAIN in[c] : in[c][i] = Taken(c) + i

(* The state of a processor agrees with what it has taken and with its     *)
(* messenger, once no host is being accepted.                              *)
StateOfProcessor(c) ==
  /\ proc[c].state = "proxying_data" => Taken(c) >= 2
  /\ proc[c].state = "closed_by_host" => ~proc[c].open
  /\ proc[c].state \in {"waiting_for_guest_start_command", "proxying_data"} => proc[c].host # 0
  /\ proc[c].expected = "start" => proc[c].state # "waiting_for_guest_accept_command"
  /\ proc[c].expected # "accept" => Taken(c) >= 1
  /\ proc[c].accepting = "state set" /\ proc[c].pc # "gone" =>
       proc[c].state # "waiting_for_guest_accept_command"
  /\ proc[c].accepting = "no" /\ proc[c].state = "waiting_for_guest_start_command" =>
       proc[c].expected = "start"

(* One accept at a time, none while on_host_connection is half done; a     *)
(* start that is heard after state_ was assigned is heard halfway.         *)
Accepts(c) ==
  /\ ~("accept" \in proc[c].pending /\ "accepted" \in proc[c].pending)
  /\ proc[c].accepting # "no" /\ proc[c].pc # "gone" =>
       proc[c].host # 0 /\ "accept" \notin proc[c].pending /\ "accepted" \notin proc[c].pending
  /\ proc[c].accepting = "state set" /\ proc[c].state = "proxying_data" => proc[c].halfway

(* adbd that listens has been sent ok, or no host has got so far; and adbd *)
(* has sent no more than accept before.                                    *)
OkFirst(c) ==
  /\ out[c] # <<>> => out[c][1] = "ok"
  /\ out[c] = <<>> => sent[c] <= 1
  /\ proc[c].state = "waiting_for_guest_accept_command" /\ proc[c].pc # "gone" =>
       /\ "read" \notin proc[c].pending /\ "data" \notin proc[c].pending
       /\ proc[c].accepting \in {"no", "replaced"} => out[c] = <<>>
  /\ GuestListens(c) /\ out[c] = <<>> =>
       /\ proc[c].state = "waiting_for_guest_accept_command"
       /\ proc[c].accepting \in {"no", "replaced"}

(* What stays in buffer_ are messages in their order, after accept; no     *)
(* start is among them once data has been sent to a host.                  *)
Buffered(c) ==
  /\ \A i \in DOMAIN proc[c].kept : proc[c].kept[i] >= 2 /\ proc[c].kept[i] <= Taken(c)
  /\ \A i, j \in DOMAIN proc[c].kept : i < j => proc[c].kept[i] < proc[c].kept[j]
  /\ proc[c].kept # <<>> => proc[c].halfway
StartIsOver(c) ==
  \/ proc[c].state = "proxying_data"
  \/ \E h \in HostSockets : proc[c].host = h /\ toHost[h] # <<>>
  => Taken(c) >= 2 /\ \A i \in DOMAIN proc[c].kept : proc[c].kept[i] >= 3

(* What an open host got last is what its processor took last, and it got  *)
(* the first message after start first.                                    *)
HostUpToDate(c) ==
  \A h \in HostSockets : proc[c].host = h /\ hosts[h] = "open" /\ proc[c].state = "proxying_data" =>
    /\ toHost[h] # <<>> => toHost[h][Len(toHost[h])] = <<c, Taken(c)>>
    /\ toHost[h] = <<>> /\ proc[c].accepting = "no" => Taken(c) = 2 \/ proc[c].halfway

(* A socket of the adb server belongs to one processor: it waits in one    *)
(* accept or is the peer of one messenger, and has got nothing before.     *)
HasAccepted(c) == "accepted" \in proc[c].pending /\ proc[c].pc # "gone"
HostsApart ==
  /\ \A h \in HostSockets : hosts[h] = "none" =>
       /\ toHost[h] = <<>>
       /\ \A c \in Conns : proc[c].host # h /\ (HasAccepted(c) => proc[c].next # h)
  /\ \A c \in Conns : HasAccepted(c) =>
       /\ proc[c].next # 0 /\ toHost[proc[c].next] = <<>>
       /\ \A e \in Conns : proc[e].host # proc[c].next
       /\ \A e \in Conns : HasAccepted(e) /\ proc[e].next = proc[c].next => e = c

(* The data a host has got. *)
DataOnly ==
  \A h \in HostSockets : \A i \in DOMAIN toHost[h] :
    /\ toHost[h][i][2] >= 3
    /\ i > 1 => toHost[h][i] = <<toHost[h][i - 1][1], toHost[h][i - 1][2] + 1>>
    /\ i = 1 => toHost[h][i][2] = 3 \/ proc[toHost[h][i][1]].halfway

(* What concerns one connection. *)
OwnPart(c) == /\ LockAndPort(c) /\ NoProcessor(c) /\ StateOfProcessor(c) /\ OkFirst(c)
          /\ Accepts(c) /\ Buffered(c) /\ StartIsOver(c) /\ HostUpToDate(c)
IInv == TypeOK /\ Numbered /\ HostsApart /\ DataOnly /\ \A c \in Conns : OwnPart(c)
=============================================================================
