------------------------------- MODULE Qemud -------------------------------
(***************************************************************************)
(* The qemud daemon of the Android image (android/qemud/qemud.c): one      *)
(* thread, an epoll loop over hooks, file descriptor handlers that are     *)
(* shut down lazily, and a multiplexer that gives every client of the      *)
(* local socket a channel on one serial line to the emulator.              *)
(*                                                                         *)
(* The state of the daemon is one record d; every C function that changes  *)
(* it is an operator from such records to such records, and every callback *)
(* of the loop is one atomic step.  Between the steps the clients and the  *)
(* emulator run.  Connection k stands for one client process, its socket,  *)
(* its Client object and its FDHandler object.  A step that reads a freed  *)
(* object is undefined in C: the model then stops in status "undefined".   *)
(***************************************************************************)
EXTENDS Integers, Sequences, FiniteSets

CONSTANTS Connections,        \* the connections made to /dev/socket/qemud, numbered from 1
          Channels,     \* number of channel numbers (0x100 in the code)
          FirstChannel, \* the values last_channel may start from
          MaxChunks,     \* bound: chunks the clients send
          MaxEmulator   \* bound: data and disconnects the emulator starts

ASSUME QemudAssumption == /\ IsFiniteSet(Connections) /\ Connections \subseteq Nat \ {0}
                          /\ Channels \in Nat \ {0} /\ FirstChannel \subseteq Nat

VARIABLES d,        \* the daemon's memory and its kernel event queue
          sock,     \* sock[k]: connection k as its client sees it
          backlog,  \* connections the daemon has not accepted yet
          toEmu,    \* frames written to the serial line
          fromEmu,  \* frames the daemon has not read from it
          emu,      \* emu.open[ch]: connection served on channel ch, 0 if none
          sends,    \* chunks the clients have sent
          rude,     \* a client was thrown out: it spoke too early or its name is too long
          reused,   \* an accept returned an fd whose old hook was still there
          crossed   \* an answer or a disconnect reached a client it was not for

qemudVars == <<d, sock, backlog, toEmu, fromEmu, emu, sends, rude, reused, crossed>>

SerialFd == 1
ControlFd == 2
Serial == 0
Control == -1
CHANNEL_CONTROL == 0

----------------------------------------------------------------------------
(* The looper.  A hook that is deleted stays in the array until the loop   *)
(* sweeps it; epoll holds, for a registered fd, the mask and the slot of   *)
(* the hook its event is delivered to.                                     *)

Undefined(s) == [s EXCEPT !.status = "undefined"]

SlotsOf(s, fd) == {i \in DOMAIN s.hooks : s.hooks[i].fd = fd}

looper_find(s, fd) == CHOOSE i \in SlotsOf(s, fd) : \A j \in SlotsOf(s, fd) : i <= j

Registered(s, fd) == s.epoll[fd].slot # 0

looper_add(s, fd, user) ==
  [s EXCEPT !.hooks = Append(@, [fd |-> fd, user |-> user, wanted |-> {}, events |-> {},
                                 pending |-> FALSE, closing |-> FALSE]),
            !.epoll[fd] = [wanted |-> {}, slot |-> Len(s.hooks) + 1]]

looper_del(s, fd) ==
  [s EXCEPT !.hooks[looper_find(s, fd)].closing = TRUE,
            !.epoll[fd] = [wanted |-> {}, slot |-> 0]]

(* Reprogram(s, fd, i): epoll_ctl MOD; the kernel refuses a closed fd. *)
Reprogram(s, fd, i) ==
  IF Registered(s, fd)
  THEN [s EXCEPT !.epoll[fd] = [wanted |-> s.hooks[i].wanted, slot |-> i]]
  ELSE s

looper_enable(s, fd, ev) ==
  LET i == looper_find(s, fd) IN
  IF ev \in s.hooks[i].wanted THEN s
  ELSE Reprogram([s EXCEPT !.hooks[i].wanted = @ \cup {ev}], fd, i)

looper_disable(s, fd, ev) ==
  LET i == looper_find(s, fd) IN
  IF ev \notin s.hooks[i].wanted THEN s
  ELSE Reprogram([s EXCEPT !.hooks[i].wanted = @ \ {ev}], fd, i)

\* Mutant of SweepHook: the registration of the moved hook keeps its old slot.
SweepHookOnly(s, i) ==
  LET last == Len(s.hooks)
  IN [s EXCEPT !.hooks = SubSeq([s.hooks EXCEPT ![i] = s.hooks[last]], 1, last - 1)]

(* A closed hook is removed: the last hook is moved into the hole and its  *)
(* registration follows it.                                                *)
SweepHook(s, i) ==
  LET last == Len(s.hooks)
      moved == [s.hooks EXCEPT ![i] = s.hooks[last]]
  IN [Reprogram([s EXCEPT !.hooks = moved], moved[i].fd, i)
        EXCEPT !.hooks = SubSeq(moved, 1, last - 1)]

----------------------------------------------------------------------------
(* FD handlers, clients and the multiplexer.                               *)

Frame(op, ch, k) == [op |-> op, ch |-> ch, conn |-> k]

serial_send(s, f) ==
  LET s1 == [s EXCEPT !.serialOut = Append(@, f)]
  IN IF s.serialOut = <<>> THEN looper_enable(s1, SerialFd, "out") ELSE s1

fdhandler_enqueue(s, k, p) ==
  LET s1 == [s EXCEPT !.h[k].out = Append(@, p)]
  IN IF s.h[k].out = <<>> THEN looper_enable(s1, s.h[k].fd, "out") ELSE s1

(* the end of fdhandler_close: the queue, the hook, the fd and the object  *)
FreeHandler(s, k) ==
  IF s.h[k].st = "freed" THEN Undefined(s) ELSE
  [looper_del(s, s.h[k].fd) EXCEPT !.h[k] = [st |-> "freed", fd |-> 0, out |-> <<>>,
                                             notify |-> FALSE]]

fdhandler_shutdown(s, k) ==
  IF s.h[k].out # <<>> /\ s.h[k].st = "active"
  THEN [s EXCEPT !.h[k].st = "closing", !.h[k].notify = FALSE]
  ELSE FreeHandler(s, k)

client_free(s, k) ==
  LET s1 == [s EXCEPT !.c[k] = [live |-> FALSE, channel |-> -1, registered |-> FALSE,
                                attached |-> FALSE]]
  IN IF s.c[k].attached THEN fdhandler_shutdown(s1, k) ELSE s1

multiplexer_close_channel(s, k) == serial_send(s, Frame("disconnect", s.c[k].channel, k))

\* Mutant of client_fd_close: the client keeps its pointer to the handler.
client_fd_close_attached(s, k) ==
  client_free(IF s.c[k].channel > 0 THEN multiplexer_close_channel(s, k) ELSE s, k)

\* Mutant of client_fd_close: the emulator is told only of registered clients.
client_fd_close_registered(s, k) ==
  LET s1 == [s EXCEPT !.c[k].attached = FALSE]
  IN client_free(IF s.c[k].registered THEN multiplexer_close_channel(s1, k) ELSE s1, k)

client_fd_close(s, k) ==
  LET s1 == [s EXCEPT !.c[k].attached = FALSE]
  IN client_free(IF s.c[k].channel > 0 THEN multiplexer_close_channel(s1, k) ELSE s1, k)

fdhandler_close(s, k) ==
  FreeHandler(IF s.h[k].notify THEN client_fd_close(s, k) ELSE s, k)

LiveClients(s) == {k \in Connections : s.c[k].live}

multiplexer_find_client(s, ch) == {k \in LiveClients(s) : s.c[k].channel = ch}

(* how far ++last_channel may go to meet a number no client has *)
StepsToFree(s) == {j \in 1..Channels : multiplexer_find_client(s, (s.last + j) % Channels) = {}}

(* With all numbers taken the search never ends.                           *)
multiplexer_open_channel(s, k, long) ==
  LET j == CHOOSE j \in StepsToFree(s) : \A i \in StepsToFree(s) : j <= i
      next == (s.last + j) % Channels
      s1 == [s EXCEPT !.last = next]
  IN IF StepsToFree(s) = {} THEN [s EXCEPT !.status = "looping"]
     ELSE IF long THEN client_free(s1, k)
     ELSE serial_send([s1 EXCEPT !.c[k].channel = next], Frame("connect", next, k))

client_fd_receive(s, k, long) ==
  IF ~s.c[k].live THEN Undefined(s)
  ELSE IF s.c[k].registered THEN serial_send(s, Frame("data", s.c[k].channel, k))
  ELSE IF s.c[k].channel > 0 THEN client_free(s, k)
  ELSE multiplexer_open_channel(s, k, long)

client_registration(s, k, ok) ==
  LET s1 == fdhandler_enqueue(s, k, k)
  IN [s1 EXCEPT !.c[k].registered = ok, !.c[k].channel = IF ok THEN @ ELSE -1]

(* A frame that names no live client is dropped. *)
multiplexer_handle_control(s, f) ==
  LET found == multiplexer_find_client(s, f.ch)
      k == CHOOSE k \in found : TRUE
  IN IF found = {} THEN s
     ELSE IF f.op = "disconnect" THEN client_free(s, k)
     ELSE client_registration(s, k, f.op = "ok")

multiplexer_serial_receive(s, f) ==
  IF f.op # "data" THEN multiplexer_handle_control(s, f)
  ELSE IF f.ch = CHANNEL_CONTROL THEN s
  ELSE LET found == multiplexer_find_client(s, f.ch)
       IN IF found = {} THEN s ELSE fdhandler_enqueue(s, CHOOSE k \in found : TRUE, f.conn)

OpenFds(s) == {SerialFd, ControlFd} \cup {s.h[k].fd : k \in {j \in Connections : s.h[j].st \in {"active", "closing"}}}

FreeFd(s) == CHOOSE fd \in 1..(Cardinality(Connections) + 2) :
               fd \notin OpenFds(s) /\ \A e \in 1..(fd - 1) : e \in OpenFds(s)

Listening(s, fd, user) == looper_enable(looper_add(s, fd, user), fd, "in")

client_new(s, k, fd) ==
  Listening([s EXCEPT !.h[k] = [st |-> "active", fd |-> fd, out |-> <<>>, notify |-> TRUE],
                      !.c[k] = [live |-> TRUE, channel |-> -1, registered |-> FALSE,
                                attached |-> TRUE]], fd, k)

multiplexer_control_accept(s, k) == client_new(s, k, FreeFd(s))

----------------------------------------------------------------------------
Fds == 1..(Cardinality(Connections) + 2)

QemudInit ==
  /\ \E first \in FirstChannel :
       d = Listening(Listening(
             [hooks |-> <<>>, epoll |-> [fd \in Fds |-> [wanted |-> {}, slot |-> 0]],
              h |-> [k \in Connections |-> [st |-> "none", fd |-> 0, out |-> <<>>, notify |-> FALSE]],
              c |-> [k \in Connections |-> [live |-> FALSE, channel |-> -1, registered |-> FALSE,
                                      attached |-> FALSE]],
              serialOut |-> <<>>, got |-> <<>>, last |-> first, status |-> "running",
              phase |-> "wait"],
             SerialFd, Serial), ControlFd, Control)
  /\ sock = [k \in Connections |-> [st |-> "idle", data |-> FALSE]]
  /\ backlog = <<>>
  /\ toEmu = <<>> /\ fromEmu = <<>>
  /\ emu = [open |-> [ch \in 0..(Channels - 1) |-> 0], started |-> 0, hungup |-> FALSE]
  /\ sends = 0 /\ rude = FALSE /\ reused = FALSE /\ crossed = FALSE

----------------------------------------------------------------------------
(* epoll_wait and the batch of callbacks it starts.                        *)

Happening(fd, user) ==
  IF user = Serial
  THEN {"out"} \cup (IF fromEmu # <<>> THEN {"in"} ELSE {})
  ELSE IF user = Control THEN IF backlog # <<>> THEN {"in"} ELSE {}
  ELSE {"out"} \cup (IF sock[user].data \/ sock[user].st = "closed" THEN {"in"} ELSE {})
               \cup (IF sock[user].st = "closed" THEN {"hup"} ELSE {})

Owner(fd) == IF fd = SerialFd THEN Serial ELSE IF fd = ControlFd THEN Control
             ELSE CHOOSE k \in Connections : d.h[k].st \in {"active", "closing"} /\ d.h[k].fd = fd

\* Mutant of Ready: hang-ups are reported only when input is asked for and pending.
ReadyAsked(fd) == IF ~Registered(d, fd) THEN {}
                  ELSE Happening(fd, Owner(fd)) \cap d.epoll[fd].wanted

(* the events epoll_wait returns for fd: those asked for, and always HUP *)
Ready(fd) == IF ~Registered(d, fd) THEN {}
             ELSE Happening(fd, Owner(fd)) \cap (d.epoll[fd].wanted \cup {"hup"})

EpollWait ==
  /\ d.status = "running" /\ d.phase = "wait"
  /\ \E fd \in Fds : Ready(fd) # {}
  /\ d' = [d EXCEPT !.phase = "hooks",
                    !.hooks = [i \in DOMAIN d.hooks |->
                       LET mine == {fd \in Fds : Ready(fd) # {} /\ d.epoll[fd].slot = i}
                       IN IF mine = {} THEN d.hooks[i]
                          ELSE [d.hooks[i] EXCEPT !.pending = TRUE, !.closing = FALSE,
                                  !.events = Ready(CHOOSE fd \in mine : TRUE)]]]
  /\ UNCHANGED <<sock, backlog, toEmu, fromEmu, emu, sends, rude, reused, crossed>>

Pending == {i \in DOMAIN d.hooks : d.hooks[i].pending}
Current == CHOOSE i \in Pending : \A j \in Pending : i <= j
Running(user) == d.status = "running" /\ d.phase = "hooks" /\ Pending # {} /\ d.hooks[Current].user = user
Events == d.hooks[Current].events
Started == [d EXCEPT !.hooks[Current].pending = FALSE, !.hooks[Current].events = {}]

(* fdhandler_event of the serial line: what can be read is read at once.   *)
(* Frames are read whole: one that has arrived in part is only kept.       *)
SerialReads ==
  /\ Running(Serial)
  /\ \E n \in (IF "in" \in Events THEN 1..Len(fromEmu) ELSE {0}) :
       /\ d' = [d EXCEPT !.hooks[Current].pending = FALSE, !.phase = "serial",
                         !.got = SubSeq(fromEmu, 1, n)]
       /\ fromEmu' = SubSeq(fromEmu, n + 1, Len(fromEmu))
  /\ UNCHANGED <<sock, backlog, toEmu, emu, sends, rude, reused, crossed>>

(* serial_fd_receive: one round of its loop, with a whole frame. *)
SerialReceives ==
  /\ d.status = "running" /\ d.phase = "serial" /\ d.got # <<>>
  /\ LET f == Head(d.got) IN
     /\ d' = [multiplexer_serial_receive(d, f) EXCEPT !.got = Tail(@)]
     /\ crossed' = (\/ crossed
                    \/ f.op # "data" /\ \E k \in multiplexer_find_client(d, f.ch) : k # f.conn)
  /\ UNCHANGED <<sock, backlog, toEmu, fromEmu, emu, sends, rude, reused>>

(* The rest of the callback: a packet is written if there is room. *)
SerialWrites ==
  LET i == looper_find(d, SerialFd)
      writes == "out" \in d.hooks[i].events /\ d.serialOut # <<>>
      s == [d EXCEPT !.phase = "hooks", !.hooks[i].events = {},
                     !.serialOut = IF writes THEN Tail(@) ELSE @]
  IN /\ d.status = "running" /\ d.phase = "serial" /\ d.got = <<>>
     /\ toEmu' = IF writes THEN Append(toEmu, Head(d.serialOut)) ELSE toEmu
     /\ d' = IF writes /\ s.serialOut = <<>> THEN looper_disable(s, SerialFd, "out") ELSE s
     /\ UNCHANGED <<sock, backlog, fromEmu, emu, sends, rude, reused, crossed>>

AcceptEvent ==
  /\ Running(Control)
  /\ d' = multiplexer_control_accept(Started, Head(backlog))
  /\ backlog' = Tail(backlog)
  /\ reused' = (reused \/ SlotsOf(d, FreeFd(d)) # {})
  /\ UNCHANGED <<sock, toEmu, fromEmu, emu, sends, rude, crossed>>

(* fdhandler_event of connection k: what can be read is posted first, then *)
(* a hang-up closes, else one packet is written; writing to a socket whose *)
(* client has gone since epoll_wait raises SIGPIPE.                        *)
ClientEvent(k) ==
  LET freed == d.h[k].st = "freed"
      reads == "in" \in Events /\ sock[k].data /\ ~freed
      hangs == "hup" \in Events
  IN /\ Running(k)
     /\ \E long \in BOOLEAN :
          LET s == IF freed THEN Undefined(Started)
                   ELSE IF reads THEN client_fd_receive(Started, k, long) ELSE Started
              writes == ~hangs /\ "out" \in Events /\ s.h[k].out # <<>>
              s1 == IF writes THEN [s EXCEPT !.h[k].out = Tail(@)] ELSE s
          IN /\ d' = IF s.status # "running" THEN s
                     ELSE IF hangs THEN fdhandler_close(s, k)
                     ELSE IF writes /\ sock[k].st = "closed" THEN [s EXCEPT !.status = "killed"]
                     ELSE IF writes /\ s1.h[k].out = <<>> THEN looper_disable(s1, s.h[k].fd, "out")
                     ELSE s1
             /\ rude' = (rude \/ (reads /\ d.c[k].live /\ ~s.c[k].live))
     /\ sock' = [sock EXCEPT ![k].data = @ /\ ~reads]
     /\ UNCHANGED <<backlog, toEmu, fromEmu, emu, sends, reused, crossed>>

(* The loop that removes the closed hooks: each time the first one. *)
Closing == {i \in DOMAIN d.hooks : d.hooks[i].closing}
Sweep ==
  /\ d.status = "running" /\ d.phase = "hooks" /\ Pending = {}
  /\ d' = IF Closing = {} THEN [d EXCEPT !.phase = "wait"]
          ELSE SweepHook(d, CHOOSE i \in Closing : \A j \in Closing : i <= j)
  /\ UNCHANGED <<sock, backlog, toEmu, fromEmu, emu, sends, rude, reused, crossed>>

Daemon == \/ EpollWait \/ SerialReads \/ SerialReceives \/ SerialWrites
          \/ AcceptEvent \/ (\E k \in Connections : ClientEvent(k)) \/ Sweep

----------------------------------------------------------------------------
(* The clients and the emulator, as the daemon uses them.                  *)

ClientConnects(k) ==
  /\ sock[k].st = "idle" /\ d.status = "running"
  /\ sock' = [sock EXCEPT ![k].st = "open"]
  /\ backlog' = Append(backlog, k)
  /\ UNCHANGED <<d, toEmu, fromEmu, emu, sends, rude, reused, crossed>>

ClientSends(k) ==
  /\ sock[k].st = "open" /\ sends < MaxChunks /\ d.status = "running"
  /\ sock' = [sock EXCEPT ![k].data = TRUE]
  /\ sends' = sends + 1
  /\ UNCHANGED <<d, backlog, toEmu, fromEmu, emu, rude, reused, crossed>>

ClientCloses(k) ==
  /\ sock[k].st = "open" /\ d.status = "running"
  /\ sock' = [sock EXCEPT ![k].st = "closed"]
  /\ UNCHANGED <<d, backlog, toEmu, fromEmu, emu, sends, rude, reused, crossed>>

EmulatorReads ==
  /\ toEmu # <<>> /\ d.status = "running"
  /\ toEmu' = Tail(toEmu)
  /\ LET f == Head(toEmu) IN
     \/ /\ f.op = "connect"
        /\ \/ /\ emu' = [emu EXCEPT !.open[f.ch] = f.conn]
              /\ fromEmu' = Append(fromEmu, Frame("ok", f.ch, f.conn))
           \/ /\ fromEmu' = Append(fromEmu, Frame("ko", f.ch, f.conn))
              /\ UNCHANGED emu
     \/ /\ f.op = "disconnect"
        /\ emu' = [emu EXCEPT !.open[f.ch] = 0]
        /\ UNCHANGED fromEmu
     \/ /\ f.op = "data"
        /\ UNCHANGED <<emu, fromEmu>>
  /\ UNCHANGED <<d, sock, backlog, sends, rude, reused, crossed>>

EmulatorStarts(ch) ==
  /\ emu.open[ch] # 0 /\ emu.started < MaxEmulator /\ d.status = "running"
  /\ \E op \in {"data", "disconnect"} :
       /\ fromEmu' = Append(fromEmu, Frame(op, ch, emu.open[ch]))
       /\ emu' = [emu EXCEPT !.started = @ + 1, !.open[ch] = IF op = "data" THEN @ ELSE 0,
                              !.hungup = @ \/ op = "disconnect"]
  /\ UNCHANGED <<d, sock, backlog, toEmu, sends, rude, reused, crossed>>

QemudNext == \/ Daemon
             \/ \E k \in Connections : ClientConnects(k) \/ ClientSends(k) \/ ClientCloses(k)
             \/ EmulatorReads
             \/ \E ch \in 0..(Channels - 1) : EmulatorStarts(ch)

(* Weak fairness of Daemon and of EmulatorReads, with their guards written *)
(* out: only a step of the daemon changes d, and only the emulator shortens *)
(* toEmu.                                                                   *)
DaemonCanRun == d.status = "running" /\ (d.phase # "wait" \/ \E fd \in Fds : Ready(fd) # {})
EmulatorCanRead == d.status = "running" /\ toEmu # <<>>
Fairness == /\ <>[]DaemonCanRun => []<><<TRUE>>_d
            /\ <>[]EmulatorCanRead => []<><<Len(toEmu') < Len(toEmu)>>_toEmu

QemudSpec == QemudInit /\ [][QemudNext]_qemudVars /\ Fairness

----------------------------------------------------------------------------
(* PROPERTIES *)

(* With clients that wait for the answer to their registration and an      *)
(* emulator that never disconnects a channel first, no callback of         *)
(* looper_loop reaches a handler or a client that was freed.               *)
PoliteNeverUndefined ==
  d.status = "undefined" => rude \/ emu.hungup

(* When the loop waits, every client object is heard: the fd of its        *)
(* handler is registered for input, and the registration leads to the hook *)
(* of this handler, wherever the sweep has moved it.  The one exception is *)
(* a daemon that once accepted a connection on an fd whose closed hook was *)
(* still in the array.                                                     *)
ClientsAreHeard ==
  d.phase = "wait" /\ ~reused /\ d.status = "running" =>
    \A k \in LiveClients(d) :
      LET reg == d.epoll[d.h[k].fd] IN
        /\ reg.slot \in DOMAIN d.hooks /\ d.hooks[reg.slot].user = k
        /\ "in" \in reg.wanted
        /\ ("out" \in reg.wanted) = (d.h[k].out # <<>>)

(* Two clients never have the same channel, and once everything in flight  *)
(* has been read the emulator serves a channel exactly for the registered  *)
(* client that owns it.  Three exceptions: channel 0, which the counter    *)
(* hands out when it wraps; a client that was thrown out because it spoke  *)
(* too early, of which the emulator is never told; and an answer or a      *)
(* disconnect that came so late that its channel had another client by     *)
(* then, which multiplexer_find_client cannot tell apart.                  *)
ChannelsAgree ==
  /\ \A j, k \in LiveClients(d) : d.c[j].channel = d.c[k].channel /\ j # k => d.c[j].channel = -1
  /\ d.status = "running" /\ d.phase = "wait" /\ ~crossed /\ toEmu = <<>> /\ fromEmu = <<>> /\ d.serialOut = <<>> =>
       \A ch \in 1..(Channels - 1) :
         /\ emu.open[ch] # 0 =>
              \/ rude
              \/ d.c[emu.open[ch]].channel = ch /\ d.c[emu.open[ch]].registered
         /\ \A k \in LiveClients(d) : d.c[k].registered /\ d.c[k].channel = ch => emu.open[ch] = k

(* A client that has gone is forgotten by the daemon and then by the       *)
(* emulator, if the daemon survives, no fd was reused too early, nobody    *)
(* was thrown out and no answer reached a client it was not for.           *)
GoneClientsForgotten ==
  \A k \in Connections :
    sock[k].st = "closed" ~>
      \/ d.status # "running" \/ reused \/ rude \/ crossed
      \/ ~d.c[k].live /\ \A ch \in 1..(Channels - 1) : emu.open[ch] # k
=============================================================================
