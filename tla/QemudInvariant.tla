--------------------------- MODULE QemudInvariant ---------------------------
(***************************************************************************)
(* The two inductive invariants of the qemud daemon, in their parts: of    *)
(* the loop with its hooks, handlers and clients (HookInv), and of the     *)
(* channels and the frames on the serial line (ChannelInv).                *)
(***************************************************************************)
EXTENDS Qemud

(* What the memory of the daemon may hold, field by field: events, frames, *)
(* hooks of the looper, registrations with epoll, FDHandler and Client     *)
(* objects.                                                                *)
Ev == {"in", "out", "hup"}
Ops == {"connect", "disconnect", "data", "ok", "ko"}
Frames == [op : Ops, ch : 0 .. (Channels - 1), conn : Connections]
HookSet == [fd : Fds, user : Connections \cup {Serial, Control}, wanted : SUBSET Ev,
            events : SUBSET Ev, pending : BOOLEAN, closing : BOOLEAN]
Registrations == [wanted : SUBSET Ev, slot : Nat]
Handlers == [st : {"none", "active", "closing", "freed"}, fd : Fds \cup {0},
             out : Seq(Connections), notify : BOOLEAN]
ClientObjects == [live : BOOLEAN, channel : -1 .. (Channels - 1), registered : BOOLEAN,
                  attached : BOOLEAN]
Memory == [hooks : Seq(HookSet), epoll : [Fds -> Registrations], h : [Connections -> Handlers],
           c : [Connections -> ClientObjects], serialOut : Seq(Frames), got : Seq(Frames),
           last : Nat, status : {"running", "undefined", "killed", "looping"},
           phase : {"wait", "hooks", "serial"}]

(* The handler of connection k has a file descriptor. *)
Opened(s, k) == s.h[k].st \in {"active", "closing"}

(* No hook with the fd of connection k belongs to another connection. *)
Own(s, k) == \A i \in 1 .. Len(s.hooks) : s.hooks[i].fd = s.h[k].fd => s.hooks[i].user = k

(* The first two hooks are those of the serial line and of the control     *)
(* socket; no connection has two hooks.                                    *)
BaseHooks(s) ==
  /\ Len(s.hooks) >= 2
  /\ s.hooks[1].fd = SerialFd /\ s.hooks[1].user = Serial /\ ~s.hooks[1].closing
  /\ s.hooks[2].fd = ControlFd /\ s.hooks[2].user = Control /\ ~s.hooks[2].closing
  /\ \A i \in 3 .. Len(s.hooks) : /\ s.hooks[i].user \in Connections
                                  /\ s.hooks[i].fd # SerialFd /\ s.hooks[i].fd # ControlFd
  /\ \A i, j \in 3 .. Len(s.hooks) : s.hooks[i].user = s.hooks[j].user => i = j
  /\ \A fd \in Fds : s.epoll[fd].slot = 2 => fd = ControlFd

(* A hook that is not closed leads to an open handler with its fd, a       *)
(* closed one to a freed handler, and every open handler has a hook.       *)
HookOfHandler(s) ==
  /\ \A i \in 3 .. Len(s.hooks) :
       /\ s.hooks[i].closing => s.h[s.hooks[i].user].st = "freed"
       /\ ~s.hooks[i].closing => /\ Opened(s, s.hooks[i].user)
                                 /\ s.h[s.hooks[i].user].fd = s.hooks[i].fd
  /\ \A k \in Connections : Opened(s, k) => \E i \in 3 .. Len(s.hooks) : s.hooks[i].user = k

(* Two open handlers have different fds. *)
FdsApart(s) ==
  \A j, k \in Connections : Opened(s, j) /\ Opened(s, k) /\ s.h[j].fd = s.h[k].fd => j = k

(* A connection with a pending event or a channel shares its fd with no    *)
(* hook of another one: what accept left behind has been swept before the  *)
(* connection was first heard.                                             *)
Alone(s) ==
  \A i \in 3 .. Len(s.hooks) :
    LET k == s.hooks[i].user
    IN  Opened(s, k) /\ (s.hooks[i].pending \/ s.c[k].channel # -1) => Own(s, k)

(* When the loop waits nothing is pending and nothing is left to sweep. *)
WaitsClean(s) ==
  s.phase = "wait" => \A i \in 1 .. Len(s.hooks) : ~s.hooks[i].pending /\ ~s.hooks[i].closing

(* The looper and the handlers fit together. *)
HS(s) == BaseHooks(s) /\ HookOfHandler(s) /\ FdsApart(s) /\ Alone(s) /\ WaitsClean(s)

(* The Client, its handler and the pointers between them live and die      *)
(* together, and only a live client has a channel.                         *)
ClientsLive(s) ==
  \A k \in Connections :
    /\ s.c[k].live = (s.h[k].st = "active") /\ s.c[k].attached = s.c[k].live
    /\ s.h[k].notify = s.c[k].live
    /\ ~s.c[k].live => s.c[k].channel = -1
    /\ s.c[k].registered => s.c[k].channel # -1

(* The kernel delivers every event to the slot its hook is in. *)
HeardReg(s) ==
  /\ \A i, j \in 1 .. Len(s.hooks) : s.hooks[i].fd = s.hooks[j].fd => i = j
  /\ \A i \in 1 .. Len(s.hooks) :
       /\ s.hooks[i].closing => s.epoll[s.hooks[i].fd].slot = 0
       /\ ~s.hooks[i].closing =>
            s.epoll[s.hooks[i].fd] = [wanted |-> s.hooks[i].wanted, slot |-> i]

(* A handler asks for input always, and for output when it has packets     *)
(* queued.                                                                 *)
HeardWant(s) ==
  \A i \in 3 .. Len(s.hooks) : ~s.hooks[i].closing =>
       /\ "in" \in s.hooks[i].wanted
       /\ "out" \in s.hooks[i].wanted <=> s.h[s.hooks[i].user].out # <<>>

(* The daemon hears every connection; false only after an fd was reused    *)
(* early.                                                                  *)
Heard(s) == HeardReg(s) /\ HeardWant(s)

----------------------------------------------------------------------------
(* The loop. *)

(* The sockets of the clients and the state of the emulator. *)
Socks == [st : {"idle", "open", "closed"}, data : BOOLEAN]
Emulators == [open : [0 .. (Channels - 1) -> Connections \cup {0}], started : Nat, hungup : BOOLEAN]

(* The type invariant. *)
QemudType == /\ d \in Memory /\ sock \in [Connections -> Socks] /\ backlog \in Seq(Connections)
             /\ toEmu \in Seq(Frames) /\ fromEmu \in Seq(Frames) /\ emu \in Emulators
             /\ rude \in BOOLEAN /\ reused \in BOOLEAN /\ crossed \in BOOLEAN

(* The control socket is about to accept. *)
ControlPending(s) == \E i \in 1 .. Len(s.hooks) : s.hooks[i].user = Control /\ s.hooks[i].pending

(* A connection that waits to be accepted, or was not made yet, has no     *)
(* handler; no connection waits twice; the accept callback finds one.      *)
NotYet(s, b, sk) ==
  /\ \A i \in 1 .. Len(b) : s.h[b[i]].st = "none"
  /\ \A i, j \in 1 .. Len(b) : b[i] = b[j] => i = j
  /\ \A k \in Connections : sk[k].st = "idle" => s.h[k].st = "none" /\ \A i \in 1 .. Len(b) : b[i] # k
  /\ ControlPending(s) => b # <<>>

(* The looper, the handlers and the clients of a running daemon fit        *)
(* together, and all are heard until an fd is reused early.                *)
LoopInv == d.status = "running" =>
  /\ HS(d) /\ ClientsLive(d) /\ NotYet(d, backlog, sock)
  /\ d.phase # "serial" => d.got = <<>>
  /\ ~reused => Heard(d)

(* With polite peers nothing is closed while its callback is still to      *)
(* come: no disconnect is under way, no handler lingers, no pending hook   *)
(* is closed.                                                              *)
Politely(s, up) ==
  /\ s.status # "undefined"
  /\ s.status = "running" =>
       /\ \A i \in 1 .. Len(s.hooks) : s.hooks[i].pending => ~s.hooks[i].closing
       /\ \A k \in Connections : s.h[k].st # "closing"
       /\ \A i \in 1 .. Len(up) : up[i].op # "disconnect"
       /\ \A i \in 1 .. Len(s.got) : s.got[i].op # "disconnect"

(* Either the peers were not polite or nothing has gone wrong. *)
PoliteInv == rude \/ emu.hungup \/ Politely(d, fromEmu)

(* The inductive invariant of the loop. *)
HookInv == QemudType /\ LoopInv /\ PoliteInv

----------------------------------------------------------------------------
(* The frames on the serial line. *)

(* Sequences of frames, by the frames they hold. *)
None(q, F) == \A i \in 1 .. Len(q) : q[i] \notin F

(* Frame g is the only one of F in q. *)
Single(q, F, g) == \E i \in 1 .. Len(q) : q[i] = g /\ \A j \in 1 .. Len(q) : j # i => q[j] \notin F

(* Frame g is the only one of G in q, and none of F follows it. *)
Last(q, F, G, g) == \E i \in 1 .. Len(q) : /\ q[i] = g
                                           /\ \A j \in 1 .. Len(q) : j > i => q[j] \notin F
                                           /\ \A j \in 1 .. Len(q) : j # i => q[j] \notin G

(* The frames about channel ch on the way to the emulator, those of client *)
(* k among them, and the answers on the way to client k.                   *)
DownOn(ch) == {f \in Frames : f.ch = ch /\ (f.op = "connect" \/ f.op = "disconnect")}

(* of these, the frames client k sent *)
DownBy(ch, k) == {f \in DownOn(ch) : f.conn = k}

(* the disconnects of channel ch *)
Ends(ch) == {f \in Frames : f.ch = ch /\ f.op = "disconnect"}

(* the answers to client k and the disconnects meant for it *)
UpTo(ch, k) == {f \in Frames : f.ch = ch /\ f.conn = k /\ (f.op = "ok" \/ f.op = "ko" \/ f.op = "disconnect")}

(* The state of a channel and a client, by the frames dn on the way to the *)
(* emulator, the frames up on the way back and op, whom the emulator       *)
(* serves on the channel. Asked: its connect is on the way and is the last *)
(* word on the channel.                                                    *)
Asked(dn, up, op, ch, k) ==
  Last(dn, DownOn(ch), DownBy(ch, k), Frame("connect", ch, k)) /\ None(up, UpTo(ch, k)) /\ op # k

(* The emulator has refused, and the client does not know yet. *)
Refused(dn, up, op, ch, k) ==
  None(dn, DownOn(ch)) /\ op # k /\ Single(up, UpTo(ch, k), Frame("ko", ch, k))

(* The emulator serves the client, or has hung up on it and the disconnect *)
(* is on the way.                                                          *)
Serving(dn, up, op, ch, k) ==
  /\ None(dn, DownOn(ch)) /\ None(up, {Frame("ko", ch, k)})
  /\ op = k <=> None(up, {Frame("disconnect", ch, k)})

(* A client that waits for its answer: it will come. *)
Waiting(dn, up, op, ch, k) ==
  \/ Asked(dn, up, op, ch, k) \/ Refused(dn, up, op, ch, k)
  \/ Serving(dn, up, op, ch, k) /\ ~None(up, {Frame("ok", ch, k)})

(* Nothing on the way concerns this client on this channel. *)
Fresh(dn, up, op, ch, k) == None(dn, DownBy(ch, k)) /\ None(up, UpTo(ch, k)) /\ op # k

(* Every connect on its way, and every channel the emulator serves, is of  *)
(* a holder of the channel or is followed by a disconnect.                 *)
Connects(ch) == {f \in Frames : f.ch = ch /\ f.op = "connect"}

(* Every connect on channel ch is by one of H or is followed by a          *)
(* disconnect.                                                             *)
Ended(q, ch, H) ==
  \A i \in 1 .. Len(q) : q[i] \in Connects(ch) =>
    q[i].conn \in H \/ \E j \in 1 .. Len(q) : j > i /\ q[j] \in Ends(ch)

(* The same, also for the client the emulator serves already. *)
Settled(q, op, ch, H) == Ended(q, ch, H) /\ (op # 0 => op \in H \/ ~None(q, Ends(ch)))

----------------------------------------------------------------------------
(* The agreement about the channels. *)

(* Client k has channel ch. *)
Hold(s, k, ch) == s.c[k].live /\ s.c[k].channel = ch

(* Connection k is live or yet to come. *)
Aware(s, k) == s.c[k].live \/ s.h[k].st = "none"

(* What client k knows of channel ch agrees with what is under way. *)
Pair(s, dn, up, op, ch, k) ==
  /\ Hold(s, k, ch) /\ ~s.c[k].registered => Waiting(dn, up, op, ch, k)
  /\ Hold(s, k, ch) /\ s.c[k].registered => Serving(dn, up, op, ch, k)
  /\ ~Hold(s, k, ch) /\ Aware(s, k) => Fresh(dn, up, op, ch, k)

(* The same for all clients and channels; channel 0 is left out. *)
Linked(s, dn, up, open) ==
  \A ch \in 1 .. (Channels - 1), k \in Connections : Pair(s, dn, up, open[ch], ch, k)

(* Whatever the emulator will serve, a live client holds it or a           *)
(* disconnect follows.                                                     *)
AllSettled(s, dn, open) ==
  \A ch \in 1 .. (Channels - 1) : Settled(dn, open[ch], ch, multiplexer_find_client(s, ch))

(* Two live clients never have the same channel. *)
Apart(s) ==
  \A j, k \in Connections : s.c[j].live /\ s.c[k].live /\ s.c[j].channel = s.c[k].channel => 
    j = k \/ s.c[j].channel = -1

(* What the emulator will have read, and the agreement about it. *)
Agreed(s, q, up, open, rd) ==
  Linked(s, q \o s.serialOut, up, open) /\ (rd \/ AllSettled(s, q \o s.serialOut, open))

(* The invariant of the channels. *)
Connecting == {f \in Frames : f.op = "connect"}

(* The frames on the way to the clients, those already read included. *)
Up == d.got \o fromEmu

(* Until an answer crosses, agreement about every channel; the settling    *)
(* half until a client is thrown out.                                      *)
ChannelInv ==
  /\ Apart(d)
  /\ d.status = "running" => None(Up, Connecting)
  /\ d.status = "running" /\ ~crossed => Agreed(d, toEmu, Up, emu.open, rude)
=============================================================================
