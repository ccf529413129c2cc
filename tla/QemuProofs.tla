----------------------------- MODULE QemuProofs -----------------------------
(***************************************************************************)
(* The services the Android image reaches through QEMU pipes and the       *)
(* serial line.                                                            *)
(*                                                                         *)
(* The safety of the adb proxy, for any number of connections of adbd, of  *)
(* sockets of the adb server, of threads of Runtime and of messages; and   *)
(* the safety of the qemud daemon, for any number of connections, of       *)
(* channels and of chunks.                                                 *)
(***************************************************************************)
EXTENDS AdbInvariant, QemudInvariant, FiniteSetTheorems, SequenceTheorems, WellFoundedInduction, TLAPS

----------------------------------------------------------------------------
(* The adb proxy. *)

(* A step that changes no processor but c. *)
Only(c) == /\ proc' \in [Conns -> Procs]
           /\ \A e \in Conns : e # c => proc'[e] = proc[e]
(* A step of connection c, as the other connections see it. *)
Elsewhere(c) ==
  /\ Only(c)
  /\ \A e \in Conns : e # c => /\ guest'[e] = guest[e] /\ sent'[e] = sent[e] /\ out'[e] = out[e]
                               /\ Taken(e)' = Taken(e)
                               /\ lock' = e <=> lock = e
                               /\ port' = e <=> port = e
  /\ \A h \in HostSockets : \A e \in Conns : e # c /\ proc[e].host = h =>
       toHost'[h] = toHost[h] /\ (hosts'[h] = "open" => hosts[h] = "open")

----------------------------------------------------------------------------
(* 0 is no connection of adbd and no socket of the adb server. *)
LEMMA NoZero == 0 \notin Conns /\ 0 \notin HostSockets
<1>1. \A n : 0 \notin 1..n
  OBVIOUS
<1>. QED
  BY <1>1, AdbAssumption

(* The initial state of the proxy satisfies the invariant. *)
LEMMA InitIInv == Init => IInv
<1> SUFFICES ASSUME Init PROVE IInv
  OBVIOUS
<1> USE NoZero DEF Init
<1>1. NewProc \in Procs
  BY DEF Procs, NewProc
<1>2. TypeOK
  <2>1. /\ <<>> \in Seq(Nat) /\ <<>> \in Seq({"ok", "data"}) /\ <<>> \in Seq(Conns \X Nat)
    OBVIOUS
  <2>. QED
    BY <1>1, <2>1 DEF TypeOK
<1>3. Numbered /\ HostsApart /\ DataOnly
  BY DEF Numbered, Taken, HostsApart, HasAccepted, DataOnly, NewProc
<1>4. ASSUME NEW c \in Conns PROVE OwnPart(c)
  <2>1. /\ proc[c].pc = "none" /\ proc[c].host = 0 /\ proc[c].pending = {} /\ proc[c].accepting = "no"
        /\ proc[c].state = "waiting_for_guest_accept_command" /\ proc[c].expected = "accept"
        /\ proc[c].kept = <<>> /\ ~proc[c].open /\ ~proc[c].halfway
    BY DEF NewProc
  <2>2. lock # c /\ port # c /\ guest[c] = "none" /\ sent[c] = 0 /\ out[c] = <<>>
    OBVIOUS
  <2>3. LockAndPort(c) /\ NoProcessor(c)
    BY <2>1, <2>2 DEF LockAndPort, NoProcessor, NotBegun
  <2>4. StateOfProcessor(c) /\ Accepts(c)
    BY <2>1 DEF StateOfProcessor, Accepts
  <2>5. OkFirst(c)
    <3>1. sent[c] <= 1
      BY <2>2
    <3>. QED
      BY <2>1, <2>2, <3>1 DEF OkFirst, GuestListens
  <2>6. Buffered(c) /\ StartIsOver(c) /\ HostUpToDate(c)
    BY <2>1 DEF Buffered, StartIsOver, HostUpToDate
  <2>. QED
    BY <2>3, <2>4, <2>5, <2>6 DEF OwnPart
<1>. QED
  BY <1>2, <1>3, <1>4 DEF IInv

(* A message is taken from the connection c: the numbers of what is left   *)
(* follow it.                                                              *)
LEMMA TakeOne ==
  ASSUME TypeOK, Numbered, NEW c \in Conns, in[c] # <<>>, UNCHANGED sent,
         in' = [in EXCEPT ![c] = Tail(@)]
  PROVE  /\ in' \in [Conns -> Seq(Nat)] /\ Numbered'
         /\ \A e \in Conns : e # c => Taken(e)' = Taken(e)
         /\ Taken(c)' = Taken(c) + 1 /\ Head(in[c]) = Taken(c)'
<1> USE DEF TypeOK, Taken
<1>1. /\ in[c] \in Seq(Nat) /\ in' \in [Conns -> Seq(Nat)] /\ in'[c] = Tail(in[c])
      /\ Len(in'[c]) = Len(in[c]) - 1 /\ Len(in[c]) \in Nat /\ Len(in[c]) > 0
      /\ \A e \in Conns : e # c => in'[e] = in[e]
  OBVIOUS
<1>2. Taken(c) \in Nat /\ Taken(c)' = Taken(c) + 1 /\ Head(in[c]) = Taken(c)'
  <2>1. Taken(c) \in Nat /\ \A i \in DOMAIN in[c] : in[c][i] = Taken(c) + i
    BY DEF Numbered
  <2>2. 1 \in DOMAIN in[c] /\ Head(in[c]) = in[c][1] /\ sent[c] \in Nat
    BY <1>1
  <2>3. Taken(c)' = Taken(c) + 1
    BY <1>1, <2>2
  <2>. QED
    BY <2>1, <2>2, <2>3
<1>3. \A e \in Conns : e # c => Taken(e)' = Taken(e)
  BY <1>1
<1>4. \A i \in DOMAIN in'[c] : in'[c][i] = Taken(c)' + i
  <2> TAKE i \in DOMAIN in'[c]
  <2>1. i + 1 \in DOMAIN in[c] /\ in'[c][i] = in[c][i + 1] /\ i \in Nat
    BY <1>1, SMTT(30)
  <2>. QED
    BY <2>1, <1>2 DEF Numbered
<1>5. Numbered'
  <2>1. ASSUME NEW e \in Conns
        PROVE  Taken(e)' \in Nat /\ \A i \in DOMAIN in'[e] : in'[e][i] = Taken(e)' + i
    <3>1. CASE e = c
      BY <3>1, <1>2, <1>4
    <3>2. CASE e # c
      <4>1. Taken(e)' = Taken(e) /\ in'[e] = in[e]
        BY <3>2, <1>1, <1>3
      <4>. QED
        BY <4>1 DEF Numbered
    <3>. QED
      BY <3>1, <3>2
  <2>. QED
    BY <2>1 DEF Numbered
<1>. QED
  BY <1>1, <1>2, <1>3, <1>5

(* A processor changes to another record of its type. *)
LEMMA OnlyOne ==
  ASSUME TypeOK, NEW c \in Conns, proc'[c] \in Procs, proc' = [e \in Conns |-> proc'[e]],
         \A e \in Conns : e # c => proc'[e] = proc[e]
  PROVE  Only(c)
<1>1. \A e \in Conns : proc'[e] \in Procs
  BY DEF TypeOK
<1>2. proc' \in [Conns -> Procs]
  BY <1>1
<1>. QED
  BY <1>2 DEF Only

(* The record of a connection. *)
LEMMA ProcOf == ASSUME TypeOK, NEW c \in Conns PROVE proc[c] \in Procs
BY DEF TypeOK

(* Sockets of the adb server stay apart in a step that accepts none and    *)
(* gives none to a messenger.                                              *)
LEMMA ApartFrame ==
  ASSUME HostsApart, toHost' = toHost,
         \A h \in HostSockets : hosts'[h] = "none" => hosts[h] = "none",
         \A e \in Conns : proc'[e].host = proc[e].host \/ proc'[e].host = 0,
         \A e \in Conns : HasAccepted(e)' => HasAccepted(e) /\ proc'[e].next = proc[e].next
  PROVE  HostsApart'
<1>1. ASSUME NEW e \in Conns, HasAccepted(e)'
      PROVE  HasAccepted(e) /\ proc'[e].next = proc[e].next
  BY <1>1
<1>2. ASSUME NEW h \in HostSockets, hosts'[h] = "none"
      PROVE  /\ toHost'[h] = <<>>
             /\ \A e \in Conns : proc'[e].host # h /\ (HasAccepted(e)' => proc'[e].next # h)
  BY <1>1, <1>2, NoZero DEF HostsApart
<1>3. ASSUME NEW c \in Conns, HasAccepted(c)'
      PROVE  /\ proc'[c].next # 0 /\ toHost'[proc'[c].next] = <<>>
             /\ \A e \in Conns : proc'[e].host # proc'[c].next
             /\ \A e \in Conns : HasAccepted(e)' /\ proc'[e].next = proc'[c].next => e = c
  BY <1>1, <1>3 DEF HostsApart
<1>. QED
  BY <1>2, <1>3 DEF HostsApart

(* The parts of the invariant about the other connections survive a step   *)
(* of one connection.                                                      *)
LEMMA OthersKeep ==
  ASSUME IInv, NEW c \in Conns, Elsewhere(c), NEW e \in Conns, e # c
  PROVE  OwnPart(e)'
<1>1. /\ proc'[e] = proc[e] /\ guest'[e] = guest[e] /\ sent'[e] = sent[e] /\ out'[e] = out[e]
      /\ Taken(e)' = Taken(e) /\ (lock' = e <=> lock = e) /\ (port' = e <=> port = e)
  BY DEF Elsewhere, Only
<1>2. \A h \in HostSockets : proc[e].host = h =>
        toHost'[h] = toHost[h] /\ (hosts'[h] = "open" => hosts[h] = "open")
  BY DEF Elsewhere
<1>3. LockAndPort(e) /\ NoProcessor(e) /\ StateOfProcessor(e) /\ OkFirst(e)
      /\ Accepts(e) /\ Buffered(e) /\ StartIsOver(e) /\ HostUpToDate(e)
  BY DEF IInv, OwnPart
<1>4. LockAndPort(e)' /\ NoProcessor(e)' /\ Accepts(e)'
  BY <1>1, <1>3 DEF LockAndPort, NoProcessor, NotBegun, Accepts
<1>5. StateOfProcessor(e)' /\ OkFirst(e)' /\ Buffered(e)'
  BY <1>1, <1>3 DEF StateOfProcessor, OkFirst, GuestListens, Buffered
<1>6. StartIsOver(e)' /\ HostUpToDate(e)'
  BY <1>1, <1>2, <1>3 DEF StartIsOver, HostUpToDate
<1>. QED
  BY <1>4, <1>5, <1>6 DEF OwnPart

(* What is left to show of a step of connection c. *)
LEMMA StepOf ==
  ASSUME IInv, NEW c \in Conns, Elsewhere(c), TypeOK', Numbered', HostsApart', DataOnly', OwnPart(c)'
  PROVE  IInv'
<1>1. ASSUME NEW e \in Conns PROVE OwnPart(e)'
  BY OthersKeep
<1>. QED
  BY <1>1 DEF IInv

(* A socket of the adb server has one processor, the one that has the      *)
(* lock.                                                                   *)
LEMMA OneTalks ==
  ASSUME IInv, NEW c \in Conns, NEW e \in Conns, e # c, proc[c].host # 0
  PROVE  proc[e].host = 0 /\ lock = c
BY DEF IInv, OwnPart, LockAndPort, NoProcessor, NotBegun

(* What was data stays data in a step that sends nothing to a host.        *)
LEMMA DataFrame ==
  ASSUME IInv, toHost' = toHost, \A e \in Conns : proc[e].halfway => proc'[e].halfway
  PROVE  DataOnly'
<1>1. ASSUME NEW h \in HostSockets, NEW i \in DOMAIN toHost[h]
      PROVE  i = 1 => toHost[h][i][2] = 3 \/ proc'[toHost[h][i][1]].halfway
  <2>1. toHost[h][i] \in Conns \X Nat
    BY DEF IInv, TypeOK
  <2>2. toHost[h][i][1] \in Conns
    BY <2>1
  <2>. QED
    BY <2>2 DEF IInv, DataOnly
<1>. QED
  BY <1>1 DEF IInv, DataOnly

(* A handler that runs on a deleted processor changes nothing else. *)
LEMMA Unmoved ==
  ASSUME IInv, UNCHANGED <<guest, sent, in, out, proc, lock, port, hosts, toHost, hostSent>>,
         undefined' \in BOOLEAN
  PROVE  IInv'
<1>1. TypeOK' /\ Numbered' /\ DataOnly'
  BY DEF IInv, TypeOK, Numbered, Taken, DataOnly
<1>2. HostsApart'
  BY DEF IInv, HostsApart, HasAccepted
<1>3. ASSUME NEW e \in Conns PROVE OwnPart(e)'
  <2>1. LockAndPort(e) /\ NoProcessor(e) /\ StateOfProcessor(e) /\ OkFirst(e)
        /\ Accepts(e) /\ Buffered(e) /\ StartIsOver(e) /\ HostUpToDate(e)
    BY DEF IInv, OwnPart
  <2>2. LockAndPort(e)' /\ NoProcessor(e)' /\ StateOfProcessor(e)' /\ OkFirst(e)'
    BY <2>1 DEF LockAndPort, NoProcessor, NotBegun, StateOfProcessor, OkFirst, GuestListens, Taken
  <2>3. Accepts(e)' /\ Buffered(e)' /\ StartIsOver(e)' /\ HostUpToDate(e)'
    BY <2>1 DEF Accepts, Buffered, StartIsOver, HostUpToDate, Taken
  <2>. QED
    BY <2>2, <2>3 DEF OwnPart
<1>. QED
  BY <1>1, <1>2, <1>3 DEF IInv

----------------------------------------------------------------------------
(* adbd and the adb server. *)

(* A connection of adbd gets a fresh processor. *)
LEMMA GuestConnectsKeeps ==
  ASSUME IInv, NEW c \in Conns, GuestConnects(c)
  PROVE  IInv'
<1> USE NoZero
<1>1. /\ proc'[c] = [NewProc EXCEPT !.pc = "idle", !.reading = TRUE, !.open = TRUE]
      /\ proc' = [e \in Conns |-> proc'[e]] /\ \A e \in Conns : e # c => proc'[e] = proc[e]
  BY DEF IInv, TypeOK, GuestConnects
<1>2. /\ guest[c] = "none" /\ guest' = [guest EXCEPT ![c] = "open"]
      /\ UNCHANGED <<sent, in, out, lock, port, hosts, toHost, hostSent, undefined>>
  BY DEF GuestConnects, hostVars
<1>3. /\ proc'[c].pc = "idle" /\ proc'[c].host = 0 /\ proc'[c].pending = {} /\ proc'[c].kept = <<>>
      /\ proc'[c].accepting = "no" /\ proc'[c].expected = "accept"
      /\ proc'[c].state = "waiting_for_guest_accept_command"
  BY <1>1 DEF NewProc
<1>4. Only(c)
  <2>1. <<>> \in Seq(Nat) /\ {} \in SUBSET Waits
    OBVIOUS
  <2>2. proc'[c] = [pc |-> "idle", state |-> "waiting_for_guest_accept_command", expected |-> "accept",
                    kept |-> <<>>, reading |-> TRUE, open |-> TRUE, host |-> 0, next |-> 0,
                    pending |-> {}, accepting |-> "no", halfway |-> FALSE]
    BY <1>1 DEF NewProc
  <2>3. proc'[c] \in Procs
    BY <2>1, <2>2 DEF Procs
  <2>. QED
    BY <1>1, <2>3, OnlyOne DEF IInv
<1>5. \A e \in Conns : Taken(e)' = Taken(e)
  BY <1>2 DEF Taken
<1>6. Elsewhere(c)
  BY <1>2, <1>4, <1>5 DEF Elsewhere, IInv, TypeOK
<1>7. TypeOK'
  BY <1>2, <1>4 DEF IInv, TypeOK, Only
<1>8. Numbered'
  BY <1>2 DEF IInv, Numbered, Taken
<1>9. HostsApart'
  BY <1>1, <1>2, <1>3, ApartFrame DEF IInv, HasAccepted
<1>10. proc[c].pc = "none" /\ ~proc[c].halfway /\ lock # c /\ port # c /\ NotBegun(c)
  <2>1. NoProcessor(c) /\ LockAndPort(c)
    BY DEF IInv, OwnPart
  <2>. QED
    BY <1>2, <2>1 DEF NoProcessor, LockAndPort
<1>11. DataOnly'
  <2>1. \A e \in Conns : proc[e].halfway => proc'[e].halfway
    BY <1>1, <1>10
  <2>. QED
    BY <1>2, <2>1, DataFrame
<1>12. LockAndPort(c)' /\ NoProcessor(c)'
  <2>1. lock' # c /\ port' # c /\ guest'[c] = "open"
    BY <1>2, <1>10 DEF IInv, TypeOK
  <2>. QED
    BY <1>3, <2>1 DEF LockAndPort, NoProcessor, NotBegun
<1>13. StateOfProcessor(c)' /\ Accepts(c)'
  BY <1>3 DEF StateOfProcessor, Accepts
<1>14. OkFirst(c)'
  <2>1. OkFirst(c)
    BY DEF IInv, OwnPart
  <2>. QED
    BY <1>2, <1>3, <1>10, <2>1 DEF OkFirst, NotBegun
<1>15. Buffered(c)' /\ StartIsOver(c)' /\ HostUpToDate(c)'
  BY <1>3 DEF Buffered, StartIsOver, HostUpToDate
<1>. QED
  BY <1>6, <1>7, <1>8, <1>9, <1>11, <1>12, <1>13, <1>14, <1>15, StepOf DEF OwnPart

(* A message of adbd on its way takes the next number. *)
LEMMA GuestSendsKeeps ==
  ASSUME IInv, NEW c \in Conns, GuestSends(c)
  PROVE  IInv'
<1>1. /\ in' = [in EXCEPT ![c] = Append(@, sent[c] + 1)]
      /\ sent' = [sent EXCEPT ![c] = @ + 1]
      /\ UNCHANGED <<guest, out, proc, lock, port, hosts, toHost, hostSent, undefined>>
  BY DEF GuestSends, hostVars
<1>2. TypeOK'
  BY <1>1 DEF IInv, TypeOK
<1>3. ASSUME NEW e \in Conns
      PROVE  /\ Taken(e)' = Taken(e)
             /\ \A i \in DOMAIN in'[e] : in'[e][i] = Taken(e) + i
  <2>1. CASE e = c
    <3>1. /\ in'[c] = Append(in[c], sent[c] + 1) /\ sent'[c] = sent[c] + 1
          /\ in[c] \in Seq(Nat) /\ sent[c] \in Nat /\ Len(in[c]) \in Nat
      BY <1>1 DEF IInv, TypeOK
    <3>2. Taken(c) \in Nat /\ Taken(c) = sent[c] - Len(in[c])
          /\ \A i \in 1..Len(in[c]) : in[c][i] = Taken(c) + i
      BY <3>1 DEF IInv, Numbered, Taken
    <3>3. Taken(c)' = Taken(c)
      BY <3>1 DEF Taken
    <3>4. ASSUME NEW i \in 1..(Len(in[c]) + 1) PROVE in'[c][i] = Taken(c) + i
      <4>1. CASE i = Len(in[c]) + 1
        BY <3>1, <3>2, <4>1
      <4>2. CASE i # Len(in[c]) + 1
        <5>1. i \in 1..Len(in[c])
          BY <3>1, <4>2
        <5>2. in'[c][i] = in[c][i]
          BY <3>1, <5>1
        <5>. QED
          BY <3>2, <5>1, <5>2
      <4>. QED
        BY <4>1, <4>2
    <3>5. DOMAIN in'[c] = 1..(Len(in[c]) + 1)
      BY <3>1
    <3>. QED
      BY <2>1, <3>3, <3>4, <3>5
  <2>2. CASE e # c
    <3>1. in'[e] = in[e] /\ sent'[e] = sent[e]
      BY <2>2, <1>1 DEF IInv, TypeOK
    <3>. QED
      BY <3>1 DEF IInv, Numbered, Taken
  <2>. QED
    BY <2>1, <2>2
<1>4. Numbered'
  BY <1>3 DEF IInv, Numbered
<1>5. Elsewhere(c)
  BY <1>1, <1>3 DEF Elsewhere, Only, IInv, TypeOK
<1>6. HostsApart' /\ DataOnly'
  BY <1>1 DEF IInv, HostsApart, HasAccepted, DataOnly
<1>7. LockAndPort(c) /\ NoProcessor(c) /\ StateOfProcessor(c) /\ OkFirst(c)
      /\ Accepts(c) /\ Buffered(c) /\ StartIsOver(c) /\ HostUpToDate(c)
  BY DEF IInv, OwnPart
<1>8. LockAndPort(c)' /\ NoProcessor(c)' /\ Accepts(c)'
  BY <1>1, <1>7 DEF LockAndPort, NoProcessor, NotBegun, Accepts
<1>9. StateOfProcessor(c)' /\ Buffered(c)' /\ StartIsOver(c)' /\ HostUpToDate(c)'
  BY <1>1, <1>3, <1>7 DEF StateOfProcessor, Buffered, StartIsOver, HostUpToDate
<1>10. OkFirst(c)'
  <2>1. out[c] = <<>> => sent'[c] <= 1
    <3>1. sent[c] >= 1 => out[c] # <<>>
      BY DEF GuestSends
    <3>2. sent[c] \in Nat /\ sent'[c] = sent[c] + 1
      BY <1>1 DEF IInv, TypeOK
    <3>. QED
      BY <3>1, <3>2
  <2>. QED
    BY <1>1, <1>7, <2>1 DEF OkFirst, GuestListens
<1>. QED
  BY <1>2, <1>4, <1>5, <1>6, <1>8, <1>9, <1>10, StepOf DEF OwnPart

(* adbd closes its end. *)
LEMMA GuestClosesKeeps ==
  ASSUME IInv, NEW c \in Conns, GuestCloses(c)
  PROVE  IInv'
<1>1. /\ guest' = [guest EXCEPT ![c] = "closed"] /\ guest[c] = "open"
      /\ UNCHANGED <<sent, in, out, proc, lock, port, hosts, toHost, hostSent, undefined>>
  BY DEF GuestCloses, hostVars
<1>2. TypeOK' /\ Numbered' /\ DataOnly'
  BY <1>1 DEF IInv, TypeOK, Numbered, Taken, DataOnly
<1>3. HostsApart'
  BY <1>1 DEF IInv, HostsApart, HasAccepted
<1>4. \A e \in Conns : Taken(e)' = Taken(e)
  BY <1>1 DEF Taken
<1>5. Elsewhere(c)
  BY <1>1, <1>4 DEF Elsewhere, Only, IInv, TypeOK
<1>6. LockAndPort(c) /\ NoProcessor(c) /\ StateOfProcessor(c) /\ OkFirst(c)
      /\ Accepts(c) /\ Buffered(c) /\ StartIsOver(c) /\ HostUpToDate(c)
  BY DEF IInv, OwnPart
<1>7. guest'[c] = "closed"
  BY <1>1 DEF IInv, TypeOK
<1>8. LockAndPort(c)' /\ NoProcessor(c)' /\ Accepts(c)' /\ OkFirst(c)'
  BY <1>1, <1>6, <1>7 DEF LockAndPort, NoProcessor, NotBegun, Accepts, OkFirst, GuestListens
<1>9. StateOfProcessor(c)' /\ Buffered(c)' /\ StartIsOver(c)' /\ HostUpToDate(c)'
  BY <1>1, <1>4, <1>6 DEF StateOfProcessor, Buffered, StartIsOver, HostUpToDate
<1>. QED
  BY <1>2, <1>3, <1>5, <1>8, <1>9, StepOf DEF OwnPart

(* A host closes its socket. *)
LEMMA HostClosesKeeps ==
  ASSUME IInv, NEW h \in HostSockets, HostCloses(h)
  PROVE  IInv'
<1>1. /\ hosts[h] = "open" /\ hosts' = [hosts EXCEPT ![h] = "closed"]
      /\ UNCHANGED <<guest, sent, in, out, proc, lock, port, toHost, hostSent, undefined>>
  BY DEF HostCloses
<1>2. TypeOK' /\ Numbered' /\ DataOnly'
  BY <1>1 DEF IInv, TypeOK, Numbered, Taken, DataOnly
<1>3. \A g \in HostSockets : /\ hosts'[g] = "none" => hosts[g] = "none"
                             /\ hosts'[g] = "open" => hosts[g] = "open"
  BY <1>1 DEF IInv, TypeOK
<1>4. HostsApart'
  BY <1>1, <1>3 DEF IInv, HostsApart, HasAccepted
<1>5. ASSUME NEW e \in Conns PROVE OwnPart(e)'
  <2>1. LockAndPort(e) /\ NoProcessor(e) /\ StateOfProcessor(e) /\ OkFirst(e)
        /\ Accepts(e) /\ Buffered(e) /\ StartIsOver(e) /\ HostUpToDate(e)
    BY DEF IInv, OwnPart
  <2>2. LockAndPort(e)' /\ NoProcessor(e)' /\ StateOfProcessor(e)' /\ OkFirst(e)'
    BY <1>1, <2>1 DEF LockAndPort, NoProcessor, NotBegun, StateOfProcessor, OkFirst, GuestListens, Taken
  <2>3. Accepts(e)' /\ Buffered(e)' /\ StartIsOver(e)' /\ HostUpToDate(e)'
    BY <1>1, <1>3, <2>1 DEF Accepts, Buffered, StartIsOver, HostUpToDate, Taken
  <2>. QED
    BY <2>2, <2>3 DEF OwnPart
<1>. QED
  BY <1>2, <1>4, <1>5 DEF IInv

(* A host connects to the processor that listens. *)
LEMMA HostConnectsKeeps ==
  ASSUME IInv, NEW h \in HostSockets, HostConnects(h)
  PROVE  IInv'
<1> USE NoZero
<1>1. PICK c \in Conns : c = port
  BY DEF HostConnects, IInv, TypeOK
<1>2. /\ hosts[h] = "none" /\ hosts' = [hosts EXCEPT ![h] = "open"] /\ "accept" \in proc[c].pending
      /\ UNCHANGED <<guest, sent, in, out, lock, port, toHost, hostSent, undefined>>
  BY <1>1 DEF HostConnects
<1>3. PICK w \in SUBSET Waits : w = (proc[c].pending \ {"accept"}) \cup {"accepted"}
  BY ProcOf DEF IInv, Procs, Waits
<1>4. /\ proc'[c] = [proc[c] EXCEPT !.next = h, !.pending = w]
      /\ proc' = [e \in Conns |-> proc'[e]] /\ \A e \in Conns : e # c => proc'[e] = proc[e]
  BY <1>1, <1>3 DEF HostConnects, IInv, TypeOK
<1>5. proc[c] \in Procs
  BY ProcOf DEF IInv
<1>6. /\ proc'[c].pc = proc[c].pc /\ proc'[c].state = proc[c].state
      /\ proc'[c].expected = proc[c].expected /\ proc'[c].kept = proc[c].kept
      /\ proc'[c].reading = proc[c].reading /\ proc'[c].open = proc[c].open
      /\ proc'[c].host = proc[c].host /\ proc'[c].accepting = proc[c].accepting
      /\ proc'[c].halfway = proc[c].halfway /\ proc'[c].next = h /\ proc'[c].pending = w
  BY <1>4, <1>5 DEF Procs
<1>7. Only(c)
  <2>1. proc'[c] \in Procs
    BY <1>4, <1>5 DEF Procs
  <2>. QED
    BY <1>4, <2>1, OnlyOne DEF IInv
<1>8. \A e \in Conns : Taken(e)' = Taken(e)
  BY <1>2 DEF Taken
<1>9. /\ toHost[h] = <<>>
      /\ \A e \in Conns : proc[e].host # h /\ (HasAccepted(e) => proc[e].next # h)
  BY <1>2 DEF IInv, HostsApart
<1>10. \A g \in HostSockets : g # h => hosts'[g] = hosts[g]
  BY <1>2 DEF IInv, TypeOK
<1>11. Elsewhere(c)
  <2>1. \A g \in HostSockets : \A e \in Conns : e # c /\ proc[e].host = g =>
          toHost'[g] = toHost[g] /\ (hosts'[g] = "open" => hosts[g] = "open")
    BY <1>2, <1>9, <1>10
  <2>. QED
    BY <1>2, <1>7, <1>8, <2>1 DEF Elsewhere
<1>12. TypeOK' /\ Numbered'
  BY <1>2, <1>7 DEF IInv, TypeOK, Only, Numbered, Taken
<1>13. LockAndPort(c) /\ NoProcessor(c) /\ StateOfProcessor(c) /\ OkFirst(c)
       /\ Accepts(c) /\ Buffered(c) /\ StartIsOver(c) /\ HostUpToDate(c)
  BY DEF IInv, OwnPart
<1>14. lock = c /\ proc[c].pc = "idle"
  BY <1>1, <1>13 DEF LockAndPort
<1>15. HostsApart'
  <2>1. \A g \in HostSockets : hosts'[g] = "none" => hosts[g] = "none" /\ g # h
    BY <1>2 DEF IInv, TypeOK
  <2>2. \A e \in Conns : e # c => (HasAccepted(e)' <=> HasAccepted(e)) /\ proc'[e].next = proc[e].next
    BY <1>4 DEF HasAccepted
  <2>3. \A e \in Conns : proc'[e].host = proc[e].host
    BY <1>4, <1>6
  <2>. QED
    BY <1>2, <1>6, <1>9, <2>1, <2>2, <2>3 DEF IInv, HostsApart
<1>16. DataOnly'
  BY <1>2, <1>4, <1>6, DataFrame
<1>17. LockAndPort(c)' /\ NoProcessor(c)'
  <2>1. lock' = c /\ port' = c /\ guest' = guest
    BY <1>1, <1>2, <1>14
  <2>. QED
    BY <1>6, <1>13, <1>14, <2>1 DEF LockAndPort, NoProcessor
<1>18. StateOfProcessor(c)' /\ Buffered(c)'
  BY <1>6, <1>8, <1>13 DEF StateOfProcessor, Buffered
<1>19. Accepts(c)'
  <2>1. proc[c].accepting = "no" /\ "accept" \notin proc'[c].pending
    BY <1>2, <1>3, <1>6, <1>13, <1>14 DEF Accepts
  <2>. QED
    BY <1>6, <2>1 DEF Accepts
<1>20. OkFirst(c)'
  <2>1. /\ "read" \in w => "read" \in proc[c].pending
        /\ "data" \in w => "data" \in proc[c].pending
    BY <1>3
  <2>. QED
    BY <1>2, <1>6, <1>13, <2>1 DEF OkFirst, GuestListens
<1>21. StartIsOver(c)' /\ HostUpToDate(c)'
  <2>1. \A g \in HostSockets : proc'[c].host = g => g # h /\ hosts'[g] = hosts[g]
    BY <1>6, <1>9, <1>10
  <2>. QED
    BY <1>2, <1>6, <1>8, <1>13, <2>1 DEF StartIsOver, HostUpToDate
<1>. QED
  BY <1>11, <1>12, <1>15, <1>16, <1>17, <1>18, <1>19, <1>20, <1>21, StepOf DEF OwnPart

----------------------------------------------------------------------------
(* The end of a processor, the lock and the port. *)

(* The destructor gives the port back, whatever the handler had taken      *)
(* before; the lock is still held.                                         *)
LEMMA RemoveKeeps ==
  ASSUME IInv, NEW c \in Conns, Remove(c), proc[c].pc = "idle",
         UNCHANGED <<guest, sent, out, hosts, toHost, hostSent, undefined>>,
         in' \in [Conns -> Seq(Nat)], Numbered',
         \A e \in Conns : e # c => Taken(e)' = Taken(e),
         Taken(c)' = Taken(c) \/ (Taken(c)' = Taken(c) + 1 /\ proc[c].state # "proxying_data")
  PROVE  IInv'
<1> USE NoZero
<1>1. PICK w \in SUBSET Waits : w = proc[c].pending \ {"accept"}
  BY ProcOf DEF IInv, Procs
<1>2. /\ proc'[c] = [proc[c] EXCEPT !.pc = "deleting", !.reading = FALSE, !.open = FALSE, !.pending = w]
      /\ proc' = [e \in Conns |-> proc'[e]] /\ \A e \in Conns : e # c => proc'[e] = proc[e]
  BY <1>1 DEF Remove, IInv, TypeOK
<1>3. proc[c] \in Procs
  BY ProcOf DEF IInv
<1>4. /\ proc'[c].pc = "deleting" /\ proc'[c].state = proc[c].state
      /\ proc'[c].expected = proc[c].expected /\ proc'[c].kept = proc[c].kept
      /\ ~proc'[c].open /\ proc'[c].next = proc[c].next
      /\ proc'[c].host = proc[c].host /\ proc'[c].accepting = proc[c].accepting
      /\ proc'[c].halfway = proc[c].halfway /\ proc'[c].pending = w
  BY <1>2, <1>3 DEF Procs
<1>5. Only(c)
  <2>1. proc'[c] \in Procs
    BY <1>2, <1>3 DEF Procs
  <2>. QED
    BY <1>2, <2>1, OnlyOne DEF IInv
<1>6. port' = (IF port = c THEN 0 ELSE port) /\ lock' = lock
  BY DEF Remove
<1>7. port' # c /\ \A e \in Conns : e # c => (port' = e <=> port = e)
  BY <1>6
<1>8. Elsewhere(c)
  BY <1>5, <1>6, <1>7 DEF Elsewhere
<1>9. TypeOK'
  BY <1>5, <1>6 DEF IInv, TypeOK, Only
<1>10. HostsApart'
  <2>1. "accepted" \in w => "accepted" \in proc[c].pending
    BY <1>1
  <2>2. \A e \in Conns : HasAccepted(e)' => HasAccepted(e) /\ proc'[e].next = proc[e].next
    BY <1>2, <1>4, <2>1 DEF HasAccepted
  <2>3. \A e \in Conns : proc'[e].host = proc[e].host
    BY <1>2, <1>4
  <2>. QED
    BY <2>2, <2>3, ApartFrame DEF IInv
<1>11. DataOnly'
  BY <1>2, <1>4, DataFrame
<1>12. LockAndPort(c) /\ NoProcessor(c) /\ StateOfProcessor(c) /\ OkFirst(c)
       /\ Accepts(c) /\ Buffered(c) /\ StartIsOver(c) /\ HostUpToDate(c)
  BY DEF IInv, OwnPart
<1>13. \A x \in Waits : x \in w => x \in proc[c].pending
  BY <1>1
<1>14. LockAndPort(c)' /\ NoProcessor(c)'
  <2>1. NotBegun(c) => NotBegun(c)'
    BY <1>1, <1>4 DEF NotBegun
  <2>2. LockAndPort(c)'
    BY <1>4, <1>6, <1>7, <1>12, <2>1 DEF LockAndPort
  <2>3. NoProcessor(c)'
    BY <1>1, <1>4, <1>12 DEF NoProcessor
  <2>. QED
    BY <2>2, <2>3
<1>15. Taken(c) \in Nat /\ Taken(c)' \in Nat /\ Taken(c)' >= Taken(c)
  <2>1. Taken(c) \in Nat
    BY DEF IInv, Numbered
  <2>. QED
    BY <2>1
<1>16. StateOfProcessor(c)'
  <2>1. (Taken(c) >= 2 => Taken(c)' >= 2) /\ (Taken(c) >= 1 => Taken(c)' >= 1)
    BY <1>15
  <2>. QED
    BY <1>4, <1>12, <2>1 DEF StateOfProcessor
<1>17. Accepts(c)'
  BY <1>1, <1>4, <1>12 DEF Accepts
<1>18. OkFirst(c)'
  <2>1. ~GuestListens(c)' /\ out' = out /\ sent' = sent
    BY <1>4 DEF GuestListens
  <2>2. ("read" \in w => "read" \in proc[c].pending) /\ ("data" \in w => "data" \in proc[c].pending)
    BY <1>1
  <2>. QED
    BY <1>4, <1>12, <2>1, <2>2 DEF OkFirst
<1>19. Buffered(c)'
  <2>1. proc[c].kept \in Seq(Nat)
    BY <1>3 DEF Procs
  <2>2. \A i \in DOMAIN proc[c].kept : proc[c].kept[i] \in Nat
    BY <2>1
  <2>. QED
    BY <1>4, <1>12, <1>15, <2>2 DEF Buffered
<1>20. StartIsOver(c)'
  BY <1>4, <1>12, <1>15 DEF StartIsOver
<1>21. HostUpToDate(c)'
  BY <1>4, <1>12 DEF HostUpToDate
<1>. QED
  BY <1>8, <1>9, <1>10, <1>11, <1>14, <1>16, <1>17, <1>18, <1>19, <1>20, <1>21, StepOf DEF OwnPart

(* The guest has gone. *)
LEMMA GuestGoneKeeps ==
  ASSUME IInv, NEW c \in Conns, GuestGone(c)
  PROVE  IInv'
<1>1. /\ Remove(c) /\ proc[c].pc = "idle"
      /\ UNCHANGED <<guest, sent, in, out, hosts, toHost, hostSent, undefined>>
  BY DEF GuestGone, hostVars
<1>2. (\A e \in Conns : Taken(e)' = Taken(e)) /\ Numbered' /\ in' \in [Conns -> Seq(Nat)]
  BY <1>1 DEF IInv, TypeOK, Numbered, Taken
<1>. QED
  BY <1>1, <1>2, RemoveKeeps

(* The members go, with the lock and the messenger. *)
LEMMA MembersGoKeeps ==
  ASSUME IInv, NEW c \in Conns, MembersGo(c)
  PROVE  IInv'
<1> USE NoZero
<1>1. PICK w \in SUBSET Waits : w = proc[c].pending \ {"read"}
  BY ProcOf DEF IInv, Procs
<1>2. proc[c] \in Procs /\ proc[c].pc = "deleting"
  BY ProcOf DEF IInv, MembersGo
<1>3. /\ proc'[c] = [NewProc EXCEPT !.pc = "gone", !.pending = w,
                                    !.accepting = proc[c].accepting, !.halfway = proc[c].halfway]
      /\ proc' = [e \in Conns |-> proc'[e]] /\ \A e \in Conns : e # c => proc'[e] = proc[e]
  BY <1>1 DEF MembersGo, IInv, TypeOK
<1>4. /\ proc'[c].pc = "gone" /\ proc'[c].state = "waiting_for_guest_accept_command"
      /\ proc'[c].expected = "accept" /\ proc'[c].kept = <<>> /\ ~proc'[c].open
      /\ proc'[c].host = 0 /\ proc'[c].accepting = proc[c].accepting
      /\ proc'[c].halfway = proc[c].halfway /\ proc'[c].pending = w
  BY <1>3 DEF NewProc
<1>5. Only(c)
  <2>1. NewProc \in Procs
    BY DEF Procs, NewProc
  <2>2. PICK a \in {"no", "replaced", "ok sent", "state set", "thrown"}, f \in BOOLEAN :
          a = proc[c].accepting /\ f = proc[c].halfway
    BY <1>2 DEF Procs
  <2>3. proc'[c] = [NewProc EXCEPT !.pc = "gone", !.pending = w, !.accepting = a, !.halfway = f]
    BY <1>3, <2>2
  <2>4. proc'[c] \in Procs
    BY <2>1, <2>3 DEF Procs
  <2>. QED
    BY <1>3, <2>4, OnlyOne DEF IInv
<1>6. /\ lock' = (IF lock = c THEN 0 ELSE lock) /\ guest' = [guest EXCEPT ![c] = "closed"]
      /\ hosts' = [h \in HostSockets |-> IF h = proc[c].host THEN "closed" ELSE hosts[h]]
      /\ UNCHANGED <<sent, in, out, port, toHost, hostSent, undefined>>
  BY DEF MembersGo, DropsHost
<1>7. \A e \in Conns : Taken(e)' = Taken(e)
  BY <1>6 DEF Taken
<1>8. /\ lock' # c /\ \A e \in Conns : e # c => (lock' = e <=> lock = e)
  BY <1>6
<1>9. \A h \in HostSockets : /\ hosts'[h] = "open" => hosts[h] = "open"
                             /\ hosts'[h] = "none" => hosts[h] = "none"
  BY <1>6
<1>10. guest'[c] = "closed" /\ \A e \in Conns : e # c => guest'[e] = guest[e]
  BY <1>6 DEF IInv, TypeOK
<1>11. Elsewhere(c)
  BY <1>5, <1>6, <1>7, <1>8, <1>9, <1>10 DEF Elsewhere
<1>12. TypeOK'
  <2>1. hosts' \in [HostSockets -> {"none", "open", "closed"}]
    BY <1>6 DEF IInv, TypeOK
  <2>. QED
    BY <1>5, <1>6, <2>1 DEF IInv, TypeOK, Only
<1>13. Numbered'
  BY <1>6 DEF IInv, Numbered, Taken
<1>14. HostsApart'
  <2>1. \A e \in Conns : HasAccepted(e)' => HasAccepted(e) /\ proc'[e].next = proc[e].next
    BY <1>3, <1>4 DEF HasAccepted
  <2>2. \A e \in Conns : proc'[e].host = proc[e].host \/ proc'[e].host = 0
    BY <1>3, <1>4
  <2>. QED
    BY <1>6, <1>9, <2>1, <2>2, ApartFrame DEF IInv
<1>15. DataOnly'
  BY <1>3, <1>4, <1>6, DataFrame
<1>16. LockAndPort(c) /\ NoProcessor(c) /\ OkFirst(c) /\ Accepts(c)
  BY DEF IInv, OwnPart
<1>17. LockAndPort(c)'
  <2>1. port' # c
    BY <1>2, <1>6, <1>16 DEF LockAndPort
  <2>. QED
    BY <1>4, <1>8, <2>1 DEF LockAndPort
<1>18. NoProcessor(c)'
  <2>1. "accept" \notin w \/ "accept" \in proc[c].pending
    BY <1>1
  <2>2. "read" \notin w
    BY <1>1
  <2>3. "accept" \notin proc[c].pending
    BY <1>2, <1>16 DEF NoProcessor
  <2>. QED
    BY <1>4, <1>10, <2>1, <2>2, <2>3 DEF NoProcessor
<1>19. StateOfProcessor(c)'
  BY <1>4 DEF StateOfProcessor
<1>20. Accepts(c)'
  BY <1>1, <1>4, <1>16 DEF Accepts
<1>21. OkFirst(c)'
  <2>1. ~GuestListens(c)' /\ out' = out /\ sent' = sent
    BY <1>4, <1>6 DEF GuestListens
  <2>. QED
    BY <1>4, <1>16, <2>1 DEF OkFirst
<1>22. Buffered(c)' /\ StartIsOver(c)' /\ HostUpToDate(c)'
  BY <1>4 DEF Buffered, StartIsOver, HostUpToDate
<1>. QED
  BY <1>11, <1>12, <1>13, <1>14, <1>15, <1>17, <1>18, <1>19, <1>20, <1>21, <1>22, StepOf DEF OwnPart

(* The lock is taken. *)
LEMMA TakesLockKeeps ==
  ASSUME IInv, NEW c \in Conns, TakesLock(c)
  PROVE  IInv'
<1> USE NoZero
<1>1. /\ proc[c].pc = "locking" /\ lock = 0 /\ lock' = c
      /\ UNCHANGED <<guest, sent, in, out, port, hosts, toHost, hostSent, undefined>>
  BY DEF TakesLock, hostVars
<1>2. /\ proc'[c] = [proc[c] EXCEPT !.pc = "binding"]
      /\ proc' = [e \in Conns |-> proc'[e]] /\ \A e \in Conns : e # c => proc'[e] = proc[e]
  BY DEF TakesLock, IInv, TypeOK
<1>3. proc[c] \in Procs
  BY ProcOf DEF IInv
<1>4. /\ proc'[c].pc = "binding" /\ proc'[c].state = proc[c].state
      /\ proc'[c].expected = proc[c].expected /\ proc'[c].kept = proc[c].kept
      /\ proc'[c].open = proc[c].open /\ proc'[c].next = proc[c].next
      /\ proc'[c].host = proc[c].host /\ proc'[c].accepting = proc[c].accepting
      /\ proc'[c].halfway = proc[c].halfway /\ proc'[c].pending = proc[c].pending
  BY <1>2, <1>3 DEF Procs
<1>5. Only(c)
  <2>1. proc'[c] \in Procs
    BY <1>2, <1>3 DEF Procs
  <2>. QED
    BY <1>2, <2>1, OnlyOne DEF IInv
<1>6. \A e \in Conns : Taken(e)' = Taken(e)
  BY <1>1 DEF Taken
<1>7. Elsewhere(c)
  <2>1. \A e \in Conns : e # c => (lock' = e <=> lock = e)
    BY <1>1
  <2>. QED
    BY <1>1, <1>5, <1>6, <2>1 DEF Elsewhere
<1>8. TypeOK' /\ Numbered'
  BY <1>1, <1>5 DEF IInv, TypeOK, Only, Numbered, Taken
<1>9. HostsApart'
  <2>1. \A e \in Conns : HasAccepted(e)' => HasAccepted(e) /\ proc'[e].next = proc[e].next
    BY <1>1, <1>2, <1>4 DEF HasAccepted
  <2>2. \A e \in Conns : proc'[e].host = proc[e].host
    BY <1>2, <1>4
  <2>. QED
    BY <1>1, <2>1, <2>2, ApartFrame DEF IInv
<1>10. DataOnly'
  BY <1>1, <1>2, <1>4, DataFrame
<1>11. LockAndPort(c) /\ NoProcessor(c) /\ StateOfProcessor(c) /\ OkFirst(c)
       /\ Accepts(c) /\ Buffered(c) /\ StartIsOver(c) /\ HostUpToDate(c)
  BY DEF IInv, OwnPart
<1>12. port # c /\ NotBegun(c) /\ proc[c].expected = ""
  BY <1>1, <1>11 DEF LockAndPort
<1>13. LockAndPort(c)' /\ NoProcessor(c)'
  <2>1. NotBegun(c)'
    BY <1>4, <1>12 DEF NotBegun
  <2>2. port' # c /\ guest' = guest
    BY <1>1, <1>12
  <2>. QED
    BY <1>1, <1>4, <1>11, <1>12, <2>1, <2>2 DEF LockAndPort, NoProcessor
<1>14. StateOfProcessor(c)' /\ Accepts(c)' /\ Buffered(c)'
  BY <1>1, <1>4, <1>6, <1>11 DEF StateOfProcessor, Accepts, Buffered
<1>15. OkFirst(c)'
  BY <1>1, <1>4, <1>11 DEF OkFirst, GuestListens
<1>16. StartIsOver(c)' /\ HostUpToDate(c)'
  BY <1>1, <1>4, <1>6, <1>11 DEF StartIsOver, HostUpToDate
<1>. QED
  BY <1>7, <1>8, <1>9, <1>10, <1>13, <1>14, <1>15, <1>16, StepOf DEF OwnPart

(* The port is bound, or the bind throws: no other processor has it. *)
LEMMA BindKeeps ==
  ASSUME IInv, NEW c \in Conns, NEW foreign \in BOOLEAN, wait_for_host_connection(c, foreign)
  PROVE  IInv'
<1> USE NoZero
<1>1. LockAndPort(c) /\ NoProcessor(c) /\ StateOfProcessor(c) /\ OkFirst(c)
       /\ Accepts(c) /\ Buffered(c) /\ StartIsOver(c) /\ HostUpToDate(c)
  BY DEF IInv, OwnPart
<1>2. /\ proc[c].pc = "binding" /\ lock' = lock
      /\ UNCHANGED <<guest, sent, in, out, hosts, toHost, hostSent, undefined>>
  BY DEF wait_for_host_connection, hostVars
<1>3. lock = c /\ port = 0 /\ NotBegun(c) /\ proc[c].expected = ""
  <2>1. lock = c /\ port # c
    BY <1>1, <1>2 DEF LockAndPort
  <2>2. \A e \in Conns : port = e => lock = e
    BY DEF IInv, OwnPart, LockAndPort
  <2>3. port = 0
    BY <2>1, <2>2 DEF IInv, TypeOK
  <2>. QED
    BY <1>1, <1>2, <2>1, <2>3 DEF LockAndPort
<1>4. PICK w \in SUBSET Waits, r \in BOOLEAN :
        /\ \/ r = TRUE /\ w = {"accept"} /\ port' = c
           \/ r = FALSE /\ w = {} /\ port' = 0
        /\ proc' = [proc EXCEPT ![c].pc = "idle", ![c].reading = r, ![c].pending = w]
  <2>1. {"accept"} \in SUBSET Waits /\ {} \in SUBSET Waits
    BY DEF Waits
  <2>2. CASE foreign
    BY <1>3, <2>1, <2>2 DEF wait_for_host_connection
  <2>3. CASE ~foreign
    BY <1>3, <2>1, <2>3 DEF wait_for_host_connection
  <2>. QED
    BY <2>2, <2>3
<1>5. /\ proc'[c] = [proc[c] EXCEPT !.pc = "idle", !.reading = r, !.pending = w]
      /\ proc' = [e \in Conns |-> proc'[e]] /\ \A e \in Conns : e # c => proc'[e] = proc[e]
  BY <1>4 DEF IInv, TypeOK
<1>6. proc[c] \in Procs
  BY ProcOf DEF IInv
<1>7. /\ proc'[c].pc = "idle" /\ proc'[c].state = proc[c].state
      /\ proc'[c].expected = proc[c].expected /\ proc'[c].kept = proc[c].kept
      /\ proc'[c].open = proc[c].open /\ proc'[c].next = proc[c].next
      /\ proc'[c].host = proc[c].host /\ proc'[c].accepting = proc[c].accepting
      /\ proc'[c].halfway = proc[c].halfway /\ proc'[c].pending = w /\ proc'[c].reading = r
  BY <1>5, <1>6 DEF Procs
<1>8. Only(c)
  <2>1. proc'[c] \in Procs
    BY <1>5, <1>6 DEF Procs
  <2>. QED
    BY <1>5, <2>1, OnlyOne DEF IInv
<1>9. \A e \in Conns : Taken(e)' = Taken(e)
  BY <1>2 DEF Taken
<1>10. Elsewhere(c)
  <2>1. \A e \in Conns : e # c => (port' = e <=> port = e)
    BY <1>3, <1>4
  <2>. QED
    BY <1>2, <1>8, <1>9, <2>1 DEF Elsewhere
<1>11. TypeOK' /\ Numbered'
  BY <1>2, <1>4, <1>8 DEF IInv, TypeOK, Only, Numbered, Taken
<1>12. HostsApart'
  <2>1. "accepted" \notin w
    BY <1>4
  <2>2. \A e \in Conns : HasAccepted(e)' => HasAccepted(e) /\ proc'[e].next = proc[e].next
    BY <1>5, <1>7, <2>1 DEF HasAccepted
  <2>3. \A e \in Conns : proc'[e].host = proc[e].host
    BY <1>5, <1>7
  <2>. QED
    BY <1>2, <2>2, <2>3, ApartFrame DEF IInv
<1>13. DataOnly'
  BY <1>2, <1>5, <1>7, DataFrame
<1>14. LockAndPort(c)'
  <2>1. CASE r
    <3>1. port' = c /\ lock' = c
      BY <1>2, <1>3, <1>4, <2>1
    <3>. QED
      BY <1>3, <1>7, <3>1 DEF LockAndPort
  <2>2. CASE ~r
    <3>1. port' # c /\ lock' = c /\ w = {}
      BY <1>2, <1>3, <1>4, <2>2
    <3>2. NotBegun(c)'
      BY <1>3, <1>7, <3>1 DEF NotBegun
    <3>. QED
      BY <1>3, <1>7, <2>2, <3>1, <3>2 DEF LockAndPort
  <2>. QED
    BY <2>1, <2>2
<1>15. NoProcessor(c)'
  BY <1>1, <1>2, <1>7 DEF NoProcessor
<1>16. StateOfProcessor(c)' /\ Buffered(c)'
  BY <1>1, <1>2, <1>7, <1>9 DEF StateOfProcessor, Buffered
<1>17. Accepts(c)'
  <2>1. "accepted" \notin w
    BY <1>4
  <2>. QED
    BY <1>3, <1>7, <2>1 DEF Accepts, NotBegun
<1>18. OkFirst(c)'
  <2>1. "read" \notin w /\ "data" \notin w
    BY <1>4
  <2>. QED
    BY <1>1, <1>2, <1>7, <2>1 DEF OkFirst, GuestListens
<1>19. StartIsOver(c)' /\ HostUpToDate(c)'
  BY <1>1, <1>2, <1>7, <1>9 DEF StartIsOver, HostUpToDate
<1>. QED
  BY <1>10, <1>11, <1>12, <1>13, <1>14, <1>15, <1>16, <1>17, <1>18, <1>19, StepOf DEF OwnPart

----------------------------------------------------------------------------
(* The host's connection is handled. *)

(* A processor that exists and is not fresh has the lock and the port. *)
LEMMA TalksWithLock ==
  ASSUME IInv, NEW c \in Conns, Exists(c), ~NotBegun(c)
  PROVE  lock = c /\ port = c /\ proc[c].pc = "idle"
<1>1. LockAndPort(c)
  BY DEF IInv, OwnPart
<1>. QED
  BY <1>1 DEF LockAndPort, Exists

(* What a step leaves alone that only changes the processor of c. *)
LEMMA HandlerFrame ==
  ASSUME IInv, NEW c \in Conns, Only(c), proc'[c].pc = proc[c].pc,
         UNCHANGED <<guest, sent, in, lock, port, toHost>>,
         out' \in [Conns -> Seq({"ok", "data"})], \A e \in Conns : e # c => out'[e] = out[e],
         hosts' \in [HostSockets -> {"none", "open", "closed"}], hostSent' \in Nat,
         undefined' \in BOOLEAN,
         \A h \in HostSockets : hosts'[h] = "open" => hosts[h] = "open",
         proc[c].halfway => proc'[c].halfway
  PROVE  /\ Elsewhere(c) /\ TypeOK' /\ Numbered' /\ DataOnly'
         /\ \A e \in Conns : Taken(e)' = Taken(e)
<1>1. \A e \in Conns : Taken(e)' = Taken(e)
  BY DEF Taken
<1>2. Elsewhere(c)
  BY <1>1 DEF Elsewhere
<1>3. TypeOK'
  BY DEF IInv, TypeOK, Only
<1>4. Numbered'
  BY DEF IInv, Numbered, Taken
<1>5. DataOnly'
  BY DataFrame DEF Only
<1>. QED
  BY <1>1, <1>2, <1>3, <1>4, <1>5

(* Something is added to what adbd gets. *)
LEMMA AddsToOut ==
  ASSUME NEW c \in Conns, out \in [Conns -> Seq({"ok", "data"})], NEW x \in {"ok", "data"},
         out' = [out EXCEPT ![c] = Append(out[c], x)]
  PROVE  /\ out' \in [Conns -> Seq({"ok", "data"})] /\ \A e \in Conns : e # c => out'[e] = out[e]
         /\ out'[c] # <<>>
         /\ out[c] # <<>> => out'[c][1] = out[c][1]
         /\ out[c] = <<>> => out'[c][1] = x
<1>1. PICK S : S = {"ok", "data"}
  OBVIOUS
<1>2. out[c] \in Seq(S) /\ x \in S
  BY <1>1
<1>3. PICK q \in Seq(S) : q = Append(out[c], x)
  BY <1>2, AppendProperties
<1>4. out'[c] = q /\ \A e \in Conns : e # c => out'[e] = out[e]
  BY <1>3
<1>5. out' \in [Conns -> Seq(S)]
  BY <1>1, <1>3
<1>6. q # <<>> /\ (out[c] # <<>> => q[1] = out[c][1]) /\ (out[c] = <<>> => q[1] = x)
  BY <1>2, <1>3, AppendProperties
<1>. QED
  BY <1>1, <1>4, <1>5, <1>6

(* The messenger is replaced. *)
LEMMA ReplacedKeeps ==
  ASSUME IInv, NEW c \in Conns, on_host_connection(c)
  PROVE  IInv'
<1> USE NoZero
<1>1. CASE ~Exists(c)
  BY <1>1, Unmoved DEF on_host_connection
<1>2. CASE Exists(c)
  <2>1. /\ "accepted" \in proc[c].pending /\ DropsHost(c)
        /\ UNCHANGED <<guest, sent, in, out, lock, port, toHost, hostSent, undefined>>
    BY <1>2 DEF on_host_connection
  <2>2. LockAndPort(c) /\ NoProcessor(c) /\ StateOfProcessor(c) /\ OkFirst(c)
        /\ Accepts(c) /\ Buffered(c) /\ StartIsOver(c) /\ HostUpToDate(c)
    BY DEF IInv, OwnPart
  <2>3. lock = c /\ port = c /\ proc[c].pc = "idle"
    <3>1. ~NotBegun(c)
      BY <2>1 DEF NotBegun
    <3>. QED
      BY <1>2, <3>1, TalksWithLock
  <2>4. PICK w \in SUBSET Waits : w = proc[c].pending \ {"read", "accepted"}
    BY ProcOf DEF IInv, Procs
  <2>5. PICK n \in HostSockets \cup {0} : n = proc[c].next
    BY ProcOf DEF IInv, Procs
  <2>6. /\ proc'[c] = [proc[c] EXCEPT !.host = n, !.accepting = "replaced", !.pending = w]
        /\ proc' = [e \in Conns |-> proc'[e]] /\ \A e \in Conns : e # c => proc'[e] = proc[e]
    BY <1>2, <2>4, <2>5 DEF on_host_connection, IInv, TypeOK
  <2>7. proc[c] \in Procs
    BY ProcOf DEF IInv
  <2>8. /\ proc'[c].pc = proc[c].pc /\ proc'[c].state = proc[c].state
        /\ proc'[c].expected = proc[c].expected /\ proc'[c].kept = proc[c].kept
        /\ proc'[c].reading = proc[c].reading /\ proc'[c].open = proc[c].open
        /\ proc'[c].host = n /\ proc'[c].accepting = "replaced"
        /\ proc'[c].halfway = proc[c].halfway /\ proc'[c].pending = w
    BY <2>6, <2>7 DEF Procs
  <2>9. Only(c)
    <3>1. proc'[c] \in Procs
      BY <2>6, <2>7 DEF Procs
    <3>. QED
      BY <2>6, <3>1, OnlyOne DEF IInv
  <2>10. hosts' = [h \in HostSockets |-> IF h = proc[c].host THEN "closed" ELSE hosts[h]]
    BY <2>1 DEF DropsHost
  <2>11. /\ hosts' \in [HostSockets -> {"none", "open", "closed"}]
         /\ \A h \in HostSockets : /\ hosts'[h] = "open" => hosts[h] = "open"
                                   /\ hosts'[h] = "none" => hosts[h] = "none"
    BY <2>10 DEF IInv, TypeOK
  <2>12. /\ Elsewhere(c) /\ TypeOK' /\ Numbered' /\ DataOnly'
         /\ \A e \in Conns : Taken(e)' = Taken(e)
    <3>1. out \in [Conns -> Seq({"ok", "data"})] /\ hostSent \in Nat /\ undefined \in BOOLEAN
      BY DEF IInv, TypeOK
    <3>. QED
      BY <2>1, <2>8, <2>9, <2>11, <3>1, HandlerFrame
  <2>13. HasAccepted(c) /\ ~HasAccepted(c)'
    BY <2>1, <2>3, <2>4, <2>8 DEF HasAccepted
  <2>14. /\ n \in HostSockets /\ toHost[n] = <<>> /\ hosts[n] # "none"
         /\ \A e \in Conns : HasAccepted(e) /\ proc[e].next = n => e = c
    BY <2>5, <2>13 DEF IInv, HostsApart
  <2>15. HostsApart'
    <3>1. \A e \in Conns : HasAccepted(e)' => e # c /\ HasAccepted(e) /\ proc'[e] = proc[e]
      BY <2>6, <2>13 DEF HasAccepted
    <3>2. ASSUME NEW h \in HostSockets, hosts'[h] = "none"
          PROVE  /\ toHost'[h] = <<>>
                 /\ \A e \in Conns : proc'[e].host # h /\ (HasAccepted(e)' => proc'[e].next # h)
      <4>1. hosts[h] = "none" /\ h # n
        BY <2>11, <2>14, <3>2
      <4>2. /\ toHost[h] = <<>>
            /\ \A e \in Conns : proc[e].host # h /\ (HasAccepted(e) => proc[e].next # h)
        BY <4>1 DEF IInv, HostsApart
      <4>3. ASSUME NEW e \in Conns PROVE proc'[e].host # h
        BY <2>6, <2>8, <4>1, <4>2
      <4>4. ASSUME NEW e \in Conns, HasAccepted(e)' PROVE proc'[e].next # h
        BY <3>1, <4>2, <4>4
      <4>. QED
        BY <2>1, <4>2, <4>3, <4>4
    <3>3. ASSUME NEW e \in Conns, HasAccepted(e)'
          PROVE  /\ proc'[e].next # 0 /\ toHost'[proc'[e].next] = <<>>
                 /\ \A b \in Conns : proc'[b].host # proc'[e].next
                 /\ \A b \in Conns : HasAccepted(b)' /\ proc'[b].next = proc'[e].next => b = e
      <4>1. e # c /\ HasAccepted(e) /\ proc'[e] = proc[e]
        BY <3>1, <3>3
      <4>2. /\ proc[e].next # 0 /\ toHost[proc[e].next] = <<>>
            /\ \A b \in Conns : proc[b].host # proc[e].next
            /\ \A b \in Conns : HasAccepted(b) /\ proc[b].next = proc[e].next => b = e
        BY <4>1 DEF IInv, HostsApart
      <4>3. proc[e].next # n
        BY <2>14, <4>1
      <4>4. ASSUME NEW b \in Conns PROVE proc'[b].host # proc'[e].next
        BY <2>6, <2>8, <4>1, <4>2, <4>3
      <4>5. ASSUME NEW b \in Conns, HasAccepted(b)', proc'[b].next = proc'[e].next PROVE b = e
        BY <3>1, <4>1, <4>2, <4>5
      <4>. QED
        BY <2>1, <4>1, <4>2, <4>4, <4>5
    <3>. QED
      BY <3>2, <3>3 DEF HostsApart
  <2>16. LockAndPort(c)' /\ NoProcessor(c)'
    BY <2>1, <2>2, <2>3, <2>8 DEF LockAndPort, NoProcessor
  <2>17. proc[c].accepting = "no" /\ "accept" \notin w /\ "accepted" \notin w
    BY <2>1, <2>2, <2>3, <2>4 DEF Accepts
  <2>18. StateOfProcessor(c)' /\ Buffered(c)'
    BY <2>2, <2>8, <2>12, <2>14 DEF StateOfProcessor, Buffered
  <2>19. Accepts(c)'
    BY <2>8, <2>14, <2>17 DEF Accepts
  <2>20. OkFirst(c)'
    <3>1. ("read" \in w => "read" \in proc[c].pending) /\ ("data" \in w => "data" \in proc[c].pending)
      BY <2>4
    <3>. QED
      BY <2>1, <2>2, <2>8, <2>17, <3>1 DEF OkFirst, GuestListens
  <2>21. StartIsOver(c)' /\ HostUpToDate(c)'
    <3>1. \A h \in HostSockets : proc'[c].host = h => toHost'[h] = <<>>
      BY <2>1, <2>8, <2>14
    <3>. QED
      BY <2>2, <2>8, <2>12, <3>1 DEF StartIsOver, HostUpToDate
  <2>. QED
    BY <2>12, <2>15, <2>16, <2>18, <2>19, <2>20, <2>21, StepOf DEF OwnPart
<1>. QED
  BY <1>1, <1>2

(* ok is sent, or the send throws. *)
LEMMA SendsOkKeeps ==
  ASSUME IInv, NEW c \in Conns, NEW throws \in BOOLEAN, SendsOk(c, throws)
  PROVE  IInv'
<1> USE NoZero
<1>1. CASE ~Exists(c)
  BY <1>1, Unmoved DEF SendsOk, hostVars
<1>2. CASE Exists(c)
  <2>1. /\ proc[c].accepting = "replaced" /\ (throws => ~GuestListens(c))
        /\ out' = (IF GuestListens(c) THEN [out EXCEPT ![c] = Append(@, "ok")] ELSE out)
        /\ UNCHANGED <<guest, sent, in, lock, port, hosts, toHost, hostSent, undefined>>
    BY <1>2 DEF SendsOk, hostVars
  <2>2. LockAndPort(c) /\ NoProcessor(c) /\ StateOfProcessor(c) /\ OkFirst(c)
        /\ Accepts(c) /\ Buffered(c) /\ StartIsOver(c) /\ HostUpToDate(c)
    BY DEF IInv, OwnPart
  <2>3. lock = c /\ port = c /\ proc[c].pc = "idle"
    <3>1. ~NotBegun(c)
      BY <2>1 DEF NotBegun
    <3>. QED
      BY <1>2, <3>1, TalksWithLock
  <2>4. PICK a \in {"ok sent", "thrown"} : a = IF throws THEN "thrown" ELSE "ok sent"
    OBVIOUS
  <2>5. /\ proc'[c] = [proc[c] EXCEPT !.accepting = a]
        /\ proc' = [e \in Conns |-> proc'[e]] /\ \A e \in Conns : e # c => proc'[e] = proc[e]
    BY <1>2, <2>4 DEF SendsOk, IInv, TypeOK
  <2>6. proc[c] \in Procs
    BY ProcOf DEF IInv
  <2>7. /\ proc'[c].pc = proc[c].pc /\ proc'[c].state = proc[c].state
        /\ proc'[c].expected = proc[c].expected /\ proc'[c].kept = proc[c].kept
        /\ proc'[c].reading = proc[c].reading /\ proc'[c].open = proc[c].open
        /\ proc'[c].host = proc[c].host /\ proc'[c].accepting = a /\ proc'[c].next = proc[c].next
        /\ proc'[c].halfway = proc[c].halfway /\ proc'[c].pending = proc[c].pending
    BY <2>5, <2>6 DEF Procs
  <2>8. Only(c)
    <3>1. proc'[c] \in Procs
      BY <2>5, <2>6 DEF Procs
    <3>. QED
      BY <2>5, <3>1, OnlyOne DEF IInv
  <2>9. /\ out' \in [Conns -> Seq({"ok", "data"})] /\ \A e \in Conns : e # c => out'[e] = out[e]
        /\ out'[c] = <<>> => out[c] = <<>> /\ ~GuestListens(c)
        /\ out'[c] # <<>> /\ out[c] # <<>> => out'[c][1] = out[c][1]
        /\ out'[c] # <<>> /\ out[c] = <<>> => out'[c][1] = "ok"
    <3>1. out \in [Conns -> Seq({"ok", "data"})] /\ out[c] \in Seq({"ok", "data"})
      BY DEF IInv, TypeOK
    <3>2. CASE GuestListens(c)
      <4>1. out' = [out EXCEPT ![c] = Append(out[c], "ok")] /\ "ok" \in {"ok", "data"}
        BY <2>1, <3>2
      <4>. QED
        BY <3>1, <4>1, AddsToOut
    <3>3. CASE ~GuestListens(c)
      BY <2>1, <3>1, <3>3
    <3>. QED
      BY <3>2, <3>3
  <2>10. /\ Elsewhere(c) /\ TypeOK' /\ Numbered' /\ DataOnly'
         /\ \A e \in Conns : Taken(e)' = Taken(e)
    <3>1. /\ hosts \in [HostSockets -> {"none", "open", "closed"}]
          /\ hostSent \in Nat /\ undefined \in BOOLEAN
      BY DEF IInv, TypeOK
    <3>. QED
      BY <2>1, <2>7, <2>8, <2>9, <3>1, HandlerFrame
  <2>11. HostsApart'
    <3>1. \A e \in Conns : HasAccepted(e)' => HasAccepted(e) /\ proc'[e].next = proc[e].next
      BY <2>5, <2>7 DEF HasAccepted
    <3>2. \A e \in Conns : proc'[e].host = proc[e].host
      BY <2>5, <2>7
    <3>. QED
      BY <2>1, <3>1, <3>2, ApartFrame DEF IInv
  <2>12. LockAndPort(c)' /\ NoProcessor(c)'
    BY <2>1, <2>2, <2>3, <2>7 DEF LockAndPort, NoProcessor
  <2>13. StateOfProcessor(c)' /\ Buffered(c)' /\ Accepts(c)'
    BY <2>1, <2>2, <2>3, <2>7, <2>10 DEF StateOfProcessor, Buffered, Accepts
  <2>14. OkFirst(c)'
    <3>1. GuestListens(c)' <=> GuestListens(c)
      BY <2>1, <2>7 DEF GuestListens
    <3>. QED
      BY <2>1, <2>2, <2>4, <2>7, <2>9, <3>1 DEF OkFirst
  <2>15. StartIsOver(c)' /\ HostUpToDate(c)'
    BY <2>1, <2>2, <2>7, <2>10 DEF StartIsOver, HostUpToDate
  <2>. QED
    BY <2>10, <2>11, <2>12, <2>13, <2>14, <2>15, StepOf DEF OwnPart
<1>. QED
  BY <1>1, <1>2

(* state_ is assigned. *)
LEMMA SetsStateKeeps ==
  ASSUME IInv, NEW c \in Conns, SetsState(c)
  PROVE  IInv'
<1> USE NoZero
<1>1. CASE ~Exists(c)
  BY <1>1, Unmoved DEF SetsState, hostVars
<1>2. CASE Exists(c)
  <2>1. /\ proc[c].accepting = "ok sent"
        /\ UNCHANGED <<guest, sent, in, out, lock, port, hosts, toHost, hostSent, undefined>>
    BY <1>2 DEF SetsState, hostVars
  <2>2. LockAndPort(c) /\ NoProcessor(c) /\ StateOfProcessor(c) /\ OkFirst(c)
        /\ Accepts(c) /\ Buffered(c) /\ StartIsOver(c) /\ HostUpToDate(c)
    BY DEF IInv, OwnPart
  <2>3. lock = c /\ port = c /\ proc[c].pc = "idle"
    <3>1. ~NotBegun(c)
      BY <2>1 DEF NotBegun
    <3>. QED
      BY <1>2, <3>1, TalksWithLock
  <2>4. /\ proc'[c] = [proc[c] EXCEPT !.accepting = "state set", !.state = "waiting_for_guest_start_command"]
        /\ proc' = [e \in Conns |-> proc'[e]] /\ \A e \in Conns : e # c => proc'[e] = proc[e]
    BY <1>2 DEF SetsState, IInv, TypeOK
  <2>5. proc[c] \in Procs
    BY ProcOf DEF IInv
  <2>6. /\ proc'[c].pc = proc[c].pc /\ proc'[c].state = "waiting_for_guest_start_command"
        /\ proc'[c].expected = proc[c].expected /\ proc'[c].kept = proc[c].kept
        /\ proc'[c].reading = proc[c].reading /\ proc'[c].open = proc[c].open
        /\ proc'[c].host = proc[c].host /\ proc'[c].accepting = "state set" /\ proc'[c].next = proc[c].next
        /\ proc'[c].halfway = proc[c].halfway /\ proc'[c].pending = proc[c].pending
    BY <2>4, <2>5 DEF Procs
  <2>7. Only(c)
    <3>1. proc'[c] \in Procs
      BY <2>4, <2>5 DEF Procs
    <3>. QED
      BY <2>4, <3>1, OnlyOne DEF IInv
  <2>8. /\ Elsewhere(c) /\ TypeOK' /\ Numbered' /\ DataOnly'
        /\ \A e \in Conns : Taken(e)' = Taken(e)
    <3>1. /\ hosts \in [HostSockets -> {"none", "open", "closed"}]
          /\ out \in [Conns -> Seq({"ok", "data"})] /\ hostSent \in Nat /\ undefined \in BOOLEAN
      BY DEF IInv, TypeOK
    <3>. QED
      BY <2>1, <2>6, <2>7, <3>1, HandlerFrame
  <2>9. HostsApart'
    <3>1. \A e \in Conns : HasAccepted(e)' => HasAccepted(e) /\ proc'[e].next = proc[e].next
      BY <2>4, <2>6 DEF HasAccepted
    <3>2. \A e \in Conns : proc'[e].host = proc[e].host
      BY <2>4, <2>6
    <3>. QED
      BY <2>1, <3>1, <3>2, ApartFrame DEF IInv
  <2>10. LockAndPort(c)' /\ NoProcessor(c)'
    BY <2>1, <2>2, <2>3, <2>6 DEF LockAndPort, NoProcessor
  <2>11. StateOfProcessor(c)' /\ Buffered(c)' /\ Accepts(c)'
    BY <2>1, <2>2, <2>3, <2>6, <2>8 DEF StateOfProcessor, Buffered, Accepts
  <2>12. OkFirst(c)'
    <3>1. GuestListens(c)' <=> GuestListens(c)
      BY <2>1, <2>6 DEF GuestListens
    <3>. QED
      BY <2>1, <2>2, <2>6, <3>1 DEF OkFirst
  <2>13. StartIsOver(c)' /\ HostUpToDate(c)'
    BY <2>1, <2>2, <2>6, <2>8 DEF StartIsOver, HostUpToDate
  <2>. QED
    BY <2>8, <2>9, <2>10, <2>11, <2>12, <2>13, StepOf DEF OwnPart
<1>. QED
  BY <1>1, <1>2

(* expected_command_ is assigned and the next host is accepted. *)
LEMMA SetsExpectedKeeps ==
  ASSUME IInv, NEW c \in Conns, SetsExpected(c)
  PROVE  IInv'
<1> USE NoZero
<1>1. CASE ~Exists(c)
  BY <1>1, Unmoved DEF SetsExpected, hostVars
<1>2. CASE Exists(c)
  <2>1. /\ proc[c].accepting = "state set"
        /\ UNCHANGED <<guest, sent, in, out, lock, port, hosts, toHost, hostSent, undefined>>
    BY <1>2 DEF SetsExpected, hostVars
  <2>2. LockAndPort(c) /\ NoProcessor(c) /\ StateOfProcessor(c) /\ OkFirst(c)
        /\ Accepts(c) /\ Buffered(c) /\ StartIsOver(c) /\ HostUpToDate(c)
    BY DEF IInv, OwnPart
  <2>3. lock = c /\ port = c /\ proc[c].pc = "idle"
    <3>1. ~NotBegun(c)
      BY <2>1 DEF NotBegun
    <3>. QED
      BY <1>2, <3>1, TalksWithLock
  <2>4. PICK w \in SUBSET Waits : w = proc[c].pending \cup {"accept"}
    BY ProcOf DEF IInv, Procs, Waits
  <2>5. /\ proc'[c] = [proc[c] EXCEPT !.accepting = "no", !.expected = "start", !.pending = w]
        /\ proc' = [e \in Conns |-> proc'[e]] /\ \A e \in Conns : e # c => proc'[e] = proc[e]
    BY <1>2, <2>4 DEF SetsExpected, IInv, TypeOK
  <2>6. proc[c] \in Procs
    BY ProcOf DEF IInv
  <2>7. /\ proc'[c].pc = proc[c].pc /\ proc'[c].state = proc[c].state
        /\ proc'[c].expected = "start" /\ proc'[c].kept = proc[c].kept
        /\ proc'[c].reading = proc[c].reading /\ proc'[c].open = proc[c].open
        /\ proc'[c].host = proc[c].host /\ proc'[c].accepting = "no" /\ proc'[c].next = proc[c].next
        /\ proc'[c].halfway = proc[c].halfway /\ proc'[c].pending = w
    BY <2>5, <2>6 DEF Procs
  <2>8. Only(c)
    <3>1. proc'[c] \in Procs
      BY <2>5, <2>6 DEF Procs
    <3>. QED
      BY <2>5, <3>1, OnlyOne DEF IInv
  <2>9. /\ Elsewhere(c) /\ TypeOK' /\ Numbered' /\ DataOnly'
        /\ \A e \in Conns : Taken(e)' = Taken(e)
    <3>1. /\ hosts \in [HostSockets -> {"none", "open", "closed"}]
          /\ out \in [Conns -> Seq({"ok", "data"})] /\ hostSent \in Nat /\ undefined \in BOOLEAN
      BY DEF IInv, TypeOK
    <3>. QED
      BY <2>1, <2>7, <2>8, <3>1, HandlerFrame
  <2>10. /\ "accepted" \notin w /\ ("read" \in w => "read" \in proc[c].pending)
         /\ ("data" \in w => "data" \in proc[c].pending)
    BY <2>1, <2>2, <2>3, <2>4 DEF Accepts
  <2>11. HostsApart'
    <3>1. \A e \in Conns : HasAccepted(e)' => HasAccepted(e) /\ proc'[e].next = proc[e].next
      BY <2>5, <2>7, <2>10 DEF HasAccepted
    <3>2. \A e \in Conns : proc'[e].host = proc[e].host
      BY <2>5, <2>7
    <3>. QED
      BY <2>1, <3>1, <3>2, ApartFrame DEF IInv
  <2>12. LockAndPort(c)' /\ NoProcessor(c)'
    BY <2>1, <2>2, <2>3, <2>7 DEF LockAndPort, NoProcessor
  <2>13. StateOfProcessor(c)' /\ Buffered(c)' /\ Accepts(c)'
    <3>1. Taken(c) >= 1 /\ proc[c].state # "waiting_for_guest_accept_command"
      BY <2>1, <2>2, <2>3 DEF StateOfProcessor, LockAndPort
    <3>. QED
      BY <2>1, <2>2, <2>3, <2>7, <2>9, <2>10, <3>1 DEF StateOfProcessor, Buffered, Accepts
  <2>14. OkFirst(c)'
    <3>1. GuestListens(c)' <=> GuestListens(c)
      BY <2>1, <2>7 DEF GuestListens
    <3>. QED
      BY <2>1, <2>2, <2>3, <2>7, <3>1 DEF OkFirst, StateOfProcessor
  <2>15. StartIsOver(c)'
    BY <2>1, <2>2, <2>7, <2>9 DEF StartIsOver
  <2>16. HostUpToDate(c)'
    <3>1. proc[c].state = "proxying_data" => proc[c].halfway
      BY <2>1, <2>2 DEF Accepts
    <3>. QED
      BY <2>1, <2>2, <2>7, <2>9, <3>1 DEF HostUpToDate
  <2>. QED
    BY <2>9, <2>11, <2>12, <2>13, <2>14, <2>15, <2>16, StepOf DEF OwnPart
<1>. QED
  BY <1>1, <1>2

(* The read of the host's socket ends. *)
LEMMA HostReadEndsKeeps ==
  ASSUME IInv, NEW c \in Conns, NEW what \in {"data", "eof"}, HostReadEnds(c, what)
  PROVE  IInv'
<1> USE NoZero
<1>1. /\ "read" \in proc[c].pending /\ hostSent' \in Nat
      /\ UNCHANGED <<guest, sent, in, out, lock, port, hosts, toHost, undefined>>
  <2>1. hostSent' = hostSent \/ hostSent' = hostSent + 1
    <3>1. CASE what = "eof"
      BY <3>1 DEF HostReadEnds
    <3>2. CASE what = "data"
      BY <3>2 DEF HostReadEnds
    <3>. QED
      BY <3>1, <3>2
  <2>. QED
    BY <2>1 DEF HostReadEnds, IInv, TypeOK
<1>2. LockAndPort(c) /\ NoProcessor(c) /\ StateOfProcessor(c) /\ OkFirst(c)
      /\ Accepts(c) /\ Buffered(c) /\ StartIsOver(c) /\ HostUpToDate(c)
  BY DEF IInv, OwnPart
<1>3. proc[c].pc # "gone" /\ ~NotBegun(c)
  BY <1>1, <1>2 DEF NoProcessor, NotBegun
<1>4. /\ lock = c /\ proc[c].pc \in {"idle", "deleting"} /\ (proc[c].pc = "idle" => port = c)
      /\ proc[c].state # "waiting_for_guest_accept_command"
  BY <1>1, <1>2, <1>3 DEF LockAndPort, OkFirst
<1>5. PICK w \in SUBSET Waits : w = (proc[c].pending \ {"read"}) \cup {what}
  BY ProcOf DEF IInv, Procs, Waits
<1>6. /\ proc'[c] = [proc[c] EXCEPT !.pending = w]
      /\ proc' = [e \in Conns |-> proc'[e]] /\ \A e \in Conns : e # c => proc'[e] = proc[e]
  BY <1>5 DEF HostReadEnds, IInv, TypeOK
<1>7. proc[c] \in Procs
  BY ProcOf DEF IInv
<1>8. /\ proc'[c].pc = proc[c].pc /\ proc'[c].state = proc[c].state
      /\ proc'[c].expected = proc[c].expected /\ proc'[c].kept = proc[c].kept
      /\ proc'[c].reading = proc[c].reading /\ proc'[c].open = proc[c].open
      /\ proc'[c].host = proc[c].host /\ proc'[c].accepting = proc[c].accepting
      /\ proc'[c].next = proc[c].next
      /\ proc'[c].halfway = proc[c].halfway /\ proc'[c].pending = w
  BY <1>6, <1>7 DEF Procs
<1>9. Only(c)
  <2>1. proc'[c] \in Procs
    BY <1>6, <1>7 DEF Procs
  <2>. QED
    BY <1>6, <2>1, OnlyOne DEF IInv
<1>10. /\ Elsewhere(c) /\ TypeOK' /\ Numbered' /\ DataOnly'
       /\ \A e \in Conns : Taken(e)' = Taken(e)
  <2>1. /\ hosts \in [HostSockets -> {"none", "open", "closed"}]
        /\ out \in [Conns -> Seq({"ok", "data"})] /\ undefined \in BOOLEAN
    BY DEF IInv, TypeOK
  <2>. QED
    BY <1>1, <1>8, <1>9, <2>1, HandlerFrame
<1>11. /\ "accepted" \in w <=> "accepted" \in proc[c].pending
       /\ "accept" \in w <=> "accept" \in proc[c].pending
  BY <1>5
<1>12. HostsApart'
  <2>1. \A e \in Conns : HasAccepted(e)' => HasAccepted(e) /\ proc'[e].next = proc[e].next
    BY <1>6, <1>8, <1>11 DEF HasAccepted
  <2>2. \A e \in Conns : proc'[e].host = proc[e].host
    BY <1>6, <1>8
  <2>. QED
    BY <1>1, <2>1, <2>2, ApartFrame DEF IInv
<1>13. LockAndPort(c)' /\ NoProcessor(c)'
  BY <1>1, <1>2, <1>4, <1>8, <1>11 DEF LockAndPort, NoProcessor
<1>14. StateOfProcessor(c)' /\ Buffered(c)' /\ Accepts(c)'
  BY <1>1, <1>2, <1>8, <1>10, <1>11 DEF StateOfProcessor, Buffered, Accepts
<1>15. OkFirst(c)'
  <2>1. GuestListens(c)' <=> GuestListens(c)
    BY <1>1, <1>8 DEF GuestListens
  <2>. QED
    BY <1>1, <1>2, <1>4, <1>8, <2>1 DEF OkFirst
<1>16. StartIsOver(c)' /\ HostUpToDate(c)'
  BY <1>1, <1>2, <1>8, <1>10 DEF StartIsOver, HostUpToDate
<1>. QED
  BY <1>10, <1>12, <1>13, <1>14, <1>15, <1>16, StepOf DEF OwnPart

(* What the host sent is passed on, or its end is. *)
LEMMA HostReadKeeps ==
  ASSUME IInv, NEW c \in Conns, NEW what \in {"data", "eof"}, NEW throws \in BOOLEAN,
         on_host_read_size(c, what, throws)
  PROVE  IInv'
<1> USE NoZero
<1>1. CASE ~Exists(c)
  BY <1>1, Unmoved DEF on_host_read_size, hostVars
<1>2. CASE Exists(c)
  <2>1. /\ what \in proc[c].pending
        /\ UNCHANGED <<guest, sent, in, lock, port, hosts, toHost, hostSent, undefined>>
    BY <1>2 DEF on_host_read_size, hostVars
  <2>2. LockAndPort(c) /\ NoProcessor(c) /\ StateOfProcessor(c) /\ OkFirst(c)
        /\ Accepts(c) /\ Buffered(c) /\ StartIsOver(c) /\ HostUpToDate(c)
    BY DEF IInv, OwnPart
  <2>3. lock = c /\ port = c /\ proc[c].pc = "idle"
    <3>1. ~NotBegun(c)
      BY <2>1 DEF NotBegun
    <3>. QED
      BY <1>2, <3>1, TalksWithLock
  <2>4. PICK w \in SUBSET Waits,
             st \in {"waiting_for_guest_accept_command", "waiting_for_guest_start_command",
                     "proxying_data", "closed_by_host"}, op \in BOOLEAN :
          /\ "accepted" \in w <=> "accepted" \in proc[c].pending
          /\ "accept" \in w <=> "accept" \in proc[c].pending
          /\ \/ what = "eof" /\ st = "closed_by_host" /\ op = FALSE
             \/ what = "data" /\ st = proc[c].state /\ op = proc[c].open
          /\ proc' = [proc EXCEPT ![c].pending = w, ![c].open = op, ![c].state = st]
    <3>1. proc[c] \in Procs /\ proc \in [Conns -> Procs]
      BY ProcOf DEF IInv, TypeOK
    <3>2. CASE what = "eof"
      <4>1. PICK w \in SUBSET Waits : w = proc[c].pending \ {"eof"}
        BY <3>1 DEF Procs
      <4>2. proc' = [proc EXCEPT ![c].pending = w, ![c].open = FALSE, ![c].state = "closed_by_host"]
        BY <1>2, <3>2, <4>1 DEF on_host_read_size
      <4>. QED
        BY <3>2, <4>1, <4>2
    <3>3. CASE what = "data"
      <4>1. PICK w \in SUBSET Waits :
              w = (proc[c].pending \ {"data"}) \cup (IF throws THEN {} ELSE {"read"})
        BY <3>1 DEF Procs, Waits
      <4>2. proc' = [proc EXCEPT ![c].pending = w]
        BY <1>2, <3>3, <4>1 DEF on_host_read_size
      <4>3. proc' = [proc EXCEPT ![c].pending = w, ![c].open = proc[c].open, ![c].state = proc[c].state]
        BY <3>1, <4>2 DEF Procs
      <4>4. proc[c].state \in {"waiting_for_guest_accept_command", "waiting_for_guest_start_command",
                               "proxying_data", "closed_by_host"} /\ proc[c].open \in BOOLEAN
        BY <3>1 DEF Procs
      <4>5. /\ "accepted" \in w <=> "accepted" \in proc[c].pending
            /\ "accept" \in w <=> "accept" \in proc[c].pending
        BY <4>1
      <4>. QED
        BY <3>3, <4>3, <4>4, <4>5
    <3>. QED
      BY <3>2, <3>3
  <2>5. /\ proc'[c] = [proc[c] EXCEPT !.pending = w, !.open = op, !.state = st]
        /\ proc' = [e \in Conns |-> proc'[e]] /\ \A e \in Conns : e # c => proc'[e] = proc[e]
    BY <2>4 DEF IInv, TypeOK
  <2>6. proc[c] \in Procs
    BY ProcOf DEF IInv
  <2>7. /\ proc'[c].pc = proc[c].pc /\ proc'[c].state = st
        /\ proc'[c].expected = proc[c].expected /\ proc'[c].kept = proc[c].kept
        /\ proc'[c].reading = proc[c].reading /\ proc'[c].open = op
        /\ proc'[c].host = proc[c].host /\ proc'[c].accepting = proc[c].accepting
        /\ proc'[c].next = proc[c].next
        /\ proc'[c].halfway = proc[c].halfway /\ proc'[c].pending = w
    BY <2>5, <2>6 DEF Procs
  <2>8. Only(c)
    <3>1. proc'[c] \in Procs
      BY <2>5, <2>6 DEF Procs
    <3>. QED
      BY <2>5, <3>1, OnlyOne DEF IInv
  <2>9. /\ what = "data" => proc[c].state # "waiting_for_guest_accept_command"
        /\ GuestListens(c) /\ what = "data" => out[c] # <<>>
    BY <2>1, <2>2, <2>3 DEF OkFirst
  <2>10. /\ out' \in [Conns -> Seq({"ok", "data"})] /\ \A e \in Conns : e # c => out'[e] = out[e]
         /\ out'[c] = <<>> <=> out[c] = <<>>
         /\ out[c] # <<>> => out'[c][1] = out[c][1]
    <3>1. out \in [Conns -> Seq({"ok", "data"})]
      BY DEF IInv, TypeOK
    <3>2. CASE out' = out
      BY <3>1, <3>2
    <3>3. CASE out' # out
      <4>1. /\ out' = [out EXCEPT ![c] = Append(out[c], "data")] /\ "data" \in {"ok", "data"}
            /\ GuestListens(c) /\ what = "data"
        BY <1>2, <3>3 DEF on_host_read_size
      <4>. QED
        BY <2>9, <3>1, <4>1, AddsToOut
    <3>. QED
      BY <3>2, <3>3
  <2>11. /\ Elsewhere(c) /\ TypeOK' /\ Numbered' /\ DataOnly'
         /\ \A e \in Conns : Taken(e)' = Taken(e)
    <3>1. /\ hosts \in [HostSockets -> {"none", "open", "closed"}]
          /\ hostSent \in Nat /\ undefined \in BOOLEAN
      BY DEF IInv, TypeOK
    <3>. QED
      BY <2>1, <2>7, <2>8, <2>10, <3>1, HandlerFrame
  <2>12. HostsApart'
    <3>1. \A e \in Conns : HasAccepted(e)' => HasAccepted(e) /\ proc'[e].next = proc[e].next
      BY <2>4, <2>5, <2>7 DEF HasAccepted
    <3>2. \A e \in Conns : proc'[e].host = proc[e].host
      BY <2>5, <2>7
    <3>. QED
      BY <2>1, <3>1, <3>2, ApartFrame DEF IInv
  <2>13. LockAndPort(c)' /\ NoProcessor(c)'
    BY <2>1, <2>2, <2>3, <2>7 DEF LockAndPort, NoProcessor
  <2>14. st # "waiting_for_guest_accept_command"
    BY <2>4, <2>9
  <2>15. StateOfProcessor(c)' /\ Buffered(c)'
    BY <2>1, <2>2, <2>4, <2>7, <2>11, <2>14 DEF StateOfProcessor, Buffered
  <2>16. Accepts(c)'
    BY <2>2, <2>3, <2>4, <2>7 DEF Accepts
  <2>17. OkFirst(c)'
    <3>1. GuestListens(c)' => GuestListens(c) /\ what = "data"
      BY <2>1, <2>4, <2>7 DEF GuestListens
    <3>2. GuestListens(c)' => out'[c] # <<>>
      BY <2>9, <2>10, <3>1
    <3>. QED
      BY <2>1, <2>2, <2>7, <2>10, <2>14, <3>2 DEF OkFirst
  <2>18. StartIsOver(c)' /\ HostUpToDate(c)'
    BY <2>1, <2>2, <2>4, <2>7, <2>11 DEF StartIsOver, HostUpToDate
  <2>. QED
    BY <2>11, <2>12, <2>13, <2>15, <2>16, <2>17, <2>18, StepOf DEF OwnPart
<1>. QED
  BY <1>1, <1>2

----------------------------------------------------------------------------
(* process_data. *)

(* process_data notes that it ran while a host was being accepted. *)
LEMMA Notes ==
  ASSUME IInv, NEW c \in Conns
  PROVE  \E f \in BOOLEAN : /\ f = (proc[c].halfway \/ proc[c].accepting # "no")
                            /\ proc[c].halfway => f
                            /\ proc[c].accepting # "no" => f
<1>1. proc[c].halfway \in BOOLEAN
  BY ProcOf DEF IInv, Procs
<1>2. (proc[c].halfway \/ proc[c].accepting # "no") \in BOOLEAN
  BY <1>1
<1>. QED
  BY <1>2

(* Data is passed on to the host. *)
LEMMA ProxiesKeeps ==
  ASSUME IInv, NEW c \in Conns, NEW throws \in BOOLEAN, ProxiesToHost(c, throws)
  PROVE  IInv'
<1> USE NoZero
<1>1. /\ UNCHANGED <<guest, sent, out, lock, port, hosts, hostSent, undefined>>
      /\ in' = [in EXCEPT ![c] = Tail(@)] /\ in[c] # <<>>
      /\ proc[c].pc = "idle" /\ proc[c].state = "proxying_data"
  BY DEF ProxiesToHost
<1>2. LockAndPort(c) /\ NoProcessor(c) /\ StateOfProcessor(c) /\ OkFirst(c)
      /\ Accepts(c) /\ Buffered(c) /\ StartIsOver(c) /\ HostUpToDate(c)
  BY DEF IInv, OwnPart
<1>3. lock = c /\ port = c
  <2>1. Exists(c) /\ ~NotBegun(c)
    BY <1>1 DEF Exists, NotBegun
  <2>. QED
    BY <2>1, TalksWithLock
<1>4. /\ in' \in [Conns -> Seq(Nat)] /\ Numbered'
      /\ \A e \in Conns : e # c => Taken(e)' = Taken(e)
      /\ Taken(c)' = Taken(c) + 1 /\ Head(in[c]) = Taken(c)'
  BY <1>1, TakeOne DEF IInv
<1>5. Taken(c) \in Nat /\ Taken(c) >= 2 /\ Taken(c)' \in Nat /\ Taken(c)' >= 3
  <2>1. Taken(c) \in Nat
    BY DEF IInv, Numbered
  <2>2. Taken(c) >= 2
    BY <1>1, <1>2 DEF StateOfProcessor
  <2>. QED
    BY <1>4, <2>1, <2>2
<1>6. PICK h \in HostSockets : h = proc[c].host
  <2>1. proc[c].host # 0
    BY <1>1, <1>2 DEF StateOfProcessor
  <2>. QED
    BY <2>1, ProcOf DEF IInv, Procs
<1>7. \/ hosts[h] = "open" /\ toHost' = [toHost EXCEPT ![h] = Append(@, <<c, Taken(c)'>>)]
      \/ hosts[h] # "open" /\ toHost' = toHost
  BY <1>4, <1>6 DEF ProxiesToHost
<1>8. PICK f \in BOOLEAN : /\ f = (proc[c].halfway \/ proc[c].accepting # "no")
                           /\ proc[c].halfway => f
                           /\ proc[c].accepting # "no" => f
  BY Notes
<1>9. PICK r \in BOOLEAN : r = ~throws
  OBVIOUS
<1>10. /\ proc'[c] = [proc[c] EXCEPT !.reading = r, !.halfway = f]
       /\ proc' = [e \in Conns |-> proc'[e]] /\ \A e \in Conns : e # c => proc'[e] = proc[e]
  BY <1>8, <1>9 DEF ProxiesToHost, IInv, TypeOK
<1>11. proc[c] \in Procs
  BY ProcOf DEF IInv
<1>12. /\ proc'[c].pc = "idle" /\ proc'[c].state = "proxying_data"
       /\ proc'[c].expected = proc[c].expected /\ proc'[c].kept = proc[c].kept
       /\ proc'[c].open = proc[c].open /\ proc'[c].next = proc[c].next
       /\ proc'[c].host = h /\ proc'[c].accepting = proc[c].accepting
       /\ proc'[c].pending = proc[c].pending /\ proc'[c].halfway = f
  BY <1>1, <1>6, <1>10, <1>11 DEF Procs
<1>13. Only(c)
  <2>1. proc'[c] \in Procs
    BY <1>10, <1>11 DEF Procs
  <2>. QED
    BY <1>10, <2>1, OnlyOne DEF IInv
<1>14. \A g \in HostSockets : g # h => toHost'[g] = toHost[g]
  BY <1>7 DEF IInv, TypeOK
<1>15. \A e \in Conns : e # c => proc[e].host = 0
  BY <1>6, OneTalks
<1>16. Elsewhere(c)
  <2>1. \A g \in HostSockets : \A e \in Conns : e # c /\ proc[e].host = g =>
          toHost'[g] = toHost[g] /\ (hosts'[g] = "open" => hosts[g] = "open")
    BY <1>1, <1>15
  <2>. QED
    BY <1>1, <1>4, <1>13, <2>1 DEF Elsewhere
<1>17. toHost[h] \in Seq(Conns \X Nat) /\ <<c, Taken(c)'>> \in Conns \X Nat
  BY <1>5 DEF IInv, TypeOK
<1>18. TypeOK'
  <2>1. toHost' \in [HostSockets -> Seq(Conns \X Nat)]
    <3>1. Append(toHost[h], <<c, Taken(c)'>>) \in Seq(Conns \X Nat)
      BY <1>17, AppendProperties
    <3>. QED
      BY <1>7, <3>1 DEF IInv, TypeOK
  <2>. QED
    BY <1>1, <1>4, <1>13, <2>1 DEF IInv, TypeOK, Only
<1>19. HostsApart'
  <2>1. hosts[h] # "none" /\ \A e \in Conns : HasAccepted(e) => proc[e].next # h /\ proc[e].next \in HostSockets
    <3>1. \A e \in Conns : proc[e].next \in HostSockets \cup {0}
      BY ProcOf DEF IInv, Procs
    <3>. QED
      BY <1>6, <3>1 DEF IInv, HostsApart
  <2>2. \A e \in Conns : /\ proc'[e].host = proc[e].host /\ proc'[e].next = proc[e].next
                         /\ HasAccepted(e)' <=> HasAccepted(e)
    BY <1>1, <1>6, <1>10, <1>12 DEF HasAccepted
  <2>. QED
    BY <1>1, <1>14, <2>1, <2>2 DEF IInv, HostsApart
<1>20. HostUpToDate(c)'
  <2>1. ASSUME NEW g \in HostSockets, proc'[c].host = g, hosts'[g] = "open"
        PROVE  toHost'[g] # <<>> /\ toHost'[g][Len(toHost'[g])] = <<c, Taken(c)'>>
    <3>1. g = h /\ toHost'[h] = Append(toHost[h], <<c, Taken(c)'>>)
      BY <1>1, <1>7, <1>12, <2>1 DEF IInv, TypeOK
    <3>2. PICK q \in Seq(Conns \X Nat), x \in Conns \X Nat : q = toHost[h] /\ x = <<c, Taken(c)'>>
      BY <1>17
    <3>3. Append(q, x) # <<>> /\ Append(q, x)[Len(Append(q, x))] = x
      BY AppendProperties
    <3>. QED
      BY <3>1, <3>2, <3>3
  <2>. QED
    BY <2>1 DEF HostUpToDate
<1>21. DataOnly'
  <2>0. \A e \in Conns : proc[e].halfway => proc'[e].halfway
    BY <1>8, <1>10, <1>12
  <2>1. CASE hosts[h] # "open"
    BY <1>7, <2>0, <2>1, DataFrame
  <2>2. CASE hosts[h] = "open"
    <3>1. PICK q \in Seq(Conns \X Nat) : q = toHost[h]
      BY <1>17
    <3>2. PICK n \in Nat : n = Len(q)
      BY <3>1
    <3>3. toHost'[h] = Append(q, <<c, Taken(c)'>>)
      BY <1>7, <2>2, <3>1 DEF IInv, TypeOK
    <3>4. /\ Len(toHost'[h]) = n + 1 /\ toHost'[h][n + 1] = <<c, Taken(c)'>>
          /\ \A i \in 1..n : toHost'[h][i] = q[i]
          /\ DOMAIN toHost'[h] = 1..(n + 1) /\ DOMAIN q = 1..n
      BY <1>17, <3>1, <3>2, <3>3, AppendProperties
    <3>5. n > 0 => q[n] = <<c, Taken(c)>>
      <4>1. n > 0 => q # <<>>
        BY <3>1, <3>2
      <4>. QED
        BY <1>1, <1>2, <1>6, <2>2, <3>1, <3>2, <4>1 DEF HostUpToDate
    <3>6. n = 0 => Taken(c)' = 3 \/ f
      <4>1. n = 0 => q = <<>>
        BY <3>1, <3>2, EmptySeq
      <4>2. n = 0 /\ proc[c].accepting = "no" => Taken(c) = 2 \/ proc[c].halfway
        BY <1>1, <1>2, <1>6, <2>2, <3>1, <4>1 DEF HostUpToDate
      <4>3. Taken(c) = 2 => Taken(c)' = 3
        BY <1>4
      <4>. QED
        BY <1>8, <4>2, <4>3
    <3>7. ASSUME NEW i \in 1..n
          PROVE  /\ q[i][2] >= 3
                 /\ i > 1 => q[i] = <<q[i - 1][1], q[i - 1][2] + 1>>
                 /\ i = 1 => q[i][2] = 3 \/ proc'[q[i][1]].halfway
      <4>1. q[i] \in Conns \X Nat /\ i \in DOMAIN toHost[h]
        BY <3>1, <3>4
      <4>2. q[i][1] \in Conns
        BY <4>1
      <4>. QED
        BY <2>0, <3>1, <4>1, <4>2 DEF IInv, DataOnly
    <3>8. ASSUME NEW i \in 1..(n + 1)
          PROVE  /\ toHost'[h][i][2] >= 3
                 /\ i > 1 => toHost'[h][i] = <<toHost'[h][i - 1][1], toHost'[h][i - 1][2] + 1>>
                 /\ i = 1 => toHost'[h][i][2] = 3 \/ proc'[toHost'[h][i][1]].halfway
      <4>1. CASE i = n + 1
        <5>1. toHost'[h][i] = <<c, Taken(c)'>> /\ toHost'[h][i][2] >= 3
          BY <1>5, <3>4, <4>1
        <5>2. i > 1 => toHost'[h][i - 1] = <<c, Taken(c)>>
          BY <3>2, <3>4, <3>5, <4>1
        <5>3. i = 1 => Taken(c)' = 3 \/ proc'[c].halfway
          BY <1>12, <3>2, <3>6, <4>1
        <5>. QED
          BY <1>4, <5>1, <5>2, <5>3
      <4>2. CASE i # n + 1
        <5>1. i \in 1..n /\ (i > 1 => i - 1 \in 1..n)
          BY <3>2, <4>2
        <5>. QED
          BY <3>4, <3>7, <5>1
      <4>. QED
        BY <4>1, <4>2
    <3>9. ASSUME NEW g \in HostSockets, g # h, NEW i \in DOMAIN toHost'[g]
          PROVE  /\ toHost'[g][i][2] >= 3
                 /\ i > 1 => toHost'[g][i] = <<toHost'[g][i - 1][1], toHost'[g][i - 1][2] + 1>>
                 /\ i = 1 => toHost'[g][i][2] = 3 \/ proc'[toHost'[g][i][1]].halfway
      <4>1. toHost'[g] = toHost[g] /\ toHost[g][i] \in Conns \X Nat
        BY <1>14, <3>9 DEF IInv, TypeOK
      <4>2. toHost[g][i][1] \in Conns
        BY <4>1
      <4>. QED
        BY <2>0, <3>9, <4>1, <4>2 DEF IInv, DataOnly
    <3>. QED
      BY <3>4, <3>8, <3>9 DEF DataOnly
  <2>. QED
    BY <2>1, <2>2
<1>22. LockAndPort(c)' /\ NoProcessor(c)'
  BY <1>1, <1>2, <1>3, <1>12 DEF LockAndPort, NoProcessor
<1>23. StateOfProcessor(c)'
  <2>1. Taken(c)' >= 2 /\ Taken(c)' >= 1
    BY <1>5
  <2>. QED
    BY <1>1, <1>2, <1>12, <2>1 DEF StateOfProcessor
<1>24. Accepts(c)'
  BY <1>1, <1>2, <1>6, <1>8, <1>12 DEF Accepts
<1>25. OkFirst(c)'
  <2>1. GuestListens(c)' <=> GuestListens(c)
    BY <1>1, <1>12 DEF GuestListens
  <2>. QED
    BY <1>1, <1>2, <1>12, <2>1 DEF OkFirst
<1>26. Buffered(c)' /\ StartIsOver(c)'
  <2>1. \A i \in DOMAIN proc[c].kept : proc[c].kept[i] \in Nat
    <3>1. proc[c].kept \in Seq(Nat)
      BY <1>11 DEF Procs
    <3>. QED
      BY <3>1
  <2>2. \A i \in DOMAIN proc[c].kept :
          proc[c].kept[i] >= 2 /\ proc[c].kept[i] <= Taken(c)' /\ proc[c].kept[i] >= 3
    BY <1>1, <1>2, <1>4, <1>5, <2>1 DEF Buffered, StartIsOver
  <2>3. Buffered(c)'
    BY <1>2, <1>8, <1>12, <2>2 DEF Buffered
  <2>4. Taken(c)' >= 2
    BY <1>5
  <2>. QED
    BY <1>12, <2>2, <2>3, <2>4 DEF StartIsOver
<1>. QED
  BY <1>4, <1>16, <1>18, <1>19, <1>20, <1>21, <1>22, <1>23, <1>24, <1>25, <1>26, StepOf DEF OwnPart

Increasing(q) == \A i, j \in DOMAIN q : i < j => q[i] < q[j]
Pushed(q, n, b) ==
  /\ b \in Seq(Nat) /\ Tail(b) \in Seq(Nat) /\ (q = <<>> <=> Tail(b) = <<>>)
  /\ Increasing(b) /\ Increasing(Tail(b))
  /\ \A i \in DOMAIN b : b[i] = n \/ (i \in DOMAIN q /\ b[i] = q[i])
  /\ \A i \in DOMAIN Tail(b) : Tail(b)[i] \in Nat /\ Tail(b)[i] > Head(b) /\ Tail(b)[i] <= n
  /\ q = <<>> => Head(b) = n
  /\ q # <<>> => 1 \in DOMAIN q /\ Head(b) = q[1]
(* A number that is larger than those before is put behind increasing      *)
(* numbers, and the first one is taken.                                    *)
LEMMA BufferLemma ==
  ASSUME NEW q \in Seq(Nat), NEW n \in Nat, NEW b, b = Append(q, n),
         Increasing(q), \A i \in DOMAIN q : q[i] < n
  PROVE  Pushed(q, n, b)
<1>1. PICK m \in Nat : m = Len(q)
  OBVIOUS
<1>2. DOMAIN q = 1..m /\ (q = <<>> <=> m = 0) /\ \A i \in 1..m : q[i] \in Nat
  BY <1>1, EmptySeq
<1>3. b \in Seq(Nat) /\ Len(b) = m + 1 /\ b[m + 1] = n /\ \A i \in 1..m : b[i] = q[i]
  BY <1>1, AppendProperties
<1>4. b # <<>> /\ DOMAIN b = 1..(m + 1)
  BY <1>3
<1>5. PICK t : t = Tail(b)
  OBVIOUS
<1>6. Head(b) = b[1] /\ t \in Seq(Nat) /\ Len(t) = m /\ \A i \in 1..m : t[i] = b[i + 1]
  BY <1>3, <1>4, <1>5, HeadTailProperties
<1>7. DOMAIN t = 1..m /\ (t = <<>> <=> m = 0)
  BY <1>6, EmptySeq
<1>8. ASSUME NEW i \in 1..(m + 1), i # m + 1 PROVE i \in 1..m
  BY <1>8
<1>9. ASSUME NEW i \in 1..(m + 1), NEW j \in 1..(m + 1), i < j PROVE b[i] < b[j]
  <2>1. i \in 1..m /\ b[i] = q[i]
    <3>1. i \in 1..m
      BY <1>9
    <3>. QED
      BY <1>3, <3>1
  <2>2. CASE j = m + 1
    BY <1>2, <1>3, <2>1, <2>2
  <2>3. CASE j # m + 1
    <3>1. j \in 1..m /\ b[j] = q[j]
      BY <1>3, <1>8, <2>3
    <3>. QED
      BY <1>2, <1>9, <2>1, <3>1 DEF Increasing
  <2>. QED
    BY <2>2, <2>3
<1>10. Increasing(b)
  BY <1>4, <1>9 DEF Increasing
<1>11. ASSUME NEW i \in 1..m
       PROVE  /\ t[i] = b[i + 1] /\ i + 1 \in 1..(m + 1) /\ 1 \in 1..(m + 1) /\ 1 < i + 1
              /\ t[i] > b[1] /\ t[i] \in Nat /\ t[i] <= n
  <2>0. i + 1 \in 1..(m + 1) /\ 1 \in 1..(m + 1) /\ 1 < i + 1 /\ i \in Nat
    OBVIOUS
  <2>1. t[i] = b[i + 1] /\ i + 1 \in 1..(m + 1) /\ 1 \in 1..(m + 1) /\ 1 < i + 1 /\ i \in Nat
    BY <1>6, <2>0
  <2>2. b[1] < b[i + 1] /\ b[i + 1] \in Nat /\ b[1] \in Nat
    BY <1>3, <1>4, <1>9, <2>1
  <2>3. b[i + 1] <= n
    <3>1. CASE i = m
      BY <1>3, <3>1
    <3>2. CASE i # m
      <4>1. i + 1 \in 1..m
        BY <3>2
      <4>2. b[i + 1] = q[i + 1] /\ q[i + 1] \in Nat /\ q[i + 1] < n
        BY <1>2, <1>3, <4>1
      <4>. QED
        BY <4>2
    <3>. QED
      BY <3>1, <3>2
  <2>. QED
    BY <2>1, <2>2, <2>3
<1>12. Increasing(t)
  <2>1. ASSUME NEW i \in 1..m, NEW j \in 1..m, i < j PROVE t[i] < t[j]
    <3>1. i + 1 < j + 1
      BY <2>1
    <3>2. /\ t[i] = b[i + 1] /\ i + 1 \in 1..(m + 1)
          /\ t[j] = b[j + 1] /\ j + 1 \in 1..(m + 1)
      BY <1>11
    <3>. QED
      BY <1>9, <3>1, <3>2
  <2>. QED
    BY <1>7, <2>1 DEF Increasing
<1>13. q # <<>> => 1 \in 1..m
  BY <1>2
<1>14. \A i \in DOMAIN b : b[i] = n \/ (i \in DOMAIN q /\ b[i] = q[i])
  BY <1>2, <1>3, <1>4, <1>8
<1>15. q = <<>> => b[1] = n
  BY <1>2, <1>3
<1>. QED
  BY <1>2, <1>3, <1>5, <1>6, <1>7, <1>10, <1>11, <1>12, <1>13, <1>14, <1>15 DEF Pushed

(* What a command leaves alone. *)
LEMMA CommandFrame ==
  ASSUME IInv, NEW c \in Conns, Only(c), in[c] # <<>>, in' = [in EXCEPT ![c] = Tail(@)],
         UNCHANGED <<guest, sent, out, lock, port, hosts, toHost, hostSent, undefined>>,
         proc[c].halfway => proc'[c].halfway, proc'[c].host = proc[c].host,
         HasAccepted(c)' => HasAccepted(c) /\ proc'[c].next = proc[c].next
  PROVE  Elsewhere(c) /\ TypeOK' /\ Numbered' /\ HostsApart' /\ DataOnly'
<1>1. /\ in' \in [Conns -> Seq(Nat)] /\ Numbered'
      /\ \A e \in Conns : e # c => Taken(e)' = Taken(e)
  BY TakeOne DEF IInv
<1>2. Elsewhere(c)
  BY <1>1 DEF Elsewhere
<1>3. TypeOK'
  BY <1>1 DEF IInv, TypeOK, Only
<1>4. HostsApart'
  <2>1. \A e \in Conns : HasAccepted(e)' => HasAccepted(e) /\ proc'[e].next = proc[e].next
    BY DEF Only, HasAccepted
  <2>2. \A e \in Conns : proc'[e].host = proc[e].host
    BY DEF Only
  <2>. QED
    BY <2>1, <2>2, ApartFrame DEF IInv
<1>5. DataOnly'
  <2>1. \A e \in Conns : proc[e].halfway => proc'[e].halfway
    BY DEF Only
  <2>. QED
    BY <2>1, DataFrame
<1>. QED
  BY <1>1, <1>2, <1>3, <1>4, <1>5

(* A command, or something else in its place. *)
LEMMA CommandKeeps ==
  ASSUME IInv, NEW c \in Conns, NEW short \in BOOLEAN, CommandArrives(c, short)
  PROVE  IInv'
<1> USE NoZero
<1>1. /\ UNCHANGED <<guest, sent, out, hosts, toHost, hostSent, undefined>>
      /\ in' = [in EXCEPT ![c] = Tail(@)] /\ in[c] # <<>>
      /\ proc[c].pc = "idle" /\ proc[c].state # "proxying_data" /\ proc[c].reading /\ proc[c].open
  BY DEF CommandArrives, hostVars
<1>2. LockAndPort(c) /\ NoProcessor(c) /\ StateOfProcessor(c) /\ OkFirst(c)
      /\ Accepts(c) /\ Buffered(c) /\ StartIsOver(c) /\ HostUpToDate(c)
  BY DEF IInv, OwnPart
<1>3. /\ in' \in [Conns -> Seq(Nat)] /\ Numbered'
      /\ \A e \in Conns : e # c => Taken(e)' = Taken(e)
      /\ Taken(c)' = Taken(c) + 1 /\ Head(in[c]) = Taken(c)'
  BY <1>1, TakeOne DEF IInv
<1>4. Taken(c) \in Nat /\ Taken(c)' \in Nat /\ Taken(c)' >= 1
  <2>1. Taken(c) \in Nat
    BY DEF IInv, Numbered
  <2>. QED
    BY <1>3, <2>1
<1>5. PICK f \in BOOLEAN : /\ f = (proc[c].halfway \/ proc[c].accepting # "no")
                           /\ proc[c].halfway => f
                           /\ proc[c].accepting # "no" => f
  BY Notes
<1>6. proc[c] \in Procs /\ proc \in [Conns -> Procs]
  BY ProcOf DEF IInv, TypeOK
<1>7. PICK q \in Seq(Nat), n \in Nat : q = proc[c].kept /\ n = Taken(c)'
  BY <1>4, <1>6 DEF Procs
<1>8. PICK b : b = Append(q, n)
  OBVIOUS
<1>9. /\ \A i \in DOMAIN q : q[i] \in Nat /\ q[i] >= 2 /\ q[i] < n
      /\ Increasing(q) /\ (q # <<>> => proc[c].halfway)
  <2>1. \A i \in DOMAIN q : q[i] \in Nat
    OBVIOUS
  <2>2. /\ \A i \in DOMAIN q : q[i] >= 2 /\ q[i] <= Taken(c)
        /\ Increasing(q) /\ (q # <<>> => proc[c].halfway)
    BY <1>2, <1>7 DEF Buffered, Increasing
  <2>3. Taken(c) < n
    BY <1>3, <1>4, <1>7
  <2>4. \A i \in DOMAIN q : q[i] < n
    BY <1>4, <2>1, <2>2, <2>3
  <2>. QED
    BY <2>1, <2>2, <2>4
<1>10. /\ b \in Seq(Nat) /\ Tail(b) \in Seq(Nat) /\ (q = <<>> <=> Tail(b) = <<>>)
       /\ Increasing(b) /\ Increasing(Tail(b))
       /\ \A i \in DOMAIN b : b[i] = n \/ (i \in DOMAIN q /\ b[i] = q[i])
       /\ \A i \in DOMAIN Tail(b) : Tail(b)[i] \in Nat /\ Tail(b)[i] > Head(b) /\ Tail(b)[i] <= n
       /\ q = <<>> => Head(b) = n
       /\ q # <<>> => 1 \in DOMAIN q /\ Head(b) = q[1]
  <2>1. \A i \in DOMAIN q : q[i] < n
    BY <1>9
  <2>2. Increasing(q)
    BY <1>9
  <2>3. Pushed(q, n, b)
    BY <1>8, <2>1, <2>2, BufferLemma
  <2>. QED
    BY <2>3 DEF Pushed
<1>13. CASE /\ proc[c].expected = "" /\ UNCHANGED <<lock, port>>
            /\ proc' = [[proc EXCEPT ![c].halfway = @ \/ proc[c].accepting # "no"] EXCEPT ![c].kept = b]
  <2>1. /\ proc'[c] = [proc[c] EXCEPT !.halfway = f, !.kept = b]
        /\ proc' = [e \in Conns |-> proc'[e]] /\ \A e \in Conns : e # c => proc'[e] = proc[e]
    BY <1>5, <1>6, <1>13
  <2>2. /\ proc'[c].pc = "idle" /\ proc'[c].state = proc[c].state
        /\ proc'[c].expected = proc[c].expected /\ proc'[c].kept = b
        /\ proc'[c].reading = proc[c].reading /\ proc'[c].open = proc[c].open
        /\ proc'[c].host = proc[c].host /\ proc'[c].accepting = proc[c].accepting
        /\ proc'[c].next = proc[c].next /\ proc'[c].halfway = f
        /\ proc'[c].pending = proc[c].pending
    BY <1>1, <1>6, <2>1 DEF Procs
  <2>3. Only(c)
    <3>1. proc'[c] \in Procs
      BY <1>6, <1>10, <2>1 DEF Procs
    <3>. QED
      BY <2>1, <3>1, OnlyOne DEF IInv
  <2>4. Elsewhere(c) /\ TypeOK' /\ Numbered' /\ HostsApart' /\ DataOnly'
    <3>1. HasAccepted(c)' => HasAccepted(c) /\ proc'[c].next = proc[c].next
      BY <1>1, <2>2 DEF HasAccepted
    <3>. QED
      BY <1>1, <1>5, <1>13, <2>2, <2>3, <3>1, CommandFrame
  <2>5. lock = c /\ port = c
    BY <1>1, <1>2, <1>13 DEF LockAndPort
  <2>6. LockAndPort(c)' /\ NoProcessor(c)'
    BY <1>1, <1>2, <1>13, <2>2, <2>5 DEF LockAndPort, NoProcessor
  <2>7. Taken(c) >= 1 /\ n >= 2
    <3>1. Taken(c) >= 1
      BY <1>2, <1>13 DEF StateOfProcessor
    <3>. QED
      BY <1>3, <1>4, <1>7, <3>1
  <2>8. f
    <3>1. SUFFICES ASSUME proc[c].accepting = "no" PROVE FALSE
      BY <1>5
    <3>2. proc[c].state = "waiting_for_guest_accept_command"
      BY <1>1, <1>2, <1>6, <1>13, <3>1 DEF StateOfProcessor, Procs
    <3>3. sent[c] <= 1
      BY <1>1, <1>2, <3>1, <3>2 DEF OkFirst
    <3>4. sent[c] \in Nat /\ Len(in[c]) \in Nat /\ Len(in[c]) >= 1
      BY <1>1, EmptySeq DEF IInv, TypeOK
    <3>. QED
      BY <2>7, <3>3, <3>4 DEF Taken
  <2>9. StateOfProcessor(c)'
    <3>1. (Taken(c) >= 2 => Taken(c)' >= 2) /\ Taken(c)' >= 1
      BY <1>3, <1>4
    <3>. QED
      BY <1>1, <1>2, <1>13, <2>2, <3>1 DEF StateOfProcessor
  <2>10. Accepts(c)'
    BY <1>1, <1>2, <2>2, <2>8 DEF Accepts
  <2>11. OkFirst(c)'
    <3>1. GuestListens(c)' <=> GuestListens(c)
      BY <1>1, <2>2 DEF GuestListens
    <3>. QED
      BY <1>1, <1>2, <2>2, <3>1 DEF OkFirst
  <2>12. Buffered(c)'
    <3>1. \A i \in DOMAIN b : b[i] >= 2 /\ b[i] <= n
      BY <1>9, <1>10, <2>7
    <3>. QED
      BY <1>7, <1>10, <2>2, <2>8, <3>1 DEF Buffered, Increasing
  <2>13. StartIsOver(c)'
    <3>1. SUFFICES ASSUME NEW h \in HostSockets, proc[c].host = h, toHost[h] # <<>>
                   PROVE  Taken(c)' >= 2 /\ \A i \in DOMAIN b : b[i] >= 3
      BY <1>1, <2>2 DEF StartIsOver
    <3>2. Taken(c) >= 2 /\ \A i \in DOMAIN q : q[i] >= 3
      BY <1>2, <1>7, <3>1 DEF StartIsOver
    <3>3. n >= 3
      BY <1>3, <1>4, <1>7, <3>2
    <3>4. \A i \in DOMAIN b : b[i] >= 3
      BY <1>10, <3>2, <3>3
    <3>. QED
      BY <1>3, <1>4, <3>2, <3>4
  <2>14. HostUpToDate(c)'
    BY <1>1, <2>2 DEF HostUpToDate
  <2>. QED
    BY <2>4, <2>6, <2>9, <2>10, <2>11, <2>12, <2>13, <2>14, StepOf DEF OwnPart
<1>14. CASE Remove(c)
  BY <1>1, <1>3, <1>14, RemoveKeeps
<1>15. CASE /\ proc[c].expected = "accept" /\ UNCHANGED <<lock, port>>
            /\ proc' = [[proc EXCEPT ![c].halfway = @ \/ proc[c].accepting # "no"] EXCEPT
                          ![c].kept = Tail(b), ![c].expected = "", ![c].pc = "locking", ![c].reading = FALSE]
  <2>1. lock # c /\ port # c /\ NotBegun(c)
    BY <1>1, <1>2, <1>15 DEF LockAndPort
  <2>2. Tail(b) = <<>> /\ <<>> \in Seq(Nat)
    BY <1>7, <1>10, <2>1 DEF NotBegun
  <2>3. /\ proc'[c] = [proc[c] EXCEPT !.halfway = f, !.kept = <<>>, !.expected = "",
                                      !.pc = "locking", !.reading = FALSE]
        /\ proc' = [e \in Conns |-> proc'[e]] /\ \A e \in Conns : e # c => proc'[e] = proc[e]
    BY <1>5, <1>6, <1>15, <2>2
  <2>4. /\ proc'[c].pc = "locking" /\ proc'[c].state = proc[c].state
        /\ proc'[c].expected = "" /\ proc'[c].kept = <<>>
        /\ proc'[c].reading = FALSE /\ proc'[c].open = proc[c].open
        /\ proc'[c].host = proc[c].host /\ proc'[c].accepting = proc[c].accepting
        /\ proc'[c].next = proc[c].next /\ proc'[c].halfway = f
        /\ proc'[c].pending = proc[c].pending
    BY <1>6, <2>3 DEF Procs
  <2>5. Only(c)
    <3>1. proc'[c] \in Procs
      BY <1>6, <2>2, <2>3 DEF Procs
    <3>. QED
      BY <2>3, <3>1, OnlyOne DEF IInv
  <2>6. Elsewhere(c) /\ TypeOK' /\ Numbered' /\ HostsApart' /\ DataOnly'
    <3>1. HasAccepted(c)' => HasAccepted(c) /\ proc'[c].next = proc[c].next
      BY <1>1, <2>4 DEF HasAccepted
    <3>. QED
      BY <1>1, <1>5, <1>15, <2>4, <2>5, <3>1, CommandFrame
  <2>7. LockAndPort(c)' /\ NoProcessor(c)'
    <3>1. NotBegun(c)'
      BY <2>1, <2>4 DEF NotBegun
    <3>2. lock' # c /\ port' # c
      BY <1>15, <2>1
    <3>. QED
      BY <1>1, <1>2, <2>4, <3>1, <3>2 DEF LockAndPort, NoProcessor
  <2>8. StateOfProcessor(c)' /\ Accepts(c)'
    BY <1>4, <2>1, <2>4 DEF StateOfProcessor, Accepts, NotBegun
  <2>9. OkFirst(c)'
    <3>1. GuestListens(c)' <=> GuestListens(c)
      BY <1>1, <2>4 DEF GuestListens
    <3>. QED
      BY <1>1, <1>2, <2>4, <3>1 DEF OkFirst
  <2>10. Buffered(c)' /\ StartIsOver(c)' /\ HostUpToDate(c)'
    <3>1. /\ proc'[c].state = "waiting_for_guest_accept_command" /\ proc'[c].host = 0
          /\ DOMAIN proc'[c].kept = {}
      <4>1. \A i \in DOMAIN <<>> : FALSE
        OBVIOUS
      <4>. QED
        BY <2>1, <2>4, <4>1 DEF NotBegun
    <3>. QED
      BY <2>4, <3>1 DEF Buffered, StartIsOver, HostUpToDate
  <2>. QED
    BY <2>6, <2>7, <2>8, <2>9, <2>10, StepOf DEF OwnPart
<1>16. CASE /\ proc[c].expected = "start" /\ UNCHANGED <<lock, port>> /\ Command(Head(b)) = "start"
            /\ proc' = [[proc EXCEPT ![c].halfway = @ \/ proc[c].accepting # "no"] EXCEPT
                          ![c].kept = Tail(b), ![c].expected = "", ![c].state = "proxying_data",
                          ![c].pending = @ \cup {"read"}]
  <2>1. PICK w \in SUBSET Waits, k \in Seq(Nat) : w = proc[c].pending \cup {"read"} /\ k = Tail(b)
    BY <1>6, <1>10 DEF Procs, Waits
  <2>2. /\ proc'[c] = [proc[c] EXCEPT !.halfway = f, !.kept = k, !.expected = "",
                                      !.state = "proxying_data", !.pending = w]
        /\ proc' = [e \in Conns |-> proc'[e]] /\ \A e \in Conns : e # c => proc'[e] = proc[e]
    <3>1. proc' = [[proc EXCEPT ![c].halfway = f] EXCEPT ![c].kept = k, ![c].expected = "",
                          ![c].state = "proxying_data", ![c].pending = w]
      BY <1>5, <1>6, <1>16, <2>1
    <3>. QED
      BY <1>6, <3>1
  <2>3. /\ proc'[c].pc = "idle" /\ proc'[c].state = "proxying_data"
        /\ proc'[c].expected = "" /\ proc'[c].kept = k
        /\ proc'[c].reading = proc[c].reading /\ proc'[c].open = proc[c].open
        /\ proc'[c].host = proc[c].host /\ proc'[c].accepting = proc[c].accepting
        /\ proc'[c].next = proc[c].next /\ proc'[c].halfway = f
        /\ proc'[c].pending = w
    BY <1>1, <1>6, <2>2 DEF Procs
  <2>4. Only(c)
    <3>1. proc'[c] \in Procs
      BY <1>6, <2>2 DEF Procs
    <3>. QED
      BY <2>2, <3>1, OnlyOne DEF IInv
  <2>5. /\ "accepted" \in w <=> "accepted" \in proc[c].pending
        /\ "accept" \in w <=> "accept" \in proc[c].pending
    BY <2>1
  <2>6. Elsewhere(c) /\ TypeOK' /\ Numbered' /\ HostsApart' /\ DataOnly'
    <3>1. HasAccepted(c)' => HasAccepted(c) /\ proc'[c].next = proc[c].next
      BY <1>1, <2>3, <2>5 DEF HasAccepted
    <3>. QED
      BY <1>1, <1>5, <1>16, <2>3, <2>4, <3>1, CommandFrame
  <2>7. lock = c /\ port = c
    BY <1>1, <1>2, <1>16 DEF LockAndPort
  <2>8. LockAndPort(c)' /\ NoProcessor(c)'
    BY <1>1, <1>2, <1>16, <2>3, <2>7 DEF LockAndPort, NoProcessor
  <2>9. proc[c].state = "waiting_for_guest_start_command" /\ proc[c].host # 0
    BY <1>1, <1>2, <1>6, <1>16 DEF StateOfProcessor, Procs
  <2>10. Head(b) = 2
    BY <1>16 DEF Command
  <2>11. Taken(c)' >= 2 /\ (q = <<>> => Taken(c)' = 2)
    BY <1>7, <1>9, <1>10, <2>10
  <2>12. \A i \in DOMAIN k : k[i] >= 3 /\ k[i] <= Taken(c)' /\ k[i] >= 2
    <3> TAKE i \in DOMAIN k
    <3>1. k[i] \in Nat /\ k[i] > 2 /\ k[i] <= n
      BY <1>10, <2>1, <2>10
    <3>. QED
      BY <1>7, <3>1
  <2>13. \A i, j \in DOMAIN k : i < j => k[i] < k[j]
    BY <1>10, <2>1 DEF Increasing
  <2>14. \A h \in HostSockets : proc[c].host = h => toHost[h] = <<>>
    <3>1. SUFFICES ASSUME NEW h \in HostSockets, proc[c].host = h, toHost[h] # <<>> PROVE FALSE
      OBVIOUS
    <3>2. Taken(c) >= 2 /\ \A i \in DOMAIN q : q[i] >= 3
      BY <1>2, <1>7, <3>1 DEF StartIsOver
    <3>3. q # <<>>
      BY <1>3, <1>4, <2>11, <3>2
    <3>. QED
      BY <1>10, <2>10, <3>2, <3>3
  <2>15. StateOfProcessor(c)'
    BY <1>4, <2>3, <2>9, <2>11 DEF StateOfProcessor
  <2>16. Accepts(c)'
    BY <1>1, <1>2, <1>5, <2>3, <2>5 DEF Accepts
  <2>17. OkFirst(c)'
    <3>1. GuestListens(c)' <=> GuestListens(c)
      BY <1>1, <2>3 DEF GuestListens
    <3>. QED
      BY <1>1, <1>2, <2>3, <2>9, <3>1 DEF OkFirst
  <2>18. Buffered(c)'
    <3>1. k # <<>> => f
      BY <1>5, <1>9, <1>10, <2>1
    <3>. QED
      BY <2>3, <2>12, <2>13, <3>1 DEF Buffered
  <2>19. StartIsOver(c)'
    BY <2>3, <2>11, <2>12 DEF StartIsOver
  <2>20. HostUpToDate(c)'
    <3>1. Taken(c)' = 2 \/ f
      BY <1>5, <1>9, <2>11
    <3>. QED
      BY <1>1, <2>3, <2>14, <3>1 DEF HostUpToDate
  <2>. QED
    BY <2>6, <2>8, <2>15, <2>16, <2>17, <2>18, <2>19, <2>20, StepOf DEF OwnPart
<1>17. b = Append(proc[c].kept, Head(in[c]))
  BY <1>3, <1>7, <1>8
<1>. QED
  BY <1>13, <1>14, <1>15, <1>16, <1>17 DEF CommandArrives

----------------------------------------------------------------------------
(* Every step of the proxy keeps the invariant. *)
LEMMA NextIInv == IInv /\ [Next]_vars => IInv'
<1> SUFFICES ASSUME IInv, [Next]_vars PROVE IInv'
  OBVIOUS
<1>1. CASE UNCHANGED vars
  <2>1. undefined' \in BOOLEAN
    BY <1>1 DEF vars, IInv, TypeOK
  <2>. QED
    BY <1>1, <2>1, Unmoved DEF vars
<1>2. CASE Peers
  BY <1>2, GuestConnectsKeeps, GuestSendsKeeps, GuestClosesKeeps, HostConnectsKeeps, HostClosesKeeps
     DEF Peers
<1>3. ASSUME NEW c \in Conns, Handler(c) PROVE IInv'
  BY <1>3, GuestGoneKeeps, ReplacedKeeps, ProxiesKeeps, CommandKeeps, HostReadKeeps DEF Handler
<1>4. ASSUME NEW c \in Conns, HostHandler(c) \/ Locks(c) PROVE IInv'
  BY <1>4, SendsOkKeeps, SetsStateKeeps, SetsExpectedKeeps, TakesLockKeeps, BindKeeps
     DEF HostHandler, Locks
<1>5. ASSUME NEW c \in Conns, MembersGo(c) PROVE IInv'
  BY <1>5, MembersGoKeeps
<1>6. ASSUME NEW c \in Conns, NEW what \in {"data", "eof"}, HostReadEnds(c, what) PROVE IInv'
  BY <1>6, HostReadEndsKeeps
<1>7. CASE Runs
  BY <1>3, <1>4, <1>5, <1>6, <1>7 DEF Runs
<1>. QED
  BY <1>1, <1>2, <1>6, <1>7 DEF Next

(* The invariant holds in every reachable state. *)
LEMMA AlwaysIInv == Spec => []IInv
<1>1. Init => IInv
  BY InitIInv
<1>2. IInv /\ [Next]_vars => IInv'
  BY NextIInv
<1>. QED
  BY <1>1, <1>2, PTL DEF Spec

(* For any number of connections, threads and messages: only the processor *)
(* that has active_instance_ listens and talks to a host, although the     *)
(* destructor gives port and lock back in two steps between which other    *)
(* threads run, and although a bind may throw because another program has  *)
(* the port.                                                               *)
THEOREM PortGoesWithLock == Spec => []ActiveOwnsPort
<1>1. ASSUME IInv PROVE ActiveOwnsPort
  <2> USE NoZero
  <2>1. \A c \in Conns : LockAndPort(c) /\ NoProcessor(c)
    BY <1>1 DEF IInv, OwnPart
  <2>2. lock \in Conns \cup {0} /\ port \in Conns \cup {0}
    BY <1>1 DEF IInv, TypeOK
  <2>3. port # 0 => lock = port
    BY <2>1, <2>2 DEF LockAndPort
  <2>4. \A c \in Conns : proc[c].pc = "binding" => lock = c /\ port = 0
    BY <2>1, <2>2 DEF LockAndPort
  <2>5. ASSUME lock # 0
        PROVE  \/ port = lock
               \/ proc[lock].pc \in {"binding", "deleting"}
               \/ Deaf(lock) /\ proc[lock].host = 0
    <3>1. lock \in Conns /\ LockAndPort(lock)
      BY <2>1, <2>2, <2>5
    <3>. QED
      BY <3>1 DEF LockAndPort, Deaf, NotBegun
  <2>6. \A c \in Conns : proc[c].host # 0 \/ proc[c].state # "waiting_for_guest_accept_command" =>
          lock = c \/ proc[c].pc = "gone"
    BY <2>1 DEF LockAndPort, NotBegun
  <2>. QED
    BY <2>3, <2>4, <2>5, <2>6 DEF ActiveOwnsPort
<1>. QED
  BY <1>1, AlwaysIInv, PTL

(* For any number of connections, threads and messages: hosts get data     *)
(* only, in order and without gaps, from its beginning; adbd gets ok       *)
(* first.  What is swallowed or misdirected was taken while                *)
(* on_host_connection was between two of its statements, or had left one   *)
(* of them by an exception.                                                *)
THEOREM ProxyTransparent == Spec => []HandshakeNotLeaked
<1>1. ASSUME IInv PROVE HandshakeNotLeaked
  <2>1. \A c \in Conns : out[c] # <<>> => out[c][1] = "ok"
    BY <1>1 DEF IInv, OwnPart, OkFirst
  <2>2. ASSUME NEW h \in HostSockets, NEW i \in DOMAIN toHost[h]
        PROVE  /\ Command(toHost[h][i][2]) = "data"
               /\ i > 1 => toHost[h][i] = <<toHost[h][i - 1][1], toHost[h][i - 1][2] + 1>>
               /\ i = 1 => toHost[h][i][2] = 3 \/ proc[toHost[h][i][1]].halfway
    <3>1. toHost[h][i] \in Conns \X Nat
      BY <1>1 DEF IInv, TypeOK
    <3>2. toHost[h][i][2] \in Nat /\ toHost[h][i][2] >= 3
      BY <1>1, <3>1 DEF IInv, DataOnly
    <3>3. toHost[h][i][2] # 1 /\ toHost[h][i][2] # 2
      BY <3>2
    <3>. QED
      BY <1>1, <3>3 DEF IInv, DataOnly, Command
  <2>3. \A c \in Conns : proc[c].kept # <<>> => proc[c].halfway
    BY <1>1 DEF IInv, OwnPart, Buffered
  <2>. QED
    BY <2>1, <2>2, <2>3 DEF HandshakeNotLeaked
<1>. QED
  BY <1>1, AlwaysIInv, PTL

----------------------------------------------------------------------------
(* qemud: the looper, its hooks and its registrations. *)

(* A step from s to t that leaves every hook and every fd in place. *)
Calmer(s, t) ==
  /\ Len(t.hooks) = Len(s.hooks)
  /\ \A i \in 1 .. Len(s.hooks) :
       /\ t.hooks[i].fd = s.hooks[i].fd /\ t.hooks[i].user = s.hooks[i].user
       /\ t.hooks[i].closing = s.hooks[i].closing
       /\ t.hooks[i].pending => s.hooks[i].pending
  /\ \A k \in Connections :
       /\ Opened(t, k) = Opened(s, k)
       /\ (t.h[k].st = "freed") = (s.h[k].st = "freed")
       /\ t.h[k].fd = s.h[k].fd
       /\ t.c[k].channel = -1 \/ s.c[k].channel # -1 \/ Own(s, k)
  /\ t.phase = "wait" => s.phase = "wait"
  /\ \A fd \in Fds : t.epoll[fd].slot = 2 => fd = ControlFd

(* The fds and the connections are natural numbers, and no connection has  *)
(* the number of the serial line or of the control socket.                 *)
LEMMA NatsFacts ==
  /\ Cardinality(Connections) \in Nat /\ SerialFd \in Fds /\ ControlFd \in Fds
  /\ Fds \subseteq Nat /\ 0 \notin Fds
  /\ \A k \in Connections : k \in Nat /\ k # 0 /\ k # Serial /\ k # Control
<1>1. Cardinality(Connections) \in Nat
  BY FS_CardinalityType, QemudAssumption
<1> QED BY <1>1, QemudAssumption DEF SerialFd, ControlFd, Fds, Serial, Control

(* A nonempty set of natural numbers has a least element, so that the      *)
(* first hook, the first free channel and the lowest fd exist.             *)
LEMMA LeastExists ==
  ASSUME NEW S \in SUBSET Nat, S # {}
  PROVE  \E x \in S : \A y \in S : x <= y
<1> DEFINE R == {ss \in Nat \X Nat : ss[1] < ss[2]}
<1>1. IsWellFoundedOn(R, Nat)
  BY NatLessThanWellFounded DEF OpToRel
<1>2. \E x \in S : \A y \in S : ~(<<y, x>> \in R)
  <2> HIDE DEF R
  <2> QED BY <1>1, WFMin
<1>3. PICK x \in S : \A y \in S : ~(<<y, x>> \in R)
  BY <1>2
<1>4. ASSUME NEW y \in S PROVE x <= y
  <2>1. x \in Nat /\ y \in Nat /\ ~(<<y, x>> \in R)
    BY <1>3
  <2>2. <<y, x>> \in Nat \X Nat /\ <<y, x>>[1] = y /\ <<y, x>>[2] = x
    BY <2>1
  <2>3. ~(y < x)
    BY <2>1, <2>2
  <2> QED BY <2>1, <2>3
<1> QED BY <1>4

(* Such a step changes no ownership. *)
LEMMA OwnKept ==
  ASSUME NEW s, NEW t, Calmer(s, t)
  PROVE  \A k \in Connections : Own(t, k) <=> Own(s, k)
BY DEF Calmer, Own

(* Such a step keeps the looper and the handlers fitting together. *)
LEMMA CalmerKeeps ==
  ASSUME NEW s \in Memory, NEW t \in Memory, HS(s), Calmer(s, t)
  PROVE  HS(t)
<1> USE DEF HS
<1>0. Len(s.hooks) \in Nat /\ Len(t.hooks) = Len(s.hooks)
  BY LenProperties DEF Memory, Calmer
<1>1. BaseHooks(t)
  <2>1. \A i \in 1 .. Len(s.hooks) : /\ t.hooks[i].fd = s.hooks[i].fd /\ t.hooks[i].user = s.hooks[i].user
                                     /\ t.hooks[i].closing = s.hooks[i].closing
    BY DEF Calmer
  <2>2. Len(s.hooks) >= 2 /\ 1 \in 1 .. Len(s.hooks) /\ 2 \in 1 .. Len(s.hooks)
        /\ \A i \in 3 .. Len(s.hooks) : i \in 1 .. Len(s.hooks)
    BY <1>0 DEF BaseHooks
  <2>3. /\ Len(t.hooks) >= 2
        /\ t.hooks[1].fd = SerialFd /\ t.hooks[1].user = Serial /\ ~t.hooks[1].closing
        /\ t.hooks[2].fd = ControlFd /\ t.hooks[2].user = Control /\ ~t.hooks[2].closing
    BY <1>0, <2>1, <2>2 DEF BaseHooks
  <2>4. /\ \A i \in 3 .. Len(t.hooks) : /\ t.hooks[i].user \in Connections
                                        /\ t.hooks[i].fd # SerialFd /\ t.hooks[i].fd # ControlFd
        /\ \A i, j \in 3 .. Len(t.hooks) : t.hooks[i].user = t.hooks[j].user => i = j
    BY <1>0, <2>1, <2>2 DEF BaseHooks
  <2>5. \A fd \in Fds : t.epoll[fd].slot = 2 => fd = ControlFd
    BY DEF Calmer
  <2> QED BY <2>3, <2>4, <2>5 DEF BaseHooks
<1>2. HookOfHandler(t)
  <2>1. \A i \in 3 .. Len(s.hooks) : t.hooks[i].user = s.hooks[i].user /\ s.hooks[i].user \in Connections
    BY <1>0 DEF BaseHooks, Calmer
  <2>2. ASSUME NEW i \in 3 .. Len(t.hooks)
        PROVE  /\ t.hooks[i].closing => t.h[t.hooks[i].user].st = "freed"
               /\ ~t.hooks[i].closing => /\ Opened(t, t.hooks[i].user)
                                         /\ t.h[t.hooks[i].user].fd = t.hooks[i].fd
    <3>1. i \in 3 .. Len(s.hooks) /\ i \in 1 .. Len(s.hooks)
      BY <1>0
    <3> QED BY <2>1, <3>1, SMTT(30) DEF HookOfHandler, Calmer
  <2>3. \A k \in Connections : Opened(t, k) => \E i \in 3 .. Len(t.hooks) : t.hooks[i].user = k
    BY <2>1, <1>0 DEF HookOfHandler, Calmer
  <2> QED BY <2>2, <2>3 DEF HookOfHandler
<1>3. FdsApart(t)
  BY DEF FdsApart, Calmer
<1>4. Alone(t)
  <2> SUFFICES ASSUME NEW i \in 3 .. Len(t.hooks), NEW k, k = t.hooks[i].user,
                      Opened(t, k), t.hooks[i].pending \/ t.c[k].channel # -1
               PROVE  Own(t, k)
    BY DEF Alone
  <2>1. i \in 3 .. Len(s.hooks) /\ i \in 1 .. Len(s.hooks)
    BY <1>0
  <2>2. k = s.hooks[i].user /\ k \in Connections
    BY <2>1, <1>0 DEF BaseHooks, Calmer
  <2>3. Opened(s, k) /\ (s.hooks[i].pending \/ s.c[k].channel # -1 \/ Own(s, k))
    BY <2>1, <2>2 DEF Calmer
  <2>4. Own(s, k)
    BY <2>1, <2>2, <2>3 DEF Alone
  <2> QED BY <2>2, <2>4, OwnKept
<1>5. WaitsClean(t)
  BY <1>0 DEF WaitsClean, Calmer
<1> QED BY <1>1, <1>2, <1>3, <1>4, <1>5

(* Being heard depends on the hooks, the registrations and the queues      *)
(* only.                                                                   *)
LEMMA HeardFrame ==
  ASSUME NEW s \in Memory, NEW t \in Memory, BaseHooks(s), Heard(s), t.epoll = s.epoll,
         Len(t.hooks) = Len(s.hooks),
         \A i \in 1 .. Len(s.hooks) :
           /\ t.hooks[i].fd = s.hooks[i].fd /\ t.hooks[i].user = s.hooks[i].user
           /\ t.hooks[i].closing = s.hooks[i].closing /\ t.hooks[i].wanted = s.hooks[i].wanted,
         \A k \in Connections : (t.h[k].out = <<>>) <=> (s.h[k].out = <<>>)
  PROVE  Heard(t)
<1>0. Len(s.hooks) \in Nat
  BY LenProperties DEF Memory
<1>1. \A i \in 3 .. Len(s.hooks) : i \in 1 .. Len(s.hooks) /\ s.hooks[i].user \in Connections
  BY <1>0 DEF BaseHooks
<1>2. HeardReg(t)
  BY DEF Heard, HeardReg
<1>4. HeardWant(t)
  BY <1>1 DEF Heard, HeardWant
<1> QED BY <1>2, <1>4 DEF Heard

(* Everything but the hooks and their registrations is the same. *)
Others(s, t) == /\ t.h = s.h /\ t.c = s.c /\ t.serialOut = s.serialOut /\ t.got = s.got
                /\ t.last = s.last /\ t.status = s.status /\ t.phase = s.phase

(* Slot i now wants the events w, in the array and, if it was registered,  *)
(* in epoll.                                                               *)
Turned(s, t, i, w) ==
  /\ t \in Memory /\ Others(s, t)
  /\ t.hooks = [s.hooks EXCEPT ![i] = [s.hooks[i] EXCEPT !.wanted = w]]
  /\ Len(t.hooks) = Len(s.hooks)
  /\ \A e \in Fds : t.epoll[e] = s.epoll[e] \/ (e = s.hooks[i].fd /\ t.epoll[e] = [wanted |-> w, slot |-> i])
  /\ s.epoll[s.hooks[i].fd] = [wanted |-> s.hooks[i].wanted, slot |-> i] =>
       t.epoll[s.hooks[i].fd] = [wanted |-> w, slot |-> i]

(* looper_find finds the only hook with the fd. *)
LEMMA FindSlot ==
  ASSUME NEW s, NEW fd, NEW i \in Nat, SlotsOf(s, fd) = {i}
  PROVE  looper_find(s, fd) = i
BY DEF looper_find

(* the effect of reprogramming *)
LEMMA Reprogrammed ==
  ASSUME NEW s \in Memory, NEW i \in 1 .. Len(s.hooks), NEW w \in SUBSET Ev, NEW s1,
         s1 = [s EXCEPT !.hooks[i].wanted = w]
  PROVE  Turned(s, Reprogram(s1, s.hooks[i].fd, i), i, w)
<1> DEFINE fd == s.hooks[i].fd
           hook == [s.hooks[i] EXCEPT !.wanted = w]
<1>0. /\ s.hooks \in Seq(HookSet) /\ DOMAIN s.hooks = 1 .. Len(s.hooks) /\ i \in Nat \ {0}
      /\ s.hooks[i] \in HookSet
  BY LenProperties, ElementOfSeq DEF Memory
<1>1. hook \in HookSet /\ fd \in Fds /\ hook.wanted = w
  BY <1>0 DEF HookSet
<1> DEFINE hooks == [s.hooks EXCEPT ![i] = hook]
<1>2. hooks \in Seq(HookSet) /\ Len(hooks) = Len(s.hooks)
  BY <1>0, <1>1, ExceptSeq
<1>3. s1 = [s EXCEPT !.hooks = hooks]
  BY <1>0 DEF Memory
<1>4. s1 \in Memory /\ s1.hooks = hooks /\ s1.epoll = s.epoll /\ Others(s, s1)
  <2> HIDE DEF hooks
  <2> QED BY <1>2, <1>3 DEF Memory, Others
<1>5. s1.hooks[i].wanted = w
  BY <1>4, <1>1, <1>0
<1>6. CASE s.epoll[fd].slot = 0
  <2>1. Reprogram(s1, fd, i) = s1
    BY <1>4, <1>6 DEF Reprogram, Registered
  <2>2. s.epoll[fd] # [wanted |-> s.hooks[i].wanted, slot |-> i]
    BY <1>6, <1>0
  <2> QED BY <2>1, <2>2, <1>4, <1>2 DEF Turned
<1>7. CASE s.epoll[fd].slot # 0
  <2> DEFINE reg == [wanted |-> w, slot |-> i]
  <2>1. Reprogram(s1, fd, i) = [s1 EXCEPT !.epoll[fd] = reg]
    BY <1>4, <1>5, <1>7 DEF Reprogram, Registered
  <2>2. reg \in Registrations
    BY <1>0 DEF Registrations
  <2> DEFINE epoll == [s.epoll EXCEPT ![fd] = reg]
  <2>3. epoll \in [Fds -> Registrations] /\ epoll[fd] = reg /\ \A e \in Fds : e # fd => epoll[e] = s.epoll[e]
    <3> HIDE DEF reg, fd
    <3> QED BY <2>2, <1>1 DEF Memory
  <2>4. [s1 EXCEPT !.epoll[fd] = reg] = [s1 EXCEPT !.epoll = epoll]
    BY <1>4
  <2> DEFINE t == [s1 EXCEPT !.epoll = epoll]
  <2>5. t \in Memory /\ t.hooks = hooks /\ t.epoll = epoll /\ Others(s, t)
    <3> HIDE DEF hooks, epoll
    <3> QED BY <1>4, <2>3 DEF Memory, Others
  <2> QED BY <2>1, <2>3, <2>4, <2>5, <1>2 DEF Turned
<1> QED BY <1>6, <1>7

(* looper_enable turns the event on, in the hook and in epoll. *)
LEMMA Enabled ==
  ASSUME NEW s \in Memory, NEW i \in 1 .. Len(s.hooks), NEW ev \in Ev,
         looper_find(s, s.hooks[i].fd) = i
  PROVE  Turned(s, looper_enable(s, s.hooks[i].fd, ev), i, s.hooks[i].wanted \cup {ev})
<1> DEFINE fd == s.hooks[i].fd
           w == s.hooks[i].wanted \cup {ev}
<1>0. /\ s.hooks \in Seq(HookSet) /\ DOMAIN s.hooks = 1 .. Len(s.hooks) /\ i \in Nat \ {0}
      /\ s.hooks[i] \in HookSet
  BY LenProperties, ElementOfSeq DEF Memory
<1>1. looper_find(s, fd) = i
  OBVIOUS
<1>2. w \in SUBSET Ev
  BY <1>0 DEF HookSet
<1>3. CASE ev \in s.hooks[i].wanted
  <2>1. w = s.hooks[i].wanted
    BY <1>3
  <2>2. [s.hooks[i] EXCEPT !.wanted = w] = s.hooks[i]
    BY <2>1, <1>0 DEF HookSet
  <2>3. [s.hooks EXCEPT ![i] = s.hooks[i]] = s.hooks
    BY <1>0
  <2>4. looper_enable(s, fd, ev) = s
    BY <1>1, <1>3 DEF looper_enable
  <2> QED BY <2>1, <2>2, <2>3, <2>4 DEF Turned, Others
<1>4. CASE ev \notin s.hooks[i].wanted
  <2> DEFINE s1 == [s EXCEPT !.hooks[i].wanted = @ \cup {ev}]
  <2>1. looper_enable(s, fd, ev) = Reprogram(s1, fd, i)
    BY <1>1, <1>4 DEF looper_enable
  <2>2. s1 = [s EXCEPT !.hooks[i].wanted = w]
    OBVIOUS
  <2> HIDE DEF s1, w
  <2>3. Turned(s, Reprogram(s1, s.hooks[i].fd, i), i, w)
    BY <2>2, <1>2, Reprogrammed, Zenon
  <2> QED BY <2>1, <2>3 DEF w
<1> QED BY <1>3, <1>4

(* looper_disable turns it off. *)
LEMMA Disabled ==
  ASSUME NEW s \in Memory, NEW i \in 1 .. Len(s.hooks), NEW ev \in Ev,
         looper_find(s, s.hooks[i].fd) = i
  PROVE  Turned(s, looper_disable(s, s.hooks[i].fd, ev), i, s.hooks[i].wanted \ {ev})
<1> DEFINE fd == s.hooks[i].fd
           w == s.hooks[i].wanted \ {ev}
<1>0. /\ s.hooks \in Seq(HookSet) /\ DOMAIN s.hooks = 1 .. Len(s.hooks) /\ i \in Nat \ {0}
      /\ s.hooks[i] \in HookSet
  BY LenProperties, ElementOfSeq DEF Memory
<1>1. looper_find(s, fd) = i
  OBVIOUS
<1>2. w \in SUBSET Ev
  BY <1>0 DEF HookSet
<1>3. CASE ev \notin s.hooks[i].wanted
  <2>1. w = s.hooks[i].wanted
    BY <1>3
  <2>2. [s.hooks[i] EXCEPT !.wanted = w] = s.hooks[i]
    BY <2>1, <1>0 DEF HookSet
  <2>3. [s.hooks EXCEPT ![i] = s.hooks[i]] = s.hooks
    BY <1>0
  <2>4. looper_disable(s, fd, ev) = s
    BY <1>1, <1>3 DEF looper_disable
  <2> QED BY <2>1, <2>2, <2>3, <2>4 DEF Turned, Others
<1>4. CASE ev \in s.hooks[i].wanted
  <2> DEFINE s1 == [s EXCEPT !.hooks[i].wanted = @ \ {ev}]
  <2>1. looper_disable(s, fd, ev) = Reprogram(s1, fd, i)
    BY <1>1, <1>4 DEF looper_disable
  <2>2. s1 = [s EXCEPT !.hooks[i].wanted = w]
    OBVIOUS
  <2> HIDE DEF s1, w
  <2>3. Turned(s, Reprogram(s1, s.hooks[i].fd, i), i, w)
    BY <2>2, <1>2, Reprogrammed, Zenon
  <2> QED BY <2>1, <2>3 DEF w
<1> QED BY <1>3, <1>4

(* Slot j still belongs to the same handler, in the same state. *)
SameHook(s, t, j) ==
  /\ t.hooks[j].fd = s.hooks[j].fd /\ t.hooks[j].user = s.hooks[j].user
  /\ t.hooks[j].closing = s.hooks[j].closing /\ t.hooks[j].pending = s.hooks[j].pending

(* Slot j still asks for the same events. *)
SameWanted(s, t, j) == t.hooks[j].wanted = s.hooks[j].wanted

(* Turning events on or off changes what one slot wants and nothing else   *)
(* of any hook.                                                            *)
LEMMA TurnedHook ==
  ASSUME NEW s \in Memory, NEW t, NEW i \in 1 .. Len(s.hooks), NEW w, Turned(s, t, i, w)
  PROVE  \A j \in 1 .. Len(s.hooks) :
           /\ SameHook(s, t, j)
           /\ j = i => t.hooks[j].wanted = w
           /\ j = i \/ SameWanted(s, t, j)
<1>0. /\ s.hooks \in Seq(HookSet) /\ DOMAIN s.hooks = 1 .. Len(s.hooks)
      /\ \A j \in 1 .. Len(s.hooks) : s.hooks[j] \in HookSet
  BY LenProperties, ElementOfSeq DEF Memory
<1>1. \A j \in 1 .. Len(s.hooks) :
        t.hooks[j] = IF j = i THEN [s.hooks[i] EXCEPT !.wanted = w] ELSE s.hooks[j]
  BY <1>0 DEF Turned
<1> QED BY <1>0, <1>1 DEF HookSet, SameHook, SameWanted

(* The hooks are the same but for the events they ask for or were given. *)
HooksAlike(s, t) ==
  /\ Len(t.hooks) = Len(s.hooks)
  /\ \A j \in 1 .. Len(s.hooks) : SameHook(s, t, j)

(* It keeps the looper and the handlers fitting together. *)
LEMMA TurnedKeeps ==
  ASSUME NEW s \in Memory, HS(s), NEW t, NEW i \in 1 .. Len(s.hooks), NEW w, Turned(s, t, i, w),
         i = 2 => s.hooks[i].fd = ControlFd
  PROVE  HS(t) /\ HooksAlike(s, t)
<1>1. HooksAlike(s, t) /\ t \in Memory
  BY TurnedHook DEF HooksAlike, Turned
<1>2. \A e \in Fds : t.epoll[e].slot = 2 => e = ControlFd
  <2> SUFFICES ASSUME NEW e \in Fds, t.epoll[e].slot = 2 PROVE e = ControlFd
    OBVIOUS
  <2>1. CASE t.epoll[e] = s.epoll[e]
    BY <2>1 DEF HS, BaseHooks
  <2>2. CASE e = s.hooks[i].fd /\ t.epoll[e] = [wanted |-> w, slot |-> i]
    BY <2>2
  <2> QED BY <2>1, <2>2 DEF Turned
<1>3. Calmer(s, t)
  BY <1>1, <1>2 DEF Calmer, HooksAlike, SameHook, Turned, Others, Opened
<1> QED BY <1>1, <1>3, CalmerKeeps

(* It keeps the registrations right. *)
LEMMA TurnedHeard ==
  ASSUME NEW s \in Memory, BaseHooks(s), HeardReg(s), NEW t, NEW i \in 1 .. Len(s.hooks), NEW w, Turned(s, t, i, w),
         ~s.hooks[i].closing
  PROVE  HeardReg(t)
<1>0. /\ s.hooks \in Seq(HookSet) /\ DOMAIN s.hooks = 1 .. Len(s.hooks)
      /\ \A j \in 1 .. Len(s.hooks) : s.hooks[j] \in HookSet
  BY LenProperties, ElementOfSeq DEF Memory
<1>1. \A j, k \in 1 .. Len(t.hooks) : t.hooks[j].fd = t.hooks[k].fd => j = k
  BY TurnedHook DEF HeardReg, Turned, SameHook
<1>2. ASSUME NEW j \in 1 .. Len(t.hooks)
      PROVE  /\ t.hooks[j].closing => t.epoll[t.hooks[j].fd].slot = 0
             /\ ~t.hooks[j].closing =>
                  t.epoll[t.hooks[j].fd] = [wanted |-> t.hooks[j].wanted, slot |-> j]
  <2>0. j \in 1 .. Len(s.hooks)
    BY DEF Turned
  <2>1. CASE j = i
    BY <2>0, <2>1, TurnedHook DEF HeardReg, Turned, SameHook
  <2>2. CASE j # i
    <3>1. s.hooks[j].fd # s.hooks[i].fd /\ s.hooks[j].fd \in Fds
      BY <2>0, <2>2, <1>0 DEF HeardReg, HookSet
    <3>2. t.epoll[s.hooks[j].fd] = s.epoll[s.hooks[j].fd]
      BY <3>1 DEF Turned
    <3>3. /\ t.hooks[j].fd = s.hooks[j].fd /\ t.hooks[j].closing = s.hooks[j].closing
          /\ t.hooks[j].wanted = s.hooks[j].wanted
      <4>1. SameHook(s, t, j)
        BY <2>0, TurnedHook, Zenon
      <4>2. SameWanted(s, t, j)
        BY <2>0, <2>2, TurnedHook, Zenon
      <4> QED BY <4>1, <4>2 DEF SameHook, SameWanted
    <3> QED BY <3>2, <3>3, <2>0 DEF HeardReg
  <2> QED BY <2>1, <2>2
<1> QED BY <1>1, <1>2 DEF HeardReg

(* The effect of serial_send of frame f. *)
Sent(s, t, f) ==
  /\ t \in Memory /\ HS(t) /\ (Heard(s) => Heard(t)) /\ HooksAlike(s, t)
  /\ t.serialOut = Append(s.serialOut, f)
  /\ t.h = s.h /\ t.c = s.c /\ t.got = s.got
  /\ t.last = s.last /\ t.status = s.status /\ t.phase = s.phase

(* The serial line has slot 1 and no other. *)
LEMMA SerialSlot ==
  ASSUME NEW s \in Memory, BaseHooks(s)
  PROVE  SlotsOf(s, SerialFd) = {1} /\ s.hooks[1].fd = SerialFd /\ 1 \in 1 .. Len(s.hooks)
<1>0. DOMAIN s.hooks = 1 .. Len(s.hooks) /\ Len(s.hooks) \in Nat
  BY LenProperties DEF Memory
<1>1. \A i \in 1 .. Len(s.hooks) : s.hooks[i].fd = SerialFd <=> i = 1
  <2> TAKE i \in 1 .. Len(s.hooks)
  <2>1. CASE i = 1
    BY <2>1 DEF BaseHooks
  <2>2. CASE i = 2
    BY <2>2 DEF BaseHooks, SerialFd, ControlFd
  <2>3. CASE i \in 3 .. Len(s.hooks)
    BY <2>3 DEF BaseHooks
  <2> QED BY <2>1, <2>2, <2>3, <1>0
<1> QED BY <1>0, <1>1 DEF SlotsOf, BaseHooks

(* serial_send queues the frame and does nothing else to handlers and      *)
(* clients.                                                                *)
LEMMA SerialSend ==
  ASSUME NEW s \in Memory, HS(s), NEW f \in Frames
  PROVE  Sent(s, serial_send(s, f), f)
<1> DEFINE s1 == [s EXCEPT !.serialOut = Append(s.serialOut, f)]
<1>0. Append(s.serialOut, f) \in Seq(Frames)
  BY AppendProperties DEF Memory
<1>1. /\ s1 \in Memory /\ s1.hooks = s.hooks /\ s1.epoll = s.epoll
      /\ s1.serialOut = Append(s.serialOut, f)
      /\ s1.h = s.h /\ s1.c = s.c /\ s1.got = s.got
      /\ s1.last = s.last /\ s1.status = s.status /\ s1.phase = s.phase
  BY <1>0 DEF Memory
<1>2. HooksAlike(s, s1)
  BY <1>1 DEF HooksAlike, SameHook
<1> HIDE DEF s1
<1>3. Calmer(s, s1)
  BY <1>1, <1>2 DEF Calmer, HooksAlike, SameHook, HS, BaseHooks, Opened
<1>4. HS(s1)
  BY <1>1, <1>3, CalmerKeeps
<1>5. Heard(s) => Heard(s1)
  BY <1>1 DEF Heard, HeardReg, HeardWant
<1>6. CASE s.serialOut # <<>>
  <2>1. serial_send(s, f) = s1
    BY <1>6 DEF serial_send, s1
  <2> QED BY <2>1, <1>1, <1>2, <1>4, <1>5 DEF Sent
<1>7. CASE s.serialOut = <<>>
  <2> DEFINE t == looper_enable(s1, SerialFd, "out")
             w == s1.hooks[1].wanted \cup {"out"}
  <2>1. serial_send(s, f) = t
    BY <1>7 DEF serial_send, s1
  <2>2. SlotsOf(s1, SerialFd) = {1} /\ s1.hooks[1].fd = SerialFd /\ 1 \in 1 .. Len(s1.hooks)
    BY <1>1, <1>4, SerialSlot DEF HS
  <2>3. Turned(s1, t, 1, w)
    <3>1. looper_find(s1, s1.hooks[1].fd) = 1
      BY <2>2, FindSlot
    <3>2. Turned(s1, looper_enable(s1, s1.hooks[1].fd, "out"), 1, w)
      BY <1>1, <2>2, <3>1, Enabled DEF Ev
    <3> QED BY <2>2, <3>2
  <2> HIDE DEF t, w
  <2>4. HS(t) /\ HooksAlike(s1, t)
    <3>1. 1 = 2 => s1.hooks[1].fd = ControlFd
      OBVIOUS
    <3> QED BY <3>1, <1>1, <1>4, <2>2, <2>3, TurnedKeeps, Zenon
  <2>5. ASSUME Heard(s1) PROVE Heard(t)
    <3>1. HeardReg(t)
      BY <2>3, <2>5, <1>1, <1>4, <2>2, TurnedHeard DEF Heard, HS, BaseHooks
    <3>2. \A i \in 3 .. Len(t.hooks) : i \in 1 .. Len(s1.hooks) /\ i # 1 /\ i \in 3 .. Len(s1.hooks)
      <4>1. Len(t.hooks) = Len(s1.hooks) /\ Len(s1.hooks) \in Nat
        BY <2>3, <1>1, LenProperties DEF Turned, Memory
      <4> QED BY <4>1
    <3>3. \A i \in 3 .. Len(t.hooks) : /\ t.hooks[i].user = s1.hooks[i].user
               /\ t.hooks[i].closing = s1.hooks[i].closing /\ t.hooks[i].wanted = s1.hooks[i].wanted
      <4> TAKE i \in 3 .. Len(t.hooks)
      <4>1. SameHook(s1, t, i)
        BY <3>2, <1>1, <2>2, <2>3, TurnedHook, Zenon
      <4>2. SameWanted(s1, t, i)
        BY <3>2, <1>1, <2>2, <2>3, TurnedHook, Zenon
      <4> QED BY <4>1, <4>2 DEF SameHook, SameWanted
    <3>4. t.h = s1.h
      BY <2>3 DEF Turned, Others
    <3>5. HeardWant(t)
      BY <3>2, <3>3, <3>4, <2>5 DEF Heard, HeardWant
    <3> QED BY <3>1, <3>5 DEF Heard
  <2>6. t \in Memory /\ Others(s1, t)
    BY <2>3 DEF Turned
  <2>7. HooksAlike(s, t)
    BY <2>4, <1>2 DEF HooksAlike, SameHook
  <2> QED BY <2>1, <2>4, <2>5, <2>6, <2>7, <1>5, <1>1 DEF Sent, Others
<1> QED BY <1>6, <1>7

----------------------------------------------------------------------------
(* qemud: FDHandlers and Clients. *)

(* Slot i is the one hook with the fd of connection k. *)
SlotOf(s, k, i) == /\ i \in 1 .. Len(s.hooks) /\ i # 1 /\ i # 2 /\ i \in 3 .. Len(s.hooks)
                   /\ s.hooks[i].user = k /\ ~s.hooks[i].closing
                   /\ s.hooks[i].fd = s.h[k].fd /\ s.h[k].fd \in Fds
                   /\ s.h[k].fd # SerialFd /\ s.h[k].fd # ControlFd
                   /\ SlotsOf(s, s.h[k].fd) = {i}

(* An open handler that owns its fd has exactly one hook. *)
LEMMA HandlerSlot ==
  ASSUME NEW s \in Memory, HS(s), NEW k \in Connections, Opened(s, k), Own(s, k)
  PROVE  \E i \in Nat : SlotOf(s, k, i)
<1>0. /\ s.hooks \in Seq(HookSet) /\ DOMAIN s.hooks = 1 .. Len(s.hooks) /\ Len(s.hooks) \in Nat
      /\ \A j \in 1 .. Len(s.hooks) : s.hooks[j] \in HookSet
  BY LenProperties, ElementOfSeq DEF Memory
<1>1. PICK i \in 3 .. Len(s.hooks) : s.hooks[i].user = k
  BY DEF HS, HookOfHandler
<1>2. i \in 1 .. Len(s.hooks) /\ i # 1 /\ i # 2 /\ i \in Nat
  BY <1>0
<1>3. ~s.hooks[i].closing /\ s.hooks[i].fd = s.h[k].fd
  BY <1>1 DEF HS, HookOfHandler, Opened
<1>4. s.h[k].fd \in Fds /\ s.h[k].fd # SerialFd /\ s.h[k].fd # ControlFd
  BY <1>0, <1>1, <1>2, <1>3 DEF HookSet, HS, BaseHooks
<1>5. ASSUME NEW j \in 1 .. Len(s.hooks), s.hooks[j].fd = s.h[k].fd
      PROVE  j = i
  <2>1. j # 1 /\ j # 2
    BY <1>4, <1>5 DEF HS, BaseHooks
  <2>2. j \in 3 .. Len(s.hooks) /\ s.hooks[j].user = k
    BY <2>1, <1>0, <1>5 DEF Own
  <2> QED BY <1>1, <2>2 DEF HS, BaseHooks
<1>6. SlotsOf(s, s.h[k].fd) = {i}
  BY <1>0, <1>2, <1>3, <1>5 DEF SlotsOf
<1> QED BY <1>1, <1>2, <1>3, <1>4, <1>6 DEF SlotOf

(* Only the packet queue of handler k changed. *)
OutSet(s, k, q, t) ==
  /\ t \in Memory /\ t.hooks = s.hooks /\ t.epoll = s.epoll /\ HooksAlike(s, t)
  /\ t.h \in [Connections -> Handlers]
  /\ \A j \in Connections : t.h[j].st = s.h[j].st /\ t.h[j].fd = s.h[j].fd /\ t.h[j].notify = s.h[j].notify
  /\ \A j \in Connections \ {k} : t.h[j].out = s.h[j].out
  /\ t.h[k].out = q
  /\ t.c = s.c /\ t.got = s.got /\ t.serialOut = s.serialOut
  /\ t.last = s.last /\ t.status = s.status /\ t.phase = s.phase
  /\ HS(s) => HS(t)

(* Assigning a packet queue changes nothing else. *)
LEMMA SetOut ==
  ASSUME NEW s \in Memory, NEW k \in Connections, NEW q \in Seq(Connections)
  PROVE  OutSet(s, k, q, [s EXCEPT !.h[k].out = q])
<1> DEFINE hk == [s.h[k] EXCEPT !.out = q]
<1>0. s.h \in [Connections -> Handlers] /\ s.h[k] \in Handlers
  BY DEF Memory
<1>1. /\ hk \in Handlers /\ hk.st = s.h[k].st /\ hk.fd = s.h[k].fd /\ hk.notify = s.h[k].notify
      /\ hk.out = q
  BY <1>0 DEF Handlers
<1> DEFINE hh == [s.h EXCEPT ![k] = hk]
           t == [s EXCEPT !.h = hh]
<1>2. [s EXCEPT !.h[k].out = q] = t
  BY <1>0
<1>3. hh \in [Connections -> Handlers] /\ hh[k] = hk /\ \A j \in Connections \ {k} : hh[j] = s.h[j]
  <2> HIDE DEF hk
  <2> QED BY <1>0, <1>1
<1>4. /\ t \in Memory /\ t.hooks = s.hooks /\ t.epoll = s.epoll /\ t.h = hh
      /\ t.c = s.c /\ t.got = s.got /\ t.serialOut = s.serialOut
      /\ t.last = s.last /\ t.status = s.status /\ t.phase = s.phase
  <2> HIDE DEF hh
  <2> QED BY <1>3 DEF Memory
<1> HIDE DEF hh, t, hk
<1>5. HooksAlike(s, t)
  BY <1>4 DEF HooksAlike, SameHook
<1>6. \A j \in Connections : t.h[j].st = s.h[j].st /\ t.h[j].fd = s.h[j].fd /\ t.h[j].notify = s.h[j].notify
  BY <1>1, <1>3, <1>4
<1>7. ASSUME HS(s) PROVE HS(t)
  <2>1. Calmer(s, t)
    BY <1>4, <1>5, <1>6, <1>7 DEF Calmer, HooksAlike, SameHook, Opened, HS, BaseHooks
  <2> QED BY <2>1, <1>4, <1>7, CalmerKeeps
<1>8. \A j \in Connections \ {k} : t.h[j].out = s.h[j].out
  BY <1>3, <1>4
<1>9. t.h[k].out = q /\ t.h \in [Connections -> Handlers]
  BY <1>1, <1>3, <1>4
<1> QED BY <1>2, <1>4, <1>5, <1>6, <1>7, <1>8, <1>9 DEF OutSet

(* The queue of handler k is q, and its hook asks for output accordingly. *)
Queue(s, t, k, q) ==
  /\ t \in Memory /\ HS(t) /\ (Heard(s) => Heard(t)) /\ HooksAlike(s, t)
  /\ \A j \in Connections : t.h[j].st = s.h[j].st /\ t.h[j].fd = s.h[j].fd /\ t.h[j].notify = s.h[j].notify
  /\ t.h[k].out = q
  /\ t.c = s.c /\ t.got = s.got /\ t.serialOut = s.serialOut
  /\ t.last = s.last /\ t.status = s.status /\ t.phase = s.phase

(* nothing needs to be turned *)
LEMMA QueueSame ==
  ASSUME NEW s \in Memory, HS(s), NEW k \in Connections, NEW q, NEW t, OutSet(s, k, q, t),
         q = <<>> <=> s.h[k].out = <<>>
  PROVE  Queue(s, t, k, q)
<1>1. ASSUME Heard(s) PROVE Heard(t)
  <2>1. \A j \in Connections : (t.h[j].out = <<>>) <=> (s.h[j].out = <<>>)
    BY DEF OutSet
  <2> QED BY <1>1, <2>1, HeardFrame DEF OutSet, HS
<1> QED BY <1>1 DEF Queue, OutSet

(* A queue that becomes empty or nonempty needs its hook turned. *)
LEMMA QueueTurned ==
  ASSUME NEW s \in Memory, HS(s), NEW k \in Connections, NEW q, NEW s1, OutSet(s, k, q, s1),
         NEW i \in Nat, SlotOf(s, k, i), NEW t, NEW w, Turned(s1, t, i, w),
         "in" \in w <=> "in" \in s.hooks[i].wanted,
         "out" \in w <=> q # <<>>
  PROVE  Queue(s, t, k, q)
<1>0. /\ s1 \in Memory /\ HS(s1) /\ i \in 1 .. Len(s1.hooks) /\ i # 2 /\ ~s1.hooks[i].closing
      /\ s1.hooks = s.hooks /\ s1.epoll = s.epoll /\ HooksAlike(s, s1)
  BY DEF OutSet, SlotOf
<1>1. HS(t) /\ HooksAlike(s1, t)
  BY <1>0, TurnedKeeps, Zenon
<1>2. t \in Memory /\ Others(s1, t) /\ Len(t.hooks) = Len(s1.hooks)
  BY DEF Turned
<1>3. HooksAlike(s, t)
  BY <1>0, <1>1 DEF HooksAlike, SameHook
<1>4. ASSUME Heard(s) PROVE Heard(t)
  <2>1. HeardReg(s1)
    BY <1>4, <1>0 DEF Heard, HeardReg
  <2>2. BaseHooks(s1)
    BY <1>0 DEF HS
  <2>3. HeardReg(t)
    BY <1>0, <2>1, <2>2, TurnedHeard, Zenon
  <2>4. ASSUME NEW j \in 3 .. Len(t.hooks), ~t.hooks[j].closing
        PROVE  /\ "in" \in t.hooks[j].wanted
               /\ "out" \in t.hooks[j].wanted <=> t.h[t.hooks[j].user].out # <<>>
    <3>0. j \in 1 .. Len(s1.hooks) /\ j \in 3 .. Len(s.hooks)
      <4>1. Len(s1.hooks) \in Nat
        BY <1>0, LenProperties DEF Memory
      <4> QED BY <4>1, <1>2, <1>0
    <3>1. SameHook(s1, t, j) /\ SameHook(s, s1, j)
      BY <3>0, <1>0, <1>1 DEF HooksAlike
    <3>2. t.h = s1.h /\ s.hooks[j].user \in Connections
      BY <1>2, <3>0 DEF Others, HS, BaseHooks
    <3>3. ~s.hooks[j].closing /\ t.hooks[j].user = s.hooks[j].user
      BY <3>1, <2>4 DEF SameHook
    <3>4. /\ "in" \in s.hooks[j].wanted
          /\ "out" \in s.hooks[j].wanted <=> s.h[s.hooks[j].user].out # <<>>
      BY <1>4, <3>0, <3>3 DEF Heard, HeardWant
    <3>5. CASE j = i
      <4>1. t.hooks[j].wanted = w
        <5>1. s1.hooks \in Seq(HookSet) /\ DOMAIN s1.hooks = 1 .. Len(s1.hooks) /\ s1.hooks[i] \in HookSet
          BY <1>0, LenProperties, ElementOfSeq DEF Memory
        <5>2. t.hooks[i] = [s1.hooks[i] EXCEPT !.wanted = w]
          BY <5>1, <1>0 DEF Turned
        <5> QED BY <5>1, <5>2, <3>5 DEF HookSet
      <4>2. t.hooks[j].user = k
        BY <3>3, <3>5 DEF SlotOf
      <4> QED BY <4>1, <4>2, <3>4, <3>5, <3>2 DEF OutSet
    <3>6. CASE j # i
      <4>1. SameWanted(s1, t, j)
        BY <3>0, <3>6, <1>0, TurnedHook, ZenonT(30)
      <4>2. s.hooks[j].user # k
        BY <3>6, <3>0 DEF SlotOf, HS, BaseHooks
      <4> QED BY <4>1, <4>2, <3>2, <3>3, <3>4, <1>0 DEF SameWanted, OutSet
    <3> QED BY <3>5, <3>6
  <2> QED BY <2>3, <2>4 DEF Heard, HeardWant
<1> QED BY <1>1, <1>2, <1>3, <1>4 DEF Queue, OutSet, Others

(* fdhandler_enqueue appends the packet and asks for output. *)
LEMMA Enqueue ==
  ASSUME NEW s \in Memory, HS(s), NEW k \in Connections, Opened(s, k), Own(s, k),
         NEW p \in Connections
  PROVE  Queue(s, fdhandler_enqueue(s, k, p), k, Append(s.h[k].out, p))
<1> DEFINE q == Append(s.h[k].out, p)
           s1 == [s EXCEPT !.h[k].out = q]
<1>0. s.h[k].out \in Seq(Connections)
  BY DEF Memory, Handlers
<1>1. q \in Seq(Connections) /\ q # <<>>
  BY <1>0, AppendProperties
<1> HIDE DEF q
<1>2. OutSet(s, k, q, s1)
  BY <1>1, SetOut
<1>3. s1 = [s EXCEPT !.h[k].out = Append(@, p)]
  BY DEF q
<1> HIDE DEF s1
<1>4. CASE s.h[k].out # <<>>
  <2>1. fdhandler_enqueue(s, k, p) = s1
    BY <1>3, <1>4 DEF fdhandler_enqueue
  <2> QED BY <1>1, <1>2, <1>4, <2>1, QueueSame DEF q
<1>5. CASE s.h[k].out = <<>>
  <2>1. PICK i \in Nat : SlotOf(s, k, i)
    BY HandlerSlot
  <2> DEFINE t == looper_enable(s1, s.h[k].fd, "out")
             w == s1.hooks[i].wanted \cup {"out"}
  <2>2. fdhandler_enqueue(s, k, p) = t
    BY <1>3, <1>5 DEF fdhandler_enqueue
  <2>3. /\ s1 \in Memory /\ i \in 1 .. Len(s1.hooks) /\ s1.hooks[i].fd = s.h[k].fd
        /\ looper_find(s1, s1.hooks[i].fd) = i /\ s1.hooks = s.hooks
    BY <1>2, <2>1, FindSlot DEF OutSet, SlotOf, SlotsOf
  <2>4. Turned(s1, looper_enable(s1, s1.hooks[i].fd, "out"), i, w)
    BY <2>3, Enabled DEF Ev
  <2>5. Turned(s1, t, i, w)
    BY <2>4, <2>3
  <2>6. ("in" \in w <=> "in" \in s.hooks[i].wanted) /\ ("out" \in w <=> q # <<>>)
    BY <1>1, <2>3
  <2> HIDE DEF t, w
  <2>7. Queue(s, t, k, q)
    BY <1>2, <2>1, <2>5, <2>6, QueueTurned
  <2> QED BY <2>2, <2>7 DEF q
<1> QED BY <1>4, <1>5

(* a packet is written *)
Written(s, k) ==
  LET s1 == [s EXCEPT !.h[k].out = Tail(@)]
  IN IF s1.h[k].out = <<>> THEN looper_disable(s1, s.h[k].fd, "out") ELSE s1

(* Writing a packet takes it off the queue; after the last one output is   *)
(* no longer asked for.                                                    *)
LEMMA WriteOne ==
  ASSUME NEW s \in Memory, HS(s), NEW k \in Connections, Opened(s, k), Own(s, k),
         s.h[k].out # <<>>
  PROVE  Queue(s, Written(s, k), k, Tail(s.h[k].out))
<1> DEFINE q == Tail(s.h[k].out)
           s1 == [s EXCEPT !.h[k].out = q]
<1>0. s.h[k].out \in Seq(Connections)
  BY DEF Memory, Handlers
<1>1. q \in Seq(Connections)
  BY <1>0, HeadTailProperties
<1> HIDE DEF q
<1>2. OutSet(s, k, q, s1)
  BY <1>1, SetOut
<1>3. s1 = [s EXCEPT !.h[k].out = Tail(@)]
  BY DEF q
<1>a. s1.h[k].out = q
  BY <1>2 DEF OutSet
<1> HIDE DEF s1
<1>4. CASE q # <<>>
  <2>1. Written(s, k) = s1
    BY <1>3, <1>4, <1>a DEF Written
  <2> QED BY <1>1, <1>2, <1>4, <2>1, QueueSame DEF q
<1>5. CASE q = <<>>
  <2>1. PICK i \in Nat : SlotOf(s, k, i)
    BY HandlerSlot
  <2> DEFINE t == looper_disable(s1, s.h[k].fd, "out")
             w == s1.hooks[i].wanted \ {"out"}
  <2>2. Written(s, k) = t
    BY <1>3, <1>5, <1>a DEF Written
  <2>3. /\ s1 \in Memory /\ i \in 1 .. Len(s1.hooks) /\ s1.hooks[i].fd = s.h[k].fd
        /\ looper_find(s1, s1.hooks[i].fd) = i /\ s1.hooks = s.hooks
    BY <1>2, <2>1, FindSlot DEF OutSet, SlotOf, SlotsOf
  <2>4. Turned(s1, looper_disable(s1, s1.hooks[i].fd, "out"), i, w)
    BY <2>3, Disabled DEF Ev
  <2>5. Turned(s1, t, i, w)
    BY <2>4, <2>3
  <2>6. ("in" \in w <=> "in" \in s.hooks[i].wanted) /\ ("out" \in w <=> q # <<>>)
    BY <1>5, <2>3
  <2> HIDE DEF t, w
  <2>7. Queue(s, t, k, q)
    BY <1>2, <2>1, <2>5, <2>6, QueueTurned
  <2> QED BY <2>2, <2>7 DEF q
<1> QED BY <1>4, <1>5

(* Only the Client object of connection k changed. *)
ClientSet(s, k, r, t) ==
  /\ t \in Memory /\ HS(t) /\ (Heard(s) => Heard(t)) /\ HooksAlike(s, t)
  /\ t.h = s.h /\ t.c = [s.c EXCEPT ![k] = r] /\ t.serialOut = s.serialOut /\ t.got = s.got
  /\ t.last = s.last /\ t.status = s.status /\ t.phase = s.phase

(* Assigning a Client object keeps the looper's invariants when the client *)
(* already has a channel, gets none, or owns its fd.                       *)
LEMMA SetClient ==
  ASSUME NEW s \in Memory, HS(s), NEW k \in Connections, NEW r \in ClientObjects,
         r.channel = -1 \/ s.c[k].channel # -1 \/ Own(s, k)
  PROVE  ClientSet(s, k, r, [s EXCEPT !.c[k] = r])
<1> DEFINE cc == [s.c EXCEPT ![k] = r]
           t == [s EXCEPT !.c = cc]
<1>0. [s EXCEPT !.c[k] = r] = t
  OBVIOUS
<1>1. cc \in [Connections -> ClientObjects] /\ cc[k] = r /\ \A j \in Connections \ {k} : cc[j] = s.c[j]
  BY DEF Memory
<1>2. /\ t \in Memory /\ t.hooks = s.hooks /\ t.epoll = s.epoll /\ t.h = s.h
      /\ t.c = cc /\ t.got = s.got /\ t.serialOut = s.serialOut
      /\ t.last = s.last /\ t.status = s.status /\ t.phase = s.phase
  <2> HIDE DEF cc
  <2> QED BY <1>1 DEF Memory
<1>3. HooksAlike(s, t)
  BY <1>2 DEF HooksAlike, SameHook
<1>4. \A j \in Connections : t.c[j].channel = -1 \/ s.c[j].channel # -1 \/ Own(s, j)
  <2> HIDE DEF cc, t
  <2> TAKE j \in Connections
  <2>1. CASE j = k
    BY <2>1, <1>1, <1>2
  <2>2. CASE j # k
    BY <2>2, <1>1, <1>2
  <2> QED BY <2>1, <2>2
<1> HIDE DEF cc, t
<1>5. Calmer(s, t)
  BY <1>2, <1>3, <1>4 DEF Calmer, HooksAlike, SameHook, Opened, HS, BaseHooks
<1>6. HS(t)
  BY <1>2, <1>5, CalmerKeeps
<1>7. Heard(s) => Heard(t)
  BY <1>2 DEF Heard, HeardReg, HeardWant
<1>8. t.c = [s.c EXCEPT ![k] = r]
  BY <1>2 DEF cc
<1> QED BY <1>0, <1>2, <1>3, <1>6, <1>7, <1>8 DEF ClientSet

(* The hooks are the same but for the one of connection k, which may be    *)
(* closed.                                                                 *)
SameFds(s, t, k) ==
  /\ Len(t.hooks) = Len(s.hooks)
  /\ \A j \in 1 .. Len(s.hooks) :
       /\ t.hooks[j].fd = s.hooks[j].fd /\ t.hooks[j].user = s.hooks[j].user
       /\ t.hooks[j].pending = s.hooks[j].pending
       /\ s.hooks[j].user = k \/ t.hooks[j].closing = s.hooks[j].closing

(* A freed FDHandler. *)
HandlerGone == [st |-> "freed", fd |-> 0, out |-> <<>>, notify |-> FALSE]

(* Handler k was shut down: freed, or kept until its packets are written. *)
Left(s, t, k) ==
  /\ t \in Memory /\ HS(t) /\ (Heard(s) => Heard(t)) /\ SameFds(s, t, k)
  /\ \A j \in Connections \ {k} : t.h[j] = s.h[j]
  /\ t.h[k].st \in {"closing", "freed"} /\ ~t.h[k].notify
  /\ t.h[k].st = "closing" => t.h[k].fd = s.h[k].fd
  /\ t.h[k].st = "freed" => t.h[k].out = <<>>
  /\ t.c = s.c /\ t.serialOut = s.serialOut /\ t.got = s.got
  /\ t.last = s.last /\ t.status = s.status /\ t.phase = s.phase

(* looper_del of an owned handler *)
LEMMA Deleted ==
  ASSUME NEW s \in Memory, NEW k \in Connections, NEW i \in Nat, SlotOf(s, k, i),
         s.h[k].st # "freed", NEW t, t = FreeHandler(s, k)
  PROVE  /\ t \in Memory
         /\ t.hooks = [s.hooks EXCEPT ![i] = [s.hooks[i] EXCEPT !.closing = TRUE]]
         /\ t.epoll = [s.epoll EXCEPT ![s.h[k].fd] = [wanted |-> {}, slot |-> 0]]
         /\ t.h = [s.h EXCEPT ![k] = HandlerGone]
         /\ t.c = s.c /\ t.serialOut = s.serialOut /\ t.got = s.got
         /\ t.last = s.last /\ t.status = s.status /\ t.phase = s.phase
<1> DEFINE fd == s.h[k].fd
           hook == [s.hooks[i] EXCEPT !.closing = TRUE]
           hooks == [s.hooks EXCEPT ![i] = hook]
           reg == [wanted |-> {}, slot |-> 0]
           epoll == [s.epoll EXCEPT ![fd] = reg]
           hh == [s.h EXCEPT ![k] = HandlerGone]
           u == [s EXCEPT !.hooks = hooks, !.epoll = epoll, !.h = hh]
<1>0. /\ s.hooks \in Seq(HookSet) /\ DOMAIN s.hooks = 1 .. Len(s.hooks)
      /\ \A j \in 1 .. Len(s.hooks) : s.hooks[j] \in HookSet
  BY LenProperties, ElementOfSeq DEF Memory
<1>1. hook \in HookSet
  BY <1>0 DEF HookSet, SlotOf
<1>2. hooks \in Seq(HookSet)
  <2> HIDE DEF hook
  <2> QED BY <1>0, <1>1, ExceptSeq DEF SlotOf
<1>3. epoll \in [Fds -> Registrations]
  <2>1. reg \in Registrations
    BY DEF Registrations
  <2> HIDE DEF reg
  <2> QED BY <2>1 DEF Memory
<1>4. hh \in [Connections -> Handlers]
  <2>1. <<>> \in Seq(Connections)
    BY EmptySeq
  <2>2. HandlerGone \in Handlers
    BY <2>1 DEF HandlerGone, Handlers
  <2> QED BY <2>2 DEF Memory
<1>5. looper_find(s, fd) = i
  BY FindSlot DEF SlotOf
<1>6. FreeHandler(s, k) = [[s EXCEPT !.hooks[i].closing = TRUE, !.epoll[fd] = reg]
                             EXCEPT !.h[k] = HandlerGone]
  BY <1>5 DEF FreeHandler, looper_del, HandlerGone
<1>7. [s EXCEPT !.hooks[i].closing = TRUE, !.epoll[fd] = reg]
        = [s EXCEPT !.hooks = hooks, !.epoll = epoll]
  BY DEF Memory
<1> HIDE DEF hooks, epoll, reg, fd
<1>8. [[s EXCEPT !.hooks = hooks, !.epoll = epoll] EXCEPT !.h[k] = HandlerGone] = u
  BY DEF Memory
<1>9. /\ u \in Memory /\ u.hooks = hooks /\ u.epoll = epoll /\ u.h = hh
      /\ u.c = s.c /\ u.serialOut = s.serialOut /\ u.got = s.got
      /\ u.last = s.last /\ u.status = s.status /\ u.phase = s.phase
  <2> HIDE DEF hh
  <2> QED BY <1>2, <1>3, <1>4 DEF Memory
<1>10. FreeHandler(s, k) = u
  BY <1>6, <1>7, <1>8
<1> HIDE DEF u
<1> QED BY <1>9, <1>10 DEF hooks, epoll, reg, fd

(* The end of fdhandler_close frees the handler and closes its hook. *)
LEMMA Free ==
  ASSUME NEW s \in Memory, HS(s), NEW k \in Connections, Opened(s, k), Own(s, k),
         s.phase # "wait"
  PROVE  Left(s, FreeHandler(s, k), k) /\ FreeHandler(s, k).h[k] = HandlerGone
<1> DEFINE t == FreeHandler(s, k)
<1>1. PICK i \in Nat : SlotOf(s, k, i)
  BY HandlerSlot
<1>2. s.h[k].st # "freed"
  BY DEF Opened
<1>3. /\ t \in Memory
      /\ t.hooks = [s.hooks EXCEPT ![i] = [s.hooks[i] EXCEPT !.closing = TRUE]]
      /\ t.epoll = [s.epoll EXCEPT ![s.h[k].fd] = [wanted |-> {}, slot |-> 0]]
      /\ t.h = [s.h EXCEPT ![k] = HandlerGone]
      /\ t.c = s.c /\ t.serialOut = s.serialOut /\ t.got = s.got
      /\ t.last = s.last /\ t.status = s.status /\ t.phase = s.phase
  BY <1>1, <1>2, Deleted
<1> HIDE DEF t
<1>4. /\ s.hooks \in Seq(HookSet) /\ DOMAIN s.hooks = 1 .. Len(s.hooks)
      /\ \A j \in 1 .. Len(s.hooks) : s.hooks[j] \in HookSet
      /\ Len(t.hooks) = Len(s.hooks) /\ Len(s.hooks) \in Nat /\ i \in 3 .. Len(s.hooks) /\ i \in 1 .. Len(s.hooks)
  <2>1. s.hooks \in Seq(HookSet) /\ i \in 1 .. Len(s.hooks) /\ i \in 3 .. Len(s.hooks)
    BY <1>1 DEF Memory, SlotOf
  <2>2. DOMAIN t.hooks = DOMAIN s.hooks /\ t.hooks \in Seq(HookSet)
    BY <1>3 DEF Memory
  <2> QED BY <2>1, <2>2, LenProperties, ElementOfSeq
<1>5. ASSUME NEW j \in 1 .. Len(s.hooks)
      PROVE  /\ t.hooks[j].fd = s.hooks[j].fd /\ t.hooks[j].user = s.hooks[j].user
             /\ t.hooks[j].pending = s.hooks[j].pending
             /\ t.hooks[j].wanted = s.hooks[j].wanted
             /\ j # i => t.hooks[j].closing = s.hooks[j].closing
             /\ j = i => t.hooks[j].closing
  <2>1. s.hooks[j] \in HookSet
    BY <1>4
  <2>2. CASE j = i
    <3>1. t.hooks[j] = [s.hooks[j] EXCEPT !.closing = TRUE]
      BY <2>2, <1>3, <1>4
    <3> QED BY <3>1, <2>1, <2>2 DEF HookSet
  <2>3. CASE j # i
    <3>1. t.hooks[j] = s.hooks[j]
      BY <2>3, <1>3, <1>4
    <3> QED BY <3>1, <2>3
  <2> QED BY <2>2, <2>3
<1>6. /\ s.hooks[i].user = k /\ s.hooks[i].fd = s.h[k].fd /\ s.h[k].fd \in Fds
      /\ \A j \in 3 .. Len(s.hooks) : s.hooks[j].user \in Connections /\ (s.hooks[j].user = k <=> j = i)
  BY <1>1, <1>4 DEF SlotOf, HS, BaseHooks
<1>7. t.h[k] = HandlerGone /\ \A j \in Connections \ {k} : t.h[j] = s.h[j]
  BY <1>3 DEF Memory
<1>8. /\ t.epoll[s.h[k].fd] = [wanted |-> {}, slot |-> 0]
      /\ \A e \in Fds : e # s.h[k].fd => t.epoll[e] = s.epoll[e]
  BY <1>3, <1>6 DEF Memory
<1>9. BaseHooks(t)
  <2>1. 1 # i /\ 2 # i /\ 1 \in 1 .. Len(s.hooks) /\ 2 \in 1 .. Len(s.hooks)
    BY <1>4 DEF HS, BaseHooks
  <2>2. \A fd \in Fds : t.epoll[fd].slot = 2 => fd = ControlFd
    <3> TAKE fd \in Fds
    <3>1. CASE fd = s.h[k].fd
      BY <3>1, <1>8
    <3>2. CASE fd # s.h[k].fd
      BY <3>2, <1>8 DEF HS, BaseHooks
    <3> QED BY <3>1, <3>2
  <2> QED BY <2>1, <2>2, <1>4, <1>5 DEF HS, BaseHooks
<1>10. HookOfHandler(t)
  <2>1. ASSUME NEW j \in 3 .. Len(t.hooks)
        PROVE  /\ t.hooks[j].closing => t.h[t.hooks[j].user].st = "freed"
               /\ ~t.hooks[j].closing => /\ Opened(t, t.hooks[j].user)
                                         /\ t.h[t.hooks[j].user].fd = t.hooks[j].fd
    <3>0. j \in 3 .. Len(s.hooks) /\ j \in 1 .. Len(s.hooks)
      BY <1>4
    <3>1. CASE j = i
      BY <3>0, <3>1, <1>5, <1>6, <1>7 DEF HandlerGone
    <3>2. CASE j # i
      <4>1. t.hooks[j].user = s.hooks[j].user /\ s.hooks[j].user \in Connections \ {k}
        BY <3>0, <3>2, <1>5, <1>6
      <4>2. t.h[t.hooks[j].user] = s.h[s.hooks[j].user]
        BY <4>1, <1>7
      <4> QED BY <4>1, <4>2, <3>0, <3>2, <1>5, SMTT(30) DEF HS, HookOfHandler, Opened
    <3> QED BY <3>1, <3>2
  <2>2. ASSUME NEW m \in Connections, Opened(t, m)
        PROVE  \E j \in 3 .. Len(t.hooks) : t.hooks[j].user = m
    <3>1. m # k
      BY <2>2, <1>7 DEF Opened, HandlerGone
    <3>2. Opened(s, m)
      BY <2>2, <3>1, <1>7 DEF Opened
    <3>3. PICK j \in 3 .. Len(s.hooks) : s.hooks[j].user = m
      BY <3>2 DEF HS, HookOfHandler
    <3>4. j \in 1 .. Len(s.hooks) /\ j \in 3 .. Len(t.hooks)
      BY <1>4
    <3> QED BY <3>3, <3>4, <1>5
  <2> QED BY <2>1, <2>2 DEF HookOfHandler
<1>11. \A m \in Connections : Opened(t, m) => m # k /\ Opened(s, m) /\ t.h[m] = s.h[m]
  BY <1>7 DEF Opened, HandlerGone
<1>12. FdsApart(t)
  BY <1>11 DEF HS, FdsApart
<1>13. Alone(t)
  <2> SUFFICES ASSUME NEW j \in 3 .. Len(t.hooks), NEW m, m = t.hooks[j].user,
                      Opened(t, m), t.hooks[j].pending \/ t.c[m].channel # -1
               PROVE  Own(t, m)
    BY DEF Alone
  <2>1. j \in 3 .. Len(s.hooks) /\ j \in 1 .. Len(s.hooks)
    BY <1>4
  <2>2. m = s.hooks[j].user /\ m \in Connections
    BY <2>1, <1>5, <1>6
  <2>3. Opened(s, m) /\ (s.hooks[j].pending \/ s.c[m].channel # -1) /\ t.h[m] = s.h[m]
    BY <2>1, <2>2, <1>3, <1>5, <1>11
  <2>4. Own(s, m)
    BY <2>1, <2>2, <2>3 DEF HS, Alone
  <2> QED BY <2>3, <2>4, <1>4, <1>5, SMTT(30) DEF Own
<1>14. HS(t)
  BY <1>3, <1>9, <1>10, <1>12, <1>13 DEF HS, WaitsClean
<1>15. SameFds(s, t, k)
  <2>1. \A j \in 1 .. Len(s.hooks) : s.hooks[j].user = k \/ t.hooks[j].closing = s.hooks[j].closing
    BY <1>5, <1>6
  <2> QED BY <2>1, <1>4, <1>5 DEF SameFds
<1>16. ASSUME Heard(s) PROVE Heard(t)
  <2>1. HeardReg(t)
    <3>1. \A j, m \in 1 .. Len(t.hooks) : t.hooks[j].fd = t.hooks[m].fd => j = m
      BY <1>4, <1>5, <1>16 DEF Heard, HeardReg
    <3>2. ASSUME NEW j \in 1 .. Len(t.hooks)
          PROVE  /\ t.hooks[j].closing => t.epoll[t.hooks[j].fd].slot = 0
                 /\ ~t.hooks[j].closing =>
                      t.epoll[t.hooks[j].fd] = [wanted |-> t.hooks[j].wanted, slot |-> j]
      <4>0. j \in 1 .. Len(s.hooks)
        BY <1>4
      <4>1. CASE j = i
        BY <4>1, <4>0, <1>5, <1>6, <1>8
      <4>2. CASE j # i
        <5>1. s.hooks[j].fd # s.h[k].fd /\ s.hooks[j].fd \in Fds
          BY <4>0, <4>2, <1>4, <1>6, <1>16 DEF Heard, HeardReg, HookSet
        <5>2. t.epoll[s.hooks[j].fd] = s.epoll[s.hooks[j].fd]
          BY <5>1, <1>8
        <5>3. /\ t.hooks[j].fd = s.hooks[j].fd /\ t.hooks[j].wanted = s.hooks[j].wanted
              /\ t.hooks[j].closing = s.hooks[j].closing
          BY <4>0, <4>2, <1>5
        <5> QED BY <5>2, <5>3, <4>0, <1>16 DEF Heard, HeardReg
      <4> QED BY <4>1, <4>2
    <3> QED BY <3>1, <3>2 DEF HeardReg
  <2>2. ASSUME NEW j \in 3 .. Len(t.hooks), ~t.hooks[j].closing
        PROVE  /\ "in" \in t.hooks[j].wanted
               /\ "out" \in t.hooks[j].wanted <=> t.h[t.hooks[j].user].out # <<>>
    <3>0. j \in 3 .. Len(s.hooks) /\ j \in 1 .. Len(s.hooks)
      BY <1>4
    <3>1. j # i
      BY <3>0, <2>2, <1>5
    <3>2. /\ t.hooks[j].user = s.hooks[j].user /\ s.hooks[j].user \in Connections \ {k}
          /\ t.hooks[j].wanted = s.hooks[j].wanted /\ ~s.hooks[j].closing
      BY <3>0, <3>1, <2>2, <1>5, <1>6
    <3>3. t.h[t.hooks[j].user] = s.h[s.hooks[j].user]
      BY <3>2, <1>7
    <3> QED BY <3>0, <3>2, <3>3, <1>16 DEF Heard, HeardWant
  <2> QED BY <2>1, <2>2 DEF Heard, HeardWant
<1>17. /\ t.h[k].st \in {"closing", "freed"} /\ ~t.h[k].notify
       /\ t.h[k].st # "closing" /\ t.h[k].out = <<>>
  BY <1>7 DEF HandlerGone
<1>18. Left(s, t, k)
  BY <1>3, <1>7, <1>14, <1>15, <1>16, <1>17 DEF Left
<1> QED BY <1>7, <1>18 DEF t

(* A freed Client. *)
NoClient == [live |-> FALSE, channel |-> -1, registered |-> FALSE, attached |-> FALSE]

(* A freed Client is a Client without a channel. *)
LEMMA NoClientType == NoClient \in ClientObjects /\ NoClient.channel = -1
<1>1. -1 \in -1 .. (Channels - 1)
  BY QemudAssumption
<1> QED BY <1>1 DEF NoClient, ClientObjects

(* Hooks that are alike have the same fds. *)
LEMMA AlikeFds ==
  ASSUME NEW s, NEW t, HooksAlike(s, t) PROVE \A k : SameFds(s, t, k)
BY DEF HooksAlike, SameFds, SameHook

(* fdhandler_shutdown frees the handler or, with packets queued, leaves it *)
(* closing.                                                                *)
LEMMA Shutdown ==
  ASSUME NEW s \in Memory, HS(s), NEW k \in Connections, Opened(s, k), Own(s, k),
         s.phase # "wait"
  PROVE  Left(s, fdhandler_shutdown(s, k), k)
<1>1. CASE ~(s.h[k].out # <<>> /\ s.h[k].st = "active")
  <2>1. fdhandler_shutdown(s, k) = FreeHandler(s, k)
    BY <1>1 DEF fdhandler_shutdown
  <2> QED BY <2>1, Free
<1>2. CASE s.h[k].out # <<>> /\ s.h[k].st = "active"
  <2> DEFINE hk == [s.h[k] EXCEPT !.st = "closing", !.notify = FALSE]
             hh == [s.h EXCEPT ![k] = hk]
             t == [s EXCEPT !.h = hh]
  <2>0. s.h \in [Connections -> Handlers] /\ s.h[k] \in Handlers
    BY DEF Memory
  <2>1. /\ hk \in Handlers /\ hk.st = "closing" /\ hk.fd = s.h[k].fd /\ ~hk.notify
        /\ hk.out = s.h[k].out
    BY <2>0 DEF Handlers
  <2>2. [s EXCEPT !.h[k].st = "closing", !.h[k].notify = FALSE] = t
    BY <2>0 DEF Handlers, Memory
  <2>3. fdhandler_shutdown(s, k) = t
    BY <1>2, <2>2 DEF fdhandler_shutdown
  <2>4. hh \in [Connections -> Handlers] /\ hh[k] = hk /\ \A j \in Connections \ {k} : hh[j] = s.h[j]
    <3> HIDE DEF hk
    <3> QED BY <2>0, <2>1
  <2>5. /\ t \in Memory /\ t.hooks = s.hooks /\ t.epoll = s.epoll /\ t.h = hh
        /\ t.c = s.c /\ t.got = s.got /\ t.serialOut = s.serialOut
        /\ t.last = s.last /\ t.status = s.status /\ t.phase = s.phase
    <3> HIDE DEF hh
    <3> QED BY <2>4 DEF Memory
  <2> HIDE DEF hh, t, hk
  <2>6. \A j \in Connections : /\ t.h[j].fd = s.h[j].fd /\ t.h[j].out = s.h[j].out
                               /\ Opened(t, j) = Opened(s, j)
                               /\ (t.h[j].st = "freed") = (s.h[j].st = "freed")
    BY <2>1, <2>4, <2>5, <1>2 DEF Opened
  <2>7. HooksAlike(s, t)
    BY <2>5 DEF HooksAlike, SameHook
  <2>8. Calmer(s, t)
    BY <2>5, <2>6, <2>7 DEF Calmer, HooksAlike, SameHook, HS, BaseHooks
  <2>9. HS(t)
    BY <2>5, <2>8, CalmerKeeps
  <2>10. Heard(s) => Heard(t)
    BY <2>5, <2>6, HeardFrame DEF HS
  <2>11. SameFds(s, t, k)
    BY <2>7, AlikeFds
  <2>12. t.h[k] = hk /\ \A j \in Connections \ {k} : t.h[j] = s.h[j]
    BY <2>4, <2>5
  <2> QED BY <2>1, <2>3, <2>5, <2>9, <2>10, <2>11, <2>12 DEF Left
<1> QED BY <1>1, <1>2

(* The effect of client_free. *)
ClientFreed(s, t, k) ==
  /\ t \in Memory /\ HS(t) /\ (Heard(s) => Heard(t)) /\ SameFds(s, t, k)
  /\ t.c = [s.c EXCEPT ![k] = NoClient] /\ t.serialOut = s.serialOut /\ t.got = s.got
  /\ t.last = s.last /\ t.status = s.status /\ t.phase = s.phase
  /\ \A j \in Connections \ {k} : t.h[j] = s.h[j]
  /\ ~s.c[k].attached => t.h = s.h
  /\ s.c[k].attached =>
       /\ t.h[k].st \in {"closing", "freed"} /\ ~t.h[k].notify
       /\ t.h[k].st = "closing" => t.h[k].fd = s.h[k].fd
       /\ t.h[k].st = "freed" => t.h[k].out = <<>>

(* client_free clears the object and shuts the handler down if it is still *)
(* attached.                                                               *)
LEMMA ClientFree ==
  ASSUME NEW s \in Memory, HS(s), NEW k \in Connections, s.phase # "wait",
         s.c[k].attached => Opened(s, k) /\ Own(s, k)
  PROVE  ClientFreed(s, client_free(s, k), k)
<1> DEFINE s1 == [s EXCEPT !.c[k] = NoClient]
<1>1. ClientSet(s, k, NoClient, s1)
  BY NoClientType, SetClient
<1>2. client_free(s, k) = IF s.c[k].attached THEN fdhandler_shutdown(s1, k) ELSE s1
  BY DEF client_free, NoClient
<1> HIDE DEF s1
<1>3. /\ s1 \in Memory /\ HS(s1) /\ (Heard(s) => Heard(s1)) /\ HooksAlike(s, s1) /\ s1.h = s.h
      /\ s1.c = [s.c EXCEPT ![k] = NoClient] /\ s1.serialOut = s.serialOut /\ s1.got = s.got
      /\ s1.last = s.last /\ s1.status = s.status /\ s1.phase = s.phase
  BY <1>1 DEF ClientSet
<1>4. SameFds(s, s1, k)
  BY <1>3, AlikeFds
<1>5. CASE ~s.c[k].attached
  BY <1>2, <1>3, <1>4, <1>5 DEF ClientFreed
<1>6. CASE s.c[k].attached
  <2> DEFINE t == fdhandler_shutdown(s1, k)
  <2>1. Opened(s1, k) /\ Own(s1, k)
    BY <1>3, <1>6 DEF Opened, Own, HooksAlike, SameHook
  <2>2. Left(s1, t, k)
    BY <1>3, <2>1, Shutdown
  <2> HIDE DEF t
  <2>3. SameFds(s, t, k)
    BY <1>4, <2>2 DEF SameFds, Left
  <2>4. client_free(s, k) = t
    BY <1>2, <1>6 DEF t
  <2> QED BY <1>3, <1>6, <2>2, <2>3, <2>4 DEF ClientFreed, Left
<1> QED BY <1>5, <1>6

(* fdhandler_close of an open handler *)
Goodbye(s, k) ==
  IF s.c[k].live /\ s.c[k].channel > 0 THEN Append(s.serialOut, Frame("disconnect", s.c[k].channel, k))
  ELSE s.serialOut

(* The effect of fdhandler_close on an open handler: handler and client    *)
(* are gone and, if the client had a channel, the emulator will be told.   *)
HungUp(s, t, k) ==
  /\ t \in Memory /\ HS(t) /\ (Heard(s) => Heard(t)) /\ SameFds(s, t, k) /\ ClientsLive(t)
  /\ t.c = [s.c EXCEPT ![k] = NoClient] /\ t.serialOut = Goodbye(s, k) /\ t.got = s.got
  /\ t.last = s.last /\ t.status = s.status /\ t.phase = s.phase
  /\ \A j \in Connections \ {k} : t.h[j] = s.h[j]
  /\ t.h[k] = HandlerGone

(* Clients and handlers still live and die together after one pair is      *)
(* gone.                                                                   *)
LEMMA GoneLive ==
  ASSUME NEW s \in Memory, NEW t \in Memory, NEW k \in Connections, ClientsLive(s),
         \A j \in Connections \ {k} : t.h[j] = s.h[j], t.c = [s.c EXCEPT ![k] = NoClient],
         t.h[k].st # "active", ~t.h[k].notify
  PROVE  ClientsLive(t)
<1>1. t.c[k] = NoClient /\ \A j \in Connections \ {k} : t.c[j] = s.c[j]
  BY DEF Memory
<1>2. ASSUME NEW j \in Connections
      PROVE  /\ t.c[j].live = (t.h[j].st = "active") /\ t.c[j].attached = t.c[j].live
             /\ t.h[j].notify = t.c[j].live
             /\ ~t.c[j].live => t.c[j].channel = -1
             /\ t.c[j].registered => t.c[j].channel # -1
  <2>1. CASE j = k
    <3>1. t.h[k] \in Handlers
      BY DEF Memory
    <3>2. t.h[k].notify = FALSE
      BY <3>1 DEF Handlers
    <3>3. /\ NoClient.live = FALSE /\ NoClient.channel = -1 /\ NoClient.registered = FALSE
          /\ NoClient.attached = FALSE
      BY DEF NoClient
    <3>4. (t.h[k].st = "active") = FALSE
      OBVIOUS
    <3> QED BY <2>1, <1>1, <3>2, <3>3, <3>4
  <2>2. CASE j # k
    BY <2>2, <1>1 DEF ClientsLive
  <2> QED BY <2>1, <2>2
<1> QED BY <1>2 DEF ClientsLive

(* The frames the daemon sends are frames. *)
LEMMA FrameType ==
  ASSUME NEW op \in Ops, NEW ch \in 0 .. (Channels - 1), NEW k \in Connections
  PROVE  Frame(op, ch, k) \in Frames
BY DEF Frame, Frames

(* fdhandler_close frees the handler once, its client once, and queues the *)
(* disconnect.                                                             *)
LEMMA HangUp ==
  ASSUME NEW s \in Memory, HS(s), ClientsLive(s), NEW k \in Connections, Opened(s, k), Own(s, k),
         s.phase # "wait"
  PROVE  HungUp(s, fdhandler_close(s, k), k)
<1>0. s.c[k] \in ClientObjects /\ s.h[k] \in Handlers
  BY DEF Memory
<1>1. CASE ~s.h[k].notify
  <2> DEFINE t == FreeHandler(s, k)
  <2>1. fdhandler_close(s, k) = t
    BY <1>1 DEF fdhandler_close
  <2>2. Left(s, t, k) /\ t.h[k] = HandlerGone
    BY Free
  <2> HIDE DEF t
  <2>3. ~s.c[k].live /\ s.c[k].channel = -1 /\ ~s.c[k].registered /\ ~s.c[k].attached
    BY <1>1 DEF ClientsLive
  <2>4. s.c[k] = NoClient
    BY <2>3, <1>0 DEF ClientObjects, NoClient
  <2>5. t.c = [s.c EXCEPT ![k] = NoClient]
    BY <2>2, <2>4 DEF Left, Memory
  <2>6. t.serialOut = Goodbye(s, k)
    BY <2>2, <2>3 DEF Left, Goodbye
  <2>7. ClientsLive(t)
    BY <2>2, <2>5, GoneLive DEF Left, HandlerGone
  <2> QED BY <2>1, <2>2, <2>5, <2>6, <2>7 DEF HungUp, Left
<1>2. CASE s.h[k].notify
  <2>0. s.c[k].live
    BY <1>2 DEF ClientsLive
  <2> DEFINE r == [s.c[k] EXCEPT !.attached = FALSE]
             s1 == [s EXCEPT !.c[k] = r]
             s2 == IF s.c[k].channel > 0 THEN multiplexer_close_channel(s1, k) ELSE s1
             s3 == client_free(s2, k)
             t == FreeHandler(s3, k)
  <2>1. s1 = [s EXCEPT !.c[k].attached = FALSE]
    BY DEF Memory
  <2>2. fdhandler_close(s, k) = t
    BY <1>2, <2>1 DEF fdhandler_close, client_fd_close
  <2>3. r \in ClientObjects /\ r.channel = s.c[k].channel /\ ~r.attached
    BY <1>0 DEF ClientObjects
  <2>4. r.channel = -1 \/ s.c[k].channel # -1 \/ Own(s, k)
    OBVIOUS
  <2>5. ClientSet(s, k, r, s1)
    <3> HIDE DEF r
    <3> QED BY <2>3, <2>4, SetClient
  <2> HIDE DEF s1, r
  <2>6. /\ s1 \in Memory /\ HS(s1) /\ (Heard(s) => Heard(s1)) /\ HooksAlike(s, s1) /\ s1.h = s.h
        /\ s1.c = [s.c EXCEPT ![k] = r] /\ s1.serialOut = s.serialOut /\ s1.got = s.got
        /\ s1.last = s.last /\ s1.status = s.status /\ s1.phase = s.phase
    BY <2>5 DEF ClientSet
  <2>7. s1.c[k] = r
    BY <2>6 DEF Memory
  <2>8. /\ s2 \in Memory /\ HS(s2) /\ (Heard(s) => Heard(s2)) /\ HooksAlike(s, s2) /\ s2.h = s.h
        /\ s2.c = [s.c EXCEPT ![k] = r] /\ s2.serialOut = Goodbye(s, k) /\ s2.got = s.got
        /\ s2.last = s.last /\ s2.status = s.status /\ s2.phase = s.phase
    <3>1. CASE s.c[k].channel > 0
      <4> DEFINE f == Frame("disconnect", s.c[k].channel, k)
      <4>1. f \in Frames
        <5>1. "disconnect" \in Ops /\ s.c[k].channel \in 0 .. (Channels - 1)
          BY <1>0, <3>1, QemudAssumption DEF Ops, ClientObjects
        <5> QED BY <5>1, FrameType
      <4>2. s2 = serial_send(s1, f)
        BY <3>1, <2>7, <2>3 DEF multiplexer_close_channel
      <4> HIDE DEF f, s2
      <4>3. Sent(s1, s2, f)
        BY <4>1, <4>2, <2>6, SerialSend
      <4>4. HooksAlike(s, s2)
        BY <4>3, <2>6 DEF Sent, HooksAlike, SameHook
      <4>5. Goodbye(s, k) = Append(s.serialOut, f)
        BY <3>1, <2>0 DEF Goodbye, f
      <4> QED BY <4>3, <4>4, <4>5, <2>6 DEF Sent
    <3>2. CASE ~(s.c[k].channel > 0)
      <4>1. Goodbye(s, k) = s.serialOut
        BY <3>2 DEF Goodbye
      <4>2. s2 = s1
        BY <3>2
      <4> QED BY <4>1, <4>2, <2>6
    <3> QED BY <3>1, <3>2
  <2> HIDE DEF s2
  <2>9. s2.c[k] = r
    BY <2>8 DEF Memory
  <2>10. ClientFreed(s2, s3, k)
    BY <2>8, <2>9, <2>3, ClientFree
  <2> HIDE DEF s3
  <2>11. /\ s3 \in Memory /\ HS(s3) /\ (Heard(s2) => Heard(s3)) /\ SameFds(s2, s3, k) /\ s3.h = s.h
         /\ s3.serialOut = Goodbye(s, k) /\ s3.got = s.got
         /\ s3.last = s.last /\ s3.status = s.status /\ s3.phase = s.phase
         /\ s3.c = [s2.c EXCEPT ![k] = NoClient]
    BY <2>8, <2>9, <2>10, <2>3 DEF ClientFreed
  <2>12. s3.c = [s.c EXCEPT ![k] = NoClient]
    BY <2>8, <2>11 DEF Memory
  <2>13. SameFds(s, s3, k)
    BY <2>8, <2>11 DEF SameFds, HooksAlike, SameHook
  <2>14. Opened(s3, k) /\ Own(s3, k)
    BY <2>11, <2>13 DEF Opened, Own, SameFds
  <2>15. Left(s3, t, k) /\ t.h[k] = HandlerGone
    BY <2>11, <2>14, Free
  <2> HIDE DEF t
  <2>16. SameFds(s, t, k)
    BY <2>13, <2>15 DEF SameFds, Left
  <2>17. t.c = [s.c EXCEPT ![k] = NoClient] /\ \A j \in Connections \ {k} : t.h[j] = s.h[j]
    BY <2>11, <2>12, <2>15 DEF Left
  <2>18. ClientsLive(t)
    BY <2>15, <2>17, GoneLive DEF Left, HandlerGone
  <2> QED BY <2>2, <2>8, <2>11, <2>15, <2>16, <2>17, <2>18 DEF HungUp, Left
<1> QED BY <1>1, <1>2

(* A live client has an open handler, and owns its fd once it has a        *)
(* channel.                                                                *)
LEMMA LiveOwn ==
  ASSUME NEW s \in Memory, HS(s), ClientsLive(s), NEW k \in Connections, s.c[k].live
  PROVE  Opened(s, k) /\ (s.c[k].channel # -1 => Own(s, k))
<1>1. Opened(s, k)
  BY DEF ClientsLive, Opened
<1>2. PICK i \in 3 .. Len(s.hooks) : s.hooks[i].user = k
  BY <1>1 DEF HS, HookOfHandler
<1> QED BY <1>1, <1>2 DEF HS, Alone

(* The number the search of multiplexer_open_channel ends at is a channel  *)
(* no live client has.                                                     *)
LEMMA FreeStep ==
  ASSUME NEW s \in Memory, StepsToFree(s) # {}, NEW j,
         j = CHOOSE x \in StepsToFree(s) : \A y \in StepsToFree(s) : x <= y
  PROVE  /\ (s.last + j) % Channels \in 0 .. (Channels - 1)
         /\ multiplexer_find_client(s, (s.last + j) % Channels) = {}
<1>1. StepsToFree(s) \in SUBSET Nat
  BY QemudAssumption DEF StepsToFree
<1>2. \E x \in StepsToFree(s) : \A i \in StepsToFree(s) : x <= i
  BY <1>1, LeastExists
<1>3. j \in StepsToFree(s)
  BY <1>2
<1>4. j \in Nat /\ s.last \in Nat /\ Channels \in Nat \ {0}
  BY <1>1, <1>3, QemudAssumption DEF Memory
<1>5. \A n \in Nat, m \in Nat \ {0} : n % m \in 0 .. (m - 1)
  OBVIOUS
<1>6. s.last + j \in Nat
  BY <1>4
<1>7. (s.last + j) % Channels \in 0 .. (Channels - 1)
  BY <1>4, <1>5, <1>6
<1> QED BY <1>3, <1>7 DEF StepsToFree

(* client_fd_receive passed the chunk of a registered client on. *)
DataSent(s, t, k) ==
  /\ s.c[k].registered /\ t.c = s.c /\ t.h = s.h /\ t.status = s.status
  /\ t.serialOut = Append(s.serialOut, Frame("data", s.c[k].channel, k))

(* client_fd_receive opened channel ch, which no live client had. *)
Opens(s, t, k, ch) ==
  /\ multiplexer_find_client(s, ch) = {} /\ s.c[k].channel <= 0 /\ ~s.c[k].registered
  /\ t.c = [s.c EXCEPT ![k] = [s.c[k] EXCEPT !.channel = ch]] /\ t.h = s.h /\ t.status = s.status
  /\ t.serialOut = Append(s.serialOut, Frame("connect", ch, k))

(* client_fd_receive freed the client; nothing was sent. *)
ThrownOut(s, t, k) ==
  /\ t.c = [s.c EXCEPT ![k] = NoClient] /\ t.serialOut = s.serialOut /\ t.status = s.status
  /\ t.h[k].st \in {"closing", "freed"} /\ ~t.h[k].notify
  /\ t.h[k].st = "closing" => t.h[k].fd = s.h[k].fd
  /\ t.h[k].st = "freed" => t.h[k].out = <<>>

(* The effect of client_fd_receive: one of its four outcomes. *)
Received(s, t, k) ==
  /\ t \in Memory /\ HS(t) /\ ClientsLive(t) /\ (Heard(s) => Heard(t)) /\ SameFds(s, t, k)
  /\ \A j \in Connections \ {k} : t.h[j] = s.h[j]
  /\ t.got = s.got /\ t.phase = s.phase
  /\ \/ t.c = s.c /\ t.h = s.h /\ t.status = "looping" /\ HooksAlike(s, t)
     \/ DataSent(s, t, k) /\ HooksAlike(s, t)
     \/ HooksAlike(s, t) /\ \E ch \in 0 .. (Channels - 1) : Opens(s, t, k, ch)
     \/ ThrownOut(s, t, k)

(* A client that is thrown out leaves the invariants in place. *)
LEMMA ThrowOut ==
  ASSUME NEW s \in Memory, HS(s), ClientsLive(s), NEW k \in Connections, s.c[k].live,
         Own(s, k), s.phase # "wait"
  PROVE  Received(s, client_free(s, k), k)
<1> DEFINE t == client_free(s, k)
<1>1. Opened(s, k) /\ s.c[k].attached
  <2>1. s.c[k] \in ClientObjects
    BY DEF Memory
  <2> QED BY <2>1, LiveOwn DEF ClientsLive, ClientObjects
<1>2. ClientFreed(s, t, k)
  BY <1>1, ClientFree
<1> HIDE DEF t
<1>3. ClientsLive(t)
  BY <1>1, <1>2, GoneLive DEF ClientFreed
<1> QED BY <1>1, <1>2, <1>3 DEF ClientFreed, Received, ThrownOut, t

(* The status is read by no invariant of the looper. *)
LEMMA StatusSet ==
  ASSUME NEW s \in Memory, HS(s), NEW v \in {"running", "undefined", "killed", "looping"}, NEW t,
         t = [s EXCEPT !.status = v]
  PROVE  /\ t \in Memory /\ HS(t) /\ (Heard(s) => Heard(t)) /\ HooksAlike(s, t)
         /\ t.h = s.h /\ t.c = s.c /\ t.serialOut = s.serialOut /\ t.got = s.got
         /\ t.last = s.last /\ t.status = v /\ t.phase = s.phase
<1>1. /\ t \in Memory /\ t.hooks = s.hooks /\ t.epoll = s.epoll
      /\ t.h = s.h /\ t.c = s.c /\ t.serialOut = s.serialOut /\ t.got = s.got
      /\ t.last = s.last /\ t.status = v /\ t.phase = s.phase
  BY DEF Memory
<1>2. HooksAlike(s, t)
  BY <1>1 DEF HooksAlike, SameHook
<1>3. Calmer(s, t)
  BY <1>1, <1>2 DEF Calmer, HooksAlike, SameHook, Opened, HS, BaseHooks
<1>4. Heard(s) => Heard(t)
  BY <1>1 DEF Heard, HeardReg, HeardWant
<1> QED BY <1>1, <1>2, <1>3, <1>4, CalmerKeeps

(* Nor is last_channel. *)
LEMMA LastSet ==
  ASSUME NEW s \in Memory, HS(s), NEW v \in Nat, NEW t, t = [s EXCEPT !.last = v]
  PROVE  /\ t \in Memory /\ HS(t) /\ (Heard(s) => Heard(t)) /\ HooksAlike(s, t)
         /\ t.h = s.h /\ t.c = s.c /\ t.serialOut = s.serialOut /\ t.got = s.got
         /\ t.last = v /\ t.status = s.status /\ t.phase = s.phase
<1>1. /\ t \in Memory /\ t.hooks = s.hooks /\ t.epoll = s.epoll
      /\ t.h = s.h /\ t.c = s.c /\ t.serialOut = s.serialOut /\ t.got = s.got
      /\ t.last = v /\ t.status = s.status /\ t.phase = s.phase
  BY DEF Memory
<1>2. HooksAlike(s, t)
  BY <1>1 DEF HooksAlike, SameHook
<1>3. Calmer(s, t)
  BY <1>1, <1>2 DEF Calmer, HooksAlike, SameHook, Opened, HS, BaseHooks
<1>4. Heard(s) => Heard(t)
  BY <1>1 DEF Heard, HeardReg, HeardWant
<1> QED BY <1>1, <1>2, <1>3, <1>4, CalmerKeeps

(* Hooks that are alike have the same owners. *)
LEMMA AlikeOwn ==
  ASSUME NEW s, NEW t, HooksAlike(s, t), NEW k \in Connections, t.h[k] = s.h[k]
  PROVE  Own(t, k) <=> Own(s, k)
BY DEF HooksAlike, SameHook, Own

(* multiplexer_open_channel opens a free channel, frees the client whose   *)
(* name is too long, or searches for ever.                                 *)
LEMMA OpenChannel ==
  ASSUME NEW s \in Memory, HS(s), ClientsLive(s), NEW k \in Connections, s.c[k].live,
         Own(s, k), s.phase # "wait", s.c[k].channel <= 0, ~s.c[k].registered,
         NEW long \in BOOLEAN
  PROVE  Received(s, multiplexer_open_channel(s, k, long), k)
<1> DEFINE j == CHOOSE j \in StepsToFree(s) : \A i \in StepsToFree(s) : j <= i
           next == (s.last + j) % Channels
           s1 == [s EXCEPT !.last = next]
           u == multiplexer_open_channel(s, k, long)
<1>1. CASE StepsToFree(s) = {}
  <2>1. u = [s EXCEPT !.status = "looping"]
    BY <1>1 DEF multiplexer_open_channel
  <2> HIDE DEF u
  <2>2. /\ u \in Memory /\ HS(u) /\ (Heard(s) => Heard(u)) /\ HooksAlike(s, u)
        /\ u.h = s.h /\ u.c = s.c /\ u.serialOut = s.serialOut /\ u.got = s.got
        /\ u.last = s.last /\ u.status = "looping" /\ u.phase = s.phase
    BY <2>1, StatusSet
  <2>3. SameFds(s, u, k) /\ ClientsLive(u)
    BY <2>2, AlikeFds DEF ClientsLive
  <2> QED BY <2>2, <2>3 DEF Received, u
<1>2. CASE StepsToFree(s) # {}
  <2>0. next \in 0 .. (Channels - 1) /\ multiplexer_find_client(s, next) = {} /\ next \in Nat
    <3>1. next \in 0 .. (Channels - 1) /\ multiplexer_find_client(s, next) = {}
      <4>1. j = CHOOSE i \in StepsToFree(s) : \A m \in StepsToFree(s) : i <= m
        OBVIOUS
      <4> HIDE DEF j
      <4>2. /\ (s.last + j) % Channels \in 0 .. (Channels - 1)
            /\ multiplexer_find_client(s, (s.last + j) % Channels) = {}
        BY <1>2, <4>1, FreeStep
      <4> QED BY <4>2
    <3> HIDE DEF next
    <3> QED BY <3>1
  <2>1. u = IF long THEN client_free(s1, k)
            ELSE serial_send([s1 EXCEPT !.c[k].channel = next], Frame("connect", next, k))
    BY <1>2 DEF multiplexer_open_channel
  <2> HIDE DEF next, u
  <2>2. /\ s1 \in Memory /\ HS(s1) /\ (Heard(s) => Heard(s1)) /\ HooksAlike(s, s1)
        /\ s1.h = s.h /\ s1.c = s.c /\ s1.serialOut = s.serialOut /\ s1.got = s.got
        /\ s1.status = s.status /\ s1.phase = s.phase
    BY <2>0, LastSet
  <2> HIDE DEF s1
  <2>3. ClientsLive(s1) /\ s1.c[k].live /\ Own(s1, k)
    BY <2>2, AlikeOwn DEF ClientsLive
  <2>4. CASE long
    <3>1. Received(s1, u, k)
      BY <2>1, <2>2, <2>3, <2>4, ThrowOut
    <3> DEFINE t == client_free(s1, k)
    <3>2. s1.c[k].attached
      <4>1. s1.c[k] \in ClientObjects
        BY <2>2 DEF Memory
      <4> QED BY <2>3, <4>1 DEF ClientsLive, ClientObjects
    <3>3. Opened(s1, k)
      BY <2>2, <2>3, LiveOwn
    <3>4. ClientFreed(s1, t, k)
      BY <2>2, <2>3, <3>2, <3>3, ClientFree
    <3>5. u = t
      BY <2>1, <2>4
    <3> HIDE DEF t
    <3>6. ThrownOut(s, u, k)
      BY <2>2, <3>2, <3>4, <3>5 DEF ClientFreed, ThrownOut
    <3>7. SameFds(s, u, k)
      BY <2>2, <3>4, <3>5 DEF ClientFreed, SameFds, HooksAlike, SameHook
    <3> QED BY <2>2, <3>1, <3>6, <3>7 DEF Received, u
  <2>5. CASE ~long
    <3> DEFINE r == [s.c[k] EXCEPT !.channel = next]
               s2 == [s1 EXCEPT !.c[k] = r]
               f == Frame("connect", next, k)
    <3>0. s.c[k] \in ClientObjects
      BY DEF Memory
    <3>1. /\ r \in ClientObjects /\ r.live = s.c[k].live /\ r.channel = next
          /\ r.registered = s.c[k].registered /\ r.attached = s.c[k].attached
      <4>1. next \in -1 .. (Channels - 1)
        BY <2>0, QemudAssumption
      <4> QED BY <3>0, <4>1 DEF ClientObjects
    <3>2. [s1 EXCEPT !.c[k].channel = next] = s2
      BY <2>2
    <3>3. u = serial_send(s2, f)
      BY <2>1, <2>5, <3>2
    <3>4. ClientSet(s1, k, r, s2)
      <4> HIDE DEF r
      <4> QED BY <2>2, <2>3, <3>1, SetClient
    <3> HIDE DEF s2, r
    <3>5. f \in Frames
      BY <2>0, FrameType DEF Ops
    <3> HIDE DEF f
    <3>6. Sent(s2, u, f)
      BY <3>3, <3>4, <3>5, SerialSend DEF ClientSet
    <3>7. /\ u \in Memory /\ HS(u) /\ (Heard(s) => Heard(u)) /\ u.h = s.h
          /\ u.c = [s.c EXCEPT ![k] = r] /\ u.serialOut = Append(s.serialOut, f)
          /\ u.got = s.got /\ u.status = s.status /\ u.phase = s.phase
      BY <2>2, <3>4, <3>6 DEF ClientSet, Sent
    <3>8. HooksAlike(s, u)
      BY <2>2, <3>4, <3>6 DEF ClientSet, Sent, HooksAlike, SameHook
    <3>9. Opens(s, u, k, next)
      BY <3>7, <2>0 DEF Opens, r, f
    <3>10. u.c[k] = r /\ \A m \in Connections \ {k} : u.c[m] = s.c[m]
      BY <3>7 DEF Memory
    <3>11. ASSUME NEW m \in Connections
           PROVE  /\ u.c[m].live = (u.h[m].st = "active") /\ u.c[m].attached = u.c[m].live
                  /\ u.h[m].notify = u.c[m].live
                  /\ ~u.c[m].live => u.c[m].channel = -1
                  /\ u.c[m].registered => u.c[m].channel # -1
      <4>1. CASE m = k
        BY <4>1, <3>1, <3>7, <3>10 DEF ClientsLive
      <4>2. CASE m # k
        BY <4>2, <3>7, <3>10 DEF ClientsLive
      <4> QED BY <4>1, <4>2
    <3>12. ClientsLive(u) /\ SameFds(s, u, k)
      BY <3>8, <3>11, AlikeFds DEF ClientsLive
    <3> QED BY <3>7, <3>8, <3>9, <3>12, <2>0 DEF Received, u
  <2> QED BY <2>4, <2>5
<1> QED BY <1>1, <1>2

(* client_fd_receive has one of its four outcomes. *)
LEMMA Receive ==
  ASSUME NEW s \in Memory, HS(s), ClientsLive(s), NEW k \in Connections, s.c[k].live,
         Own(s, k), s.phase # "wait", NEW long \in BOOLEAN
  PROVE  Received(s, client_fd_receive(s, k, long), k)
<1>0. s.c[k] \in ClientObjects
  BY DEF Memory
<1>1. CASE s.c[k].registered
  <2> DEFINE f == Frame("data", s.c[k].channel, k)
             t == serial_send(s, f)
  <2>1. client_fd_receive(s, k, long) = t
    BY <1>1 DEF client_fd_receive
  <2>2. f \in Frames
    <3>1. s.c[k].channel \in 0 .. (Channels - 1) /\ "data" \in Ops
      BY <1>0, <1>1, QemudAssumption DEF ClientObjects, ClientsLive, Ops
    <3> QED BY <3>1, FrameType
  <2> HIDE DEF f
  <2>3. Sent(s, t, f)
    BY <2>2, SerialSend
  <2> HIDE DEF t
  <2>4. SameFds(s, t, k) /\ ClientsLive(t)
    BY <2>3, AlikeFds DEF Sent, ClientsLive
  <2>5. DataSent(s, t, k)
    BY <1>1, <2>3 DEF DataSent, Sent, f
  <2> QED BY <2>1, <2>3, <2>4, <2>5 DEF Received, Sent
<1>2. CASE ~s.c[k].registered /\ s.c[k].channel > 0
  <2>1. client_fd_receive(s, k, long) = client_free(s, k)
    BY <1>2 DEF client_fd_receive
  <2> QED BY <2>1, ThrowOut
<1>3. CASE ~s.c[k].registered /\ ~(s.c[k].channel > 0)
  <2>1. client_fd_receive(s, k, long) = multiplexer_open_channel(s, k, long)
    BY <1>3 DEF client_fd_receive
  <2>2. s.c[k].channel <= 0
    BY <1>0, <1>3, QemudAssumption DEF ClientObjects
  <2> QED BY <1>3, <2>1, <2>2, OpenChannel
<1> QED BY <1>1, <1>2, <1>3

(* No handler was opened, shut down or freed. *)
SameStates(s, t) ==
  \A j \in Connections : t.h[j].st = s.h[j].st /\ t.h[j].fd = s.h[j].fd /\ t.h[j].notify = s.h[j].notify

(* The Client object after client_registration. *)
Answer(r, ok) == [r EXCEPT !.registered = ok, !.channel = IF ok THEN @ ELSE -1]

(* Object a is r after client_registration, field by field. *)
IsAnswer(r, a, ok) ==
  /\ a \in ClientObjects /\ a.live = r.live /\ a.attached = r.attached
  /\ a.registered <=> ok
  /\ ok => a.channel = r.channel
  /\ ~ok => a.channel = -1

(* What client_registration does to the object, field by field. *)
LEMMA AnswerFields ==
  ASSUME NEW r \in ClientObjects, NEW ok \in BOOLEAN
  PROVE  IsAnswer(r, Answer(r, ok), ok)
<1>1. -1 \in -1 .. (Channels - 1)
  BY QemudAssumption
<1>2. CASE ok = TRUE
  BY <1>2 DEF Answer, ClientObjects, IsAnswer
<1>3. CASE ok = FALSE
  BY <1>1, <1>3 DEF Answer, ClientObjects, IsAnswer
<1> QED BY <1>2, <1>3

(* The effect of client_registration. *)
Answered(s, t, k, ok) ==
  /\ t \in Memory /\ HS(t) /\ ClientsLive(t) /\ (Heard(s) => Heard(t)) /\ HooksAlike(s, t)
  /\ SameStates(s, t) /\ t.c = [s.c EXCEPT ![k] = Answer(s.c[k], ok)]
  /\ t.serialOut = s.serialOut /\ t.got = s.got /\ t.status = s.status /\ t.phase = s.phase

(* client_registration answers this client and changes no other. *)
LEMMA Registration ==
  ASSUME NEW s \in Memory, HS(s), ClientsLive(s), NEW k \in Connections, s.c[k].live,
         s.c[k].channel # -1, NEW ok \in BOOLEAN
  PROVE  Answered(s, client_registration(s, k, ok), k, ok)
<1> DEFINE s1 == fdhandler_enqueue(s, k, k)
           r == Answer(s1.c[k], ok)
           t == [s1 EXCEPT !.c[k] = r]
           q == Append(s.h[k].out, k)
<1>0. Opened(s, k) /\ Own(s, k) /\ s.c[k] \in ClientObjects
  BY LiveOwn DEF Memory
<1>1. Queue(s, s1, k, q)
  BY <1>0, Enqueue
<1> HIDE DEF s1
<1>2. s1 \in Memory /\ s1.c = s.c
  BY <1>1 DEF Queue
<1>3. client_registration(s, k, ok) = t
  BY <1>2 DEF client_registration, Answer, s1, Memory
<1> HIDE DEF q
<1>4. r = Answer(s.c[k], ok) /\ IsAnswer(s.c[k], r, ok) /\ r \in ClientObjects
  <2>1. r = Answer(s.c[k], ok)
    BY <1>2
  <2>2. IsAnswer(s.c[k], Answer(s.c[k], ok), ok)
    BY <1>0, AnswerFields
  <2> QED BY <2>1, <2>2 DEF IsAnswer
<1> HIDE DEF r
<1>5. HS(s1) /\ s1.c[k].channel # -1
  BY <1>1, <1>2 DEF Queue
<1>6. ClientSet(s1, k, r, t)
  BY <1>2, <1>4, <1>5, SetClient
<1> HIDE DEF t
<1>7. /\ t \in Memory /\ HS(t) /\ (Heard(s) => Heard(t)) /\ t.h = s1.h
      /\ t.c = [s.c EXCEPT ![k] = r] /\ t.serialOut = s.serialOut
      /\ t.got = s.got /\ t.status = s.status /\ t.phase = s.phase
  BY <1>1, <1>2, <1>6 DEF ClientSet, Queue
<1>8. HooksAlike(s, t)
  BY <1>1, <1>6 DEF ClientSet, Queue, HooksAlike, SameHook
<1>9. SameStates(s, t)
  BY <1>1, <1>7 DEF Queue, SameStates
<1>10. t.c[k] = r /\ \A m \in Connections \ {k} : t.c[m] = s.c[m]
  BY <1>7 DEF Memory
<1>11. ASSUME NEW m \in Connections
       PROVE  /\ t.c[m].live = (t.h[m].st = "active") /\ t.c[m].attached = t.c[m].live
              /\ t.h[m].notify = t.c[m].live
              /\ ~t.c[m].live => t.c[m].channel = -1
              /\ t.c[m].registered => t.c[m].channel # -1
  <2>1. CASE m = k
    BY <2>1, <1>4, <1>9, <1>10, ZenonT(40) DEF ClientsLive, SameStates, IsAnswer
  <2>2. CASE m # k
    BY <2>2, <1>9, <1>10 DEF ClientsLive, SameStates
  <2> QED BY <2>1, <2>2
<1>12. ClientsLive(t)
  BY <1>11 DEF ClientsLive
<1> QED BY <1>3, <1>4, <1>7, <1>8, <1>9, <1>12 DEF Answered

(* Client k was freed by a disconnect of the emulator. *)
Disconnected(s, t, k) ==
  /\ t.c = [s.c EXCEPT ![k] = NoClient]
  /\ \A j \in Connections \ {k} : t.h[j] = s.h[j]
  /\ t.h[k].st \in {"closing", "freed"}

(* The effect of multiplexer_serial_receive of frame f: at most one client *)
(* changes, the one that has the channel of f.                             *)
FrameHandled(s, t, f) ==
  /\ t \in Memory /\ HS(t) /\ ClientsLive(t) /\ (Heard(s) => Heard(t))
  /\ t.serialOut = s.serialOut /\ t.got = s.got /\ t.status = s.status /\ t.phase = s.phase
  /\ \A j \in Connections : t.h[j].st = "none" <=> s.h[j].st = "none"
  /\ f.op # "disconnect" => HooksAlike(s, t) /\ SameStates(s, t)
  /\ \A j \in 1 .. Len(t.hooks) : t.hooks[j].user = Control /\ t.hooks[j].pending =>
       \E i \in 1 .. Len(s.hooks) : s.hooks[i].user = Control /\ s.hooks[i].pending
  /\ \/ t.c = s.c /\ (f.op = "data" \/ multiplexer_find_client(s, f.ch) = {})
     \/ f.op # "data" /\ \E k \in multiplexer_find_client(s, f.ch) :
          \/ f.op = "disconnect" /\ Disconnected(s, t, k)
          \/ f.op # "disconnect" /\ t.c = [s.c EXCEPT ![k] = Answer(s.c[k], f.op = "ok")]

(* What multiplexer_find_client finds is a live client with the channel. *)
LEMMA FoundIs ==
  ASSUME NEW s \in Memory, NEW ch \in 0 .. (Channels - 1), NEW k \in multiplexer_find_client(s, ch)
  PROVE  k \in Connections /\ s.c[k].live /\ s.c[k].channel = ch /\ s.c[k].channel # -1
<1>1. k \in Connections /\ s.c[k].live /\ s.c[k].channel = ch
  BY DEF multiplexer_find_client, LiveClients
<1>2. ch # -1
  BY QemudAssumption
<1> QED BY <1>1, <1>2

(* multiplexer_serial_receive changes at most the client that has the      *)
(* channel.                                                                *)
LEMMA HandleFrame ==
  ASSUME NEW s \in Memory, HS(s), ClientsLive(s), s.phase # "wait", NEW f \in Frames
  PROVE  FrameHandled(s, multiplexer_serial_receive(s, f), f)
<1> DEFINE found == multiplexer_find_client(s, f.ch)
           u == multiplexer_serial_receive(s, f)
<1>0. f.ch \in 0 .. (Channels - 1) /\ f.conn \in Connections /\ f.op \in Ops
  BY DEF Frames
<1>a. HooksAlike(s, s) /\ SameStates(s, s)
  BY DEF HooksAlike, SameHook, SameStates
<1>b. \A t : HooksAlike(s, t) => \A j \in 1 .. Len(t.hooks) : t.hooks[j].user = Control /\ t.hooks[j].pending =>
       \E i \in 1 .. Len(s.hooks) : s.hooks[i].user = Control /\ s.hooks[i].pending
  BY DEF HooksAlike, SameHook
<1>c. \A t : SameStates(s, t) => \A j \in Connections : t.h[j].st = "none" <=> s.h[j].st = "none"
  BY DEF SameStates
<1>1. CASE found = {} \/ (f.op = "data" /\ f.ch = CHANNEL_CONTROL)
  <2>1. u = s
    BY <1>1 DEF multiplexer_serial_receive, multiplexer_handle_control
  <2>2. s.c = s.c /\ (f.op = "data" \/ multiplexer_find_client(s, f.ch) = {})
    BY <1>1
  <2> HIDE DEF u, found
  <2> QED BY <2>1, <2>2, <1>a, <1>b, <1>c DEF FrameHandled, u
<1>2. CASE found # {} /\ ~(f.op = "data" /\ f.ch = CHANNEL_CONTROL)
  <2> DEFINE k == CHOOSE k \in found : TRUE
  <2>0. k \in found
    BY <1>2
  <2>1. k \in Connections /\ s.c[k].live /\ s.c[k].channel = f.ch /\ s.c[k].channel # -1
    <3> HIDE DEF k
    <3> QED BY <2>0, <1>0, FoundIs
  <2>2. Opened(s, k) /\ Own(s, k) /\ s.c[k] \in ClientObjects
    <3> HIDE DEF k
    <3> QED BY <2>1, LiveOwn DEF Memory
  <2>3. CASE f.op = "data"
    <3>1. u = fdhandler_enqueue(s, k, f.conn)
      BY <1>2, <2>3 DEF multiplexer_serial_receive
    <3> HIDE DEF k, u
    <3>2. Queue(s, u, k, Append(s.h[k].out, f.conn))
      BY <3>1, <2>1, <2>2, <1>0, Enqueue
    <3>3. SameStates(s, u) /\ ClientsLive(u) /\ HooksAlike(s, u)
      BY <3>2 DEF Queue, SameStates, ClientsLive
    <3> QED BY <3>2, <3>3, <2>3, <1>b, <1>c DEF FrameHandled, Queue, u
  <2>4. CASE f.op = "disconnect"
    <3>1. u = client_free(s, k)
      BY <1>2, <2>4 DEF multiplexer_serial_receive, multiplexer_handle_control
    <3> HIDE DEF k, u, found
    <3>2. s.c[k].attached
      BY <2>1, <2>2 DEF ClientsLive, ClientObjects
    <3>3. ClientFreed(s, u, k)
      BY <3>1, <2>1, <2>2, ClientFree
    <3>4. ClientsLive(u)
      BY <3>2, <3>3, <2>1, GoneLive DEF ClientFreed
    <3>5. Disconnected(s, u, k)
      BY <3>2, <3>3 DEF ClientFreed, Disconnected
    <3>6. \A j \in Connections : u.h[j].st = "none" <=> s.h[j].st = "none"
      BY <3>5, <2>2 DEF Disconnected, Opened
    <3>7. \A j \in 1 .. Len(u.hooks) : u.hooks[j].user = Control /\ u.hooks[j].pending =>
            \E i \in 1 .. Len(s.hooks) : s.hooks[i].user = Control /\ s.hooks[i].pending
      BY <3>3 DEF ClientFreed, SameFds
    <3>8. k \in multiplexer_find_client(s, f.ch)
      BY <2>0 DEF found
    <3> QED BY <3>3, <3>4, <3>5, <3>6, <3>7, <3>8, <2>4 DEF FrameHandled, ClientFreed, u
  <2>5. CASE f.op # "data" /\ f.op # "disconnect"
    <3>1. u = client_registration(s, k, f.op = "ok")
      BY <1>2, <2>5 DEF multiplexer_serial_receive, multiplexer_handle_control
    <3> DEFINE ok == f.op = "ok"
    <3> HIDE DEF k, u, found
    <3>2. ok \in BOOLEAN
      OBVIOUS
    <3>3. Answered(s, client_registration(s, k, ok), k, ok)
      <4> HIDE DEF ok
      <4> QED BY <3>2, <2>1, Registration
    <3>4. Answered(s, u, k, ok)
      BY <3>1, <3>3
    <3>5. k \in multiplexer_find_client(s, f.ch)
      BY <2>0 DEF found
    <3>6. u.c = [s.c EXCEPT ![k] = Answer(s.c[k], f.op = "ok")]
      BY <3>4 DEF Answered
    <3>7. \E j \in multiplexer_find_client(s, f.ch) :
            u.c = [s.c EXCEPT ![j] = Answer(s.c[j], f.op = "ok")]
      BY <3>5, <3>6
    <3> HIDE DEF ok
    <3> QED BY <3>4, <3>7, <2>5, <1>b, <1>c DEF FrameHandled, Answered, u
  <2> QED BY <2>3, <2>4, <2>5
<1> QED BY <1>1, <1>2

----------------------------------------------------------------------------
(* qemud: the callbacks of looper_loop. *)

(* Slot i is no longer pending; nothing else of the hooks that the         *)
(* invariants read has changed.                                            *)
Marked(s, t, i) ==
  /\ t.hooks \in Seq(HookSet) /\ Len(t.hooks) = Len(s.hooks)
  /\ \A j \in 1 .. Len(s.hooks) :
       /\ t.hooks[j].fd = s.hooks[j].fd /\ t.hooks[j].user = s.hooks[j].user
       /\ t.hooks[j].closing = s.hooks[j].closing /\ t.hooks[j].wanted = s.hooks[j].wanted
       /\ t.hooks[j].pending => s.hooks[j].pending /\ j # i

(* Clearing the pending flag of a hook changes nothing else that matters. *)
LEMMA MarkHook ==
  ASSUME NEW s \in Memory, NEW i \in 1 .. Len(s.hooks), NEW g \in HookSet, NEW t,
         t.hooks = [s.hooks EXCEPT ![i] = g],
         g.fd = s.hooks[i].fd, g.user = s.hooks[i].user, g.closing = s.hooks[i].closing,
         g.wanted = s.hooks[i].wanted, ~g.pending
  PROVE  Marked(s, t, i)
<1>0. s.hooks \in Seq(HookSet) /\ DOMAIN s.hooks = 1 .. Len(s.hooks)
  BY LenProperties DEF Memory
<1>1. t.hooks \in Seq(HookSet) /\ Len(t.hooks) = Len(s.hooks)
  BY <1>0, ExceptSeq
<1>2. \A j \in 1 .. Len(s.hooks) : t.hooks[j] = IF j = i THEN g ELSE s.hooks[j]
  BY <1>0
<1> QED BY <1>1, <1>2 DEF Marked

(* Clearing it keeps the invariants of the looper. *)
LEMMA MarkedKeeps ==
  ASSUME NEW s \in Memory, HS(s), NEW t \in Memory, NEW i, Marked(s, t, i),
         t.epoll = s.epoll, t.h = s.h, t.c = s.c, t.phase = "wait" => s.phase = "wait"
  PROVE  HS(t) /\ (Heard(s) => Heard(t)) /\ \A k \in Connections : Own(t, k) <=> Own(s, k)
<1>1. Calmer(s, t)
  BY DEF Calmer, Marked, Opened, HS, BaseHooks
<1>2. Heard(s) => Heard(t)
  BY HeardFrame DEF Marked, HS
<1> QED BY <1>1, <1>2, OwnKept, CalmerKeeps

(* what fdhandler_event does after the read *)
After(s, k, hangs, writes, gone) ==
  LET s1 == IF writes THEN [s EXCEPT !.h[k].out = Tail(@)] ELSE s
  IN IF s.status # "running" THEN s
     ELSE IF hangs THEN fdhandler_close(s, k)
     ELSE IF writes /\ gone THEN [s EXCEPT !.status = "killed"]
     ELSE IF writes /\ s1.h[k].out = <<>> THEN looper_disable(s1, s.h[k].fd, "out")
     ELSE s1

(* The handler was freed during the read. *)
Left2(s, k) == s.h[k].st = "freed" /\ s.h[k].out = <<>> /\ ~s.h[k].notify

(* What the callback does after the read when the daemon goes on. *)
Rest(s, t, k) ==
  \/ HungUp(s, t, k)
  \/ /\ t \in Memory /\ HS(t) /\ ClientsLive(t) /\ (Heard(s) => Heard(t)) /\ HooksAlike(s, t)
     /\ SameStates(s, t) /\ t.c = s.c /\ t.serialOut = s.serialOut /\ t.got = s.got
     /\ t.status = "running" /\ t.phase = s.phase

(* What the callback does after the read; undefined only if the handler    *)
(* was freed.                                                              *)
Finished(s, t, k) ==
  /\ t \in Memory
  /\ t.status # "running" => t.c = s.c
  /\ t.status = "running" => Rest(s, t, k)
  /\ t.status = "undefined" => ~Opened(s, k)

(* The rest of fdhandler_event keeps the invariants, and is undefined only *)
(* when the read has freed the handler.                                    *)
LEMMA Finish ==
  ASSUME NEW s \in Memory, HS(s), ClientsLive(s), NEW k \in Connections, s.phase # "wait",
         s.status = "running", (Opened(s, k) /\ Own(s, k)) \/ Left2(s, k),
         NEW hangs \in BOOLEAN, NEW writes \in BOOLEAN, NEW gone \in BOOLEAN,
         writes => s.h[k].out # <<>>
  PROVE  Finished(s, After(s, k, hangs, writes, gone), k)
<1> DEFINE t == After(s, k, hangs, writes, gone)
<1>a. HooksAlike(s, s) /\ SameStates(s, s)
  BY DEF HooksAlike, SameHook, SameStates
<1>1. CASE hangs
  <2>1. t = fdhandler_close(s, k)
    BY <1>1 DEF After
  <2> HIDE DEF t
  <2>2. CASE Opened(s, k) /\ Own(s, k)
    <3>1. HungUp(s, t, k)
      BY <2>1, <2>2, HangUp
    <3> QED BY <3>1 DEF Finished, Rest, HungUp, t
  <2>3. CASE Left2(s, k)
    <3>1. t = [s EXCEPT !.status = "undefined"]
      BY <2>1, <2>3 DEF fdhandler_close, FreeHandler, Undefined, Left2
    <3>2. t \in Memory /\ t.c = s.c /\ t.status = "undefined"
      BY <3>1 DEF Memory
    <3>3. ~Opened(s, k)
      BY <2>3 DEF Left2, Opened
    <3> QED BY <3>2, <3>3 DEF Finished, t
  <2> QED BY <2>2, <2>3
<1>2. CASE ~hangs /\ ~writes
  <2>1. t = s
    BY <1>2 DEF After
  <2>2. Rest(s, s, k)
    BY <1>a DEF Rest
  <2> HIDE DEF t
  <2> QED BY <2>1, <2>2 DEF Finished, t
<1>3. CASE ~hangs /\ writes /\ gone
  <2>1. t = [s EXCEPT !.status = "killed"]
    BY <1>3 DEF After
  <2>2. t \in Memory /\ t.c = s.c /\ t.status = "killed"
    BY <2>1 DEF Memory
  <2> HIDE DEF t
  <2> QED BY <2>2 DEF Finished, t
<1>4. CASE ~hangs /\ writes /\ ~gone
  <2>1. Opened(s, k) /\ Own(s, k)
    BY <1>4 DEF Left2
  <2>2. t = Written(s, k)
    BY <1>4 DEF After, Written
  <2> HIDE DEF t
  <2>3. Queue(s, t, k, Tail(s.h[k].out))
    BY <2>1, <2>2, <1>4, WriteOne
  <2>4. SameStates(s, t) /\ ClientsLive(t)
    BY <2>3 DEF Queue, SameStates, ClientsLive
  <2>5. Rest(s, t, k) /\ t \in Memory /\ t.status = "running"
    BY <2>3, <2>4 DEF Rest, Queue
  <2> QED BY <2>5 DEF Finished, t
<1> QED BY <1>1, <1>2, <1>3, <1>4

(* After the read the handler is still open, or was freed with nothing     *)
(* queued.                                                                 *)
LEMMA ReceivedMay ==
  ASSUME NEW s \in Memory, HS(s), NEW k \in Connections, Opened(s, k), Own(s, k),
         NEW t, Received(s, t, k)
  PROVE  (Opened(t, k) /\ Own(t, k)) \/ Left2(t, k)
<1>1. CASE t.h = s.h /\ HooksAlike(s, t)
  BY <1>1, AlikeOwn DEF Opened
<1>2. CASE ThrownOut(s, t, k)
  <2>1. CASE t.h[k].st = "freed"
    BY <1>2, <2>1 DEF ThrownOut, Left2
  <2>2. CASE t.h[k].st = "closing"
    <3>1. t.h[k].fd = s.h[k].fd /\ SameFds(s, t, k)
      BY <1>2, <2>2 DEF ThrownOut, Received
    <3> QED BY <2>2, <3>1 DEF Opened, Own, SameFds
  <2> QED BY <1>2, <2>1, <2>2 DEF ThrownOut
<1> QED BY <1>1, <1>2 DEF Received, DataSent, Opens

(* accept finds a free fd: there are enough for all connections. *)
LEMMA FdFree ==
  ASSUME NEW s \in Memory, NEW k \in Connections, s.h[k].st = "none"
  PROVE  FreeFd(s) \in Fds /\ FreeFd(s) \notin OpenFds(s)
<1> DEFINE n == Cardinality(Connections)
           S == 3 .. (n + 2)
           J == Connections \ {k}
           Good(j, x) == Opened(s, j) /\ s.h[j].fd = x
           f == [x \in S |-> CHOOSE j \in J : Good(j, x)]
<1>0. n \in Nat \ {0}
  BY FS_CardinalityType, FS_EmptySet, QemudAssumption
<1>1. \E fd \in Fds : fd \notin OpenFds(s)
  <2> SUFFICES ASSUME \A fd \in Fds : fd \in OpenFds(s) PROVE FALSE
    OBVIOUS
  <2>1. \A x \in S : \E j \in J : Good(j, x)
    <3> TAKE x \in S
    <3> HIDE DEF n
    <3>1. x \in Fds /\ x # SerialFd /\ x # ControlFd
      BY <1>0 DEF Fds, SerialFd, ControlFd, n
    <3>2. PICK j \in Connections : s.h[j].st \in {"active", "closing"} /\ s.h[j].fd = x
      BY <3>1 DEF OpenFds
    <3> QED BY <3>2 DEF Opened
  <2>2. IsFiniteSet(S) /\ Cardinality(S) = n
    <3> HIDE DEF n
    <3>1. n + 2 \in Int /\ 3 \in Int /\ ~(3 > n + 2) /\ (n + 2) - 3 + 1 = n
      BY <1>0
    <3> QED BY <3>1, FS_Interval
  <2>3. IsFiniteSet(J) /\ Cardinality(J) < n
    <3>1. IsFiniteSet(J) /\ Cardinality(J) = n - 1
      BY FS_RemoveElement, QemudAssumption
    <3> HIDE DEF n
    <3> QED BY <3>1, <1>0
  <2> HIDE DEF n, S, J, Good
  <2>4. f \in [S -> J] /\ \A x \in S : Good(f[x], x)
    BY <2>1
  <2> HIDE DEF f
  <2>5. PICK x, y \in S : x # y /\ f[x] = f[y]
    BY <2>2, <2>3, <2>4, FS_PigeonHole
  <2> QED BY <2>4, <2>5 DEF Good
<1> DEFINE U == {fd \in Fds : fd \notin OpenFds(s)}
<1>2. PICK m \in U : \A y \in U : m <= y
  <2>1. U \in SUBSET Nat /\ U # {}
    BY <1>1, NatsFacts
  <2> HIDE DEF U
  <2> QED BY <2>1, LeastExists
<1>3. m \in Fds /\ m \notin OpenFds(s) /\ \A e \in 1 .. (m - 1) : e \in OpenFds(s)
  <2>1. m \in Fds /\ m \notin OpenFds(s)
    OBVIOUS
  <2>2. ASSUME NEW e \in 1 .. (m - 1), e \notin OpenFds(s) PROVE FALSE
    <3> HIDE DEF n
    <3>1. e \in Fds /\ ~(m <= e)
      BY <2>1, <1>0 DEF Fds, n
    <3> QED BY <3>1, <2>2, <1>2
  <2> QED BY <2>1, <2>2
<1>4. \E fd \in Fds : fd \notin OpenFds(s) /\ \A e \in 1 .. (fd - 1) : e \in OpenFds(s)
  BY <1>3
<1> QED BY <1>4 DEF FreeFd, Fds

(* The hook looper_add appends. *)
NewHook(fd, user) == [fd |-> fd, user |-> user, wanted |-> {}, events |-> {},
                      pending |-> FALSE, closing |-> FALSE]

(* The effect of looper_add. *)
Added(s, t, fd, user) ==
  /\ t \in Memory /\ Others(s, t)
  /\ Len(t.hooks) = Len(s.hooks) + 1 /\ Len(s.hooks) \in Nat
  /\ \A j \in 1 .. Len(s.hooks) : t.hooks[j] = s.hooks[j]
  /\ t.hooks[Len(s.hooks) + 1] = NewHook(fd, user)
  /\ \A e \in Fds \ {fd} : t.epoll[e] = s.epoll[e]
  /\ t.epoll[fd] = [wanted |-> {}, slot |-> Len(s.hooks) + 1]

(* looper_add appends a hook and registers it. *)
LEMMA Add ==
  ASSUME NEW s \in Memory, NEW fd \in Fds, NEW user \in Connections \cup {Serial, Control}
  PROVE  Added(s, looper_add(s, fd, user), fd, user)
<1> DEFINE g == NewHook(fd, user)
           hooks == Append(s.hooks, g)
           reg == [wanted |-> {}, slot |-> Len(s.hooks) + 1]
           epoll == [s.epoll EXCEPT ![fd] = reg]
           t == [s EXCEPT !.hooks = hooks, !.epoll = epoll]
<1>0. s.hooks \in Seq(HookSet) /\ Len(s.hooks) \in Nat
  BY LenProperties DEF Memory
<1>1. g \in HookSet
  BY DEF NewHook, HookSet
<1>2. looper_add(s, fd, user) = t
  BY DEF looper_add, NewHook, Memory
<1> HIDE DEF g
<1>3. /\ hooks \in Seq(HookSet) /\ Len(hooks) = Len(s.hooks) + 1
      /\ \A j \in 1 .. Len(s.hooks) : hooks[j] = s.hooks[j]
      /\ hooks[Len(s.hooks) + 1] = g
  BY <1>0, <1>1, AppendProperties
<1>4. reg \in Registrations
  BY <1>0 DEF Registrations
<1>5. epoll \in [Fds -> Registrations] /\ epoll[fd] = reg /\ \A e \in Fds \ {fd} : epoll[e] = s.epoll[e]
  <2> HIDE DEF reg
  <2> QED BY <1>4 DEF Memory
<1> HIDE DEF hooks, epoll
<1>6. t \in Memory /\ t.hooks = hooks /\ t.epoll = epoll /\ Others(s, t)
  BY <1>3, <1>5 DEF Memory, Others
<1> HIDE DEF t
<1> QED BY <1>0, <1>2, <1>3, <1>5, <1>6 DEF Added, g

(* A new connection on a free fd keeps the looper and the handlers fitting *)
(* together, even when a closed hook with that fd is still there.          *)
LEMMA AddKeeps ==
  ASSUME NEW s \in Memory, HS(s), NEW k \in Connections, NEW fd \in Fds, NEW s1 \in Memory,
         s1.hooks = s.hooks, s1.epoll = s.epoll, s1.phase = s.phase, s.phase # "wait",
         s.h[k].st = "none", fd \notin OpenFds(s),
         \A j \in Connections \ {k} : s1.h[j] = s.h[j] /\ s1.c[j] = s.c[j],
         s1.h[k].st = "active", s1.h[k].fd = fd, s1.c[k].channel = -1,
         NEW t, Added(s1, t, fd, k)
  PROVE  HS(t)
<1> DEFINE n == Len(s.hooks)
<1>0. /\ n \in Nat /\ n >= 2 /\ Len(t.hooks) = n + 1 /\ n + 1 \in 3 .. Len(t.hooks)
      /\ \A j \in 1 .. n : t.hooks[j] = s.hooks[j]
      /\ t.hooks[n + 1] = NewHook(fd, k)
      /\ \A j \in 3 .. Len(t.hooks) : j = n + 1 \/ (j \in 3 .. n /\ j \in 1 .. n)
      /\ \A j \in 1 .. Len(t.hooks) : j = n + 1 \/ j \in 1 .. n
  BY DEF Added, HS, BaseHooks
<1>1. t.h = s1.h /\ t.c = s1.c /\ t.phase = s.phase
  BY DEF Added, Others
<1> HIDE DEF n
<1>2. fd # SerialFd /\ fd # ControlFd /\ \A j \in Connections : Opened(s, j) => s.h[j].fd # fd
  BY DEF OpenFds, Opened
<1>3. /\ NewHook(fd, k).fd = fd /\ NewHook(fd, k).user = k /\ ~NewHook(fd, k).closing
      /\ ~NewHook(fd, k).pending
  BY DEF NewHook
<1>4. \A j \in 3 .. n : s.hooks[j].user \in Connections \ {k}
  BY DEF HS, BaseHooks, HookOfHandler, Opened, n
<1>5. \A j \in 3 .. n : t.h[s.hooks[j].user] = s.h[s.hooks[j].user]
  BY <1>1, <1>4
<1>6. BaseHooks(t)
  <2>1. 1 \in 1 .. n /\ 2 \in 1 .. n
    BY <1>0
  <2>2. \A j \in 3 .. Len(t.hooks) : /\ t.hooks[j].user \in Connections
                                     /\ t.hooks[j].fd # SerialFd /\ t.hooks[j].fd # ControlFd
    <3> TAKE j \in 3 .. Len(t.hooks)
    <3>1. CASE j = n + 1
      BY <3>1, <1>0, <1>2, <1>3
    <3>2. CASE j \in 3 .. n /\ j \in 1 .. n
      <4>1. t.hooks[j] = s.hooks[j]
        BY <3>2, <1>0
      <4> QED BY <3>2, <4>1 DEF HS, BaseHooks, n
    <3> QED BY <3>1, <3>2, <1>0
  <2>3. \A i, j \in 3 .. Len(t.hooks) : t.hooks[i].user = t.hooks[j].user => i = j
    <3> TAKE i, j \in 3 .. Len(t.hooks)
    <3> HAVE t.hooks[i].user = t.hooks[j].user
    <3>1. CASE i \in 3 .. n /\ j \in 3 .. n
      BY <3>1, <1>0, SMTT(30) DEF HS, BaseHooks, n
    <3>2. CASE i = n + 1 /\ j \in 3 .. n
      BY <3>2, <1>0, <1>3, <1>4
    <3>3. CASE i \in 3 .. n /\ j = n + 1
      BY <3>3, <1>0, <1>3, <1>4
    <3> QED BY <3>1, <3>2, <3>3, <1>0
  <2>4. \A e \in Fds : t.epoll[e].slot = 2 => e = ControlFd
    <3> TAKE e \in Fds
    <3>1. CASE e = fd
      BY <3>1, <1>0 DEF Added, n
    <3>2. CASE e # fd
      BY <3>2 DEF Added, HS, BaseHooks
    <3> QED BY <3>1, <3>2
  <2> QED BY <2>1, <2>2, <2>3, <2>4, <1>0 DEF HS, BaseHooks
<1>7. HookOfHandler(t)
  <2>1. ASSUME NEW j \in 3 .. Len(t.hooks)
        PROVE  /\ t.hooks[j].closing => t.h[t.hooks[j].user].st = "freed"
               /\ ~t.hooks[j].closing => /\ Opened(t, t.hooks[j].user)
                                         /\ t.h[t.hooks[j].user].fd = t.hooks[j].fd
    <3>1. CASE j = n + 1
      BY <3>1, <1>0, <1>1, <1>3 DEF Opened
    <3>2. CASE j \in 3 .. n /\ j \in 1 .. n
      <4>1. t.hooks[j] = s.hooks[j] /\ t.h[s.hooks[j].user] = s.h[s.hooks[j].user]
        BY <3>2, <1>0, <1>5
      <4> QED BY <3>2, <4>1 DEF HS, HookOfHandler, Opened, n
    <3> QED BY <3>1, <3>2, <1>0
  <2>2. ASSUME NEW m \in Connections, Opened(t, m)
        PROVE  \E j \in 3 .. Len(t.hooks) : t.hooks[j].user = m
    <3>1. CASE m = k
      BY <3>1, <1>0, <1>3
    <3>2. CASE m # k
      <4>1. Opened(s, m)
        BY <3>2, <2>2, <1>1 DEF Opened
      <4>2. PICK j \in 3 .. n : s.hooks[j].user = m
        BY <4>1 DEF HS, HookOfHandler, n
      <4>3. j \in 1 .. n /\ j \in 3 .. Len(t.hooks)
        BY <1>0
      <4> QED BY <4>2, <4>3, <1>0
    <3> QED BY <3>1, <3>2
  <2> QED BY <2>1, <2>2 DEF HookOfHandler
<1>8. \A m \in Connections : Opened(t, m) /\ m # k => Opened(s, m) /\ t.h[m] = s.h[m] /\ t.h[m].fd # fd
  BY <1>1, <1>2 DEF Opened
<1>9. FdsApart(t)
  <2> SUFFICES ASSUME NEW j \in Connections, NEW m \in Connections, Opened(t, j), Opened(t, m),
                      t.h[j].fd = t.h[m].fd
               PROVE  j = m
    BY DEF FdsApart
  <2>1. t.h[k].fd = fd
    BY <1>1
  <2>2. CASE j # k /\ m # k
    BY <2>2, <1>8 DEF HS, FdsApart
  <2> QED BY <2>1, <2>2, <1>8
<1>10. Alone(t)
  <2> SUFFICES ASSUME NEW j \in 3 .. Len(t.hooks), NEW m, m = t.hooks[j].user,
                      Opened(t, m), t.hooks[j].pending \/ t.c[m].channel # -1
               PROVE  Own(t, m)
    BY DEF Alone
  <2>1. j \in 3 .. n /\ j \in 1 .. n
    BY <1>0, <1>1, <1>3
  <2>2. m = s.hooks[j].user /\ m \in Connections \ {k}
    BY <2>1, <1>0, <1>4
  <2>3. Opened(s, m) /\ t.h[m] = s.h[m] /\ t.h[m].fd # fd /\ t.c[m] = s.c[m]
    BY <2>2, <1>1, <1>8
  <2>4. Own(s, m)
    BY <2>1, <2>2, <2>3, <1>0, SMTT(30) DEF HS, Alone, n
  <2>5. ASSUME NEW i \in 1 .. Len(t.hooks), t.hooks[i].fd = t.h[m].fd PROVE t.hooks[i].user = m
    <3>1. i \in 1 .. n
      BY <2>3, <2>5, <1>0, <1>3
    <3>2. t.hooks[i] = s.hooks[i]
      BY <3>1, <1>0
    <3> QED BY <3>1, <3>2, <2>3, <2>4, <2>5 DEF Own, n
  <2> QED BY <2>5 DEF Own
<1> QED BY <1>1, <1>6, <1>7, <1>9, <1>10 DEF HS, WaitsClean

(* The Client object client_new makes. *)
NewClient == [live |-> TRUE, channel |-> -1, registered |-> FALSE, attached |-> TRUE]

(* One hook of a connection was appended. *)
HooksGrow(s, t) ==
  /\ Len(t.hooks) = Len(s.hooks) + 1
  /\ \A j \in 1 .. Len(s.hooks) : SameHook(s, t, j)
  /\ t.hooks[Len(s.hooks) + 1].user \in Connections
  /\ ~t.hooks[Len(s.hooks) + 1].pending /\ ~t.hooks[Len(s.hooks) + 1].closing

(* The effect of multiplexer_control_accept; the new client is heard       *)
(* unless a hook with its fd was still there.                              *)
Accepted(s, t, k) ==
  /\ t \in Memory /\ HS(t) /\ ClientsLive(t) /\ HooksGrow(s, t)
  /\ Heard(s) /\ SlotsOf(s, FreeFd(s)) = {} => Heard(t)
  /\ \A j \in Connections \ {k} : t.h[j] = s.h[j]
  /\ t.h[k].st = "active" /\ t.c = [s.c EXCEPT ![k] = NewClient]
  /\ t.serialOut = s.serialOut /\ t.got = s.got /\ t.status = s.status /\ t.phase = s.phase

(* looper_enable found slot i: the new one, unless an old hook has the fd. *)
ListenAt(s, t, u, fd, i) ==
  /\ t.hooks[i].fd = fd
  /\ Turned(t, u, i, t.hooks[i].wanted \cup {"in"})
  /\ SlotsOf(s, fd) = {} => i = Len(s.hooks) + 1

(* The new hook, or an old one with the same number, is enabled. *)
LEMMA ListenTurns ==
  ASSUME NEW s \in Memory, NEW fd \in Fds, NEW user, NEW t, Added(s, t, fd, user)
  PROVE  \E i \in 1 .. Len(t.hooks) : ListenAt(s, t, looper_enable(t, fd, "in"), fd, i)
<1> DEFINE n == Len(s.hooks)
<1>0. /\ t \in Memory /\ n \in Nat /\ Len(t.hooks) = n + 1 /\ n + 1 \in 1 .. Len(t.hooks)
      /\ \A j \in 1 .. n : t.hooks[j] = s.hooks[j]
      /\ t.hooks[n + 1].fd = fd
      /\ \A j \in 1 .. Len(t.hooks) : j \in Nat /\ (j = n + 1 \/ j \in 1 .. n)
  BY DEF Added, NewHook
<1>a. DOMAIN t.hooks = 1 .. Len(t.hooks) /\ DOMAIN s.hooks = 1 .. n
  BY <1>0, LenProperties DEF Memory
<1> HIDE DEF n
<1>1. SlotsOf(t, fd) \in SUBSET Nat /\ n + 1 \in SlotsOf(t, fd)
  BY <1>0, <1>a DEF SlotsOf
<1> DEFINE i == looper_find(t, fd)
<1>2. \E x \in SlotsOf(t, fd) : \A y \in SlotsOf(t, fd) : x <= y
  BY <1>1, LeastExists
<1>3. i \in SlotsOf(t, fd)
  BY <1>2 DEF looper_find
<1>4. i \in 1 .. Len(t.hooks) /\ t.hooks[i].fd = fd
  BY <1>3, <1>a DEF SlotsOf
<1>5. ASSUME SlotsOf(s, fd) = {} PROVE i = n + 1
  <2>1. ~(i \in 1 .. n)
    <3>1. ASSUME i \in 1 .. n PROVE FALSE
      <4>1. t.hooks[i] = s.hooks[i]
        BY <3>1, <1>0
      <4>2. i \in SlotsOf(s, fd)
        BY <3>1, <4>1, <1>4, <1>a DEF SlotsOf
      <4> QED BY <4>2, <1>5
    <3> QED BY <3>1
  <2> QED BY <2>1, <1>4, <1>0
<1>6. looper_find(t, t.hooks[i].fd) = i
  BY <1>4
<1> HIDE DEF i
<1>7. Turned(t, looper_enable(t, t.hooks[i].fd, "in"), i, t.hooks[i].wanted \cup {"in"})
  BY <1>0, <1>4, <1>6, Enabled DEF Ev
<1> QED BY <1>4, <1>5, <1>7 DEF n, ListenAt

(* multiplexer_control_accept makes one client, and every client is still  *)
(* heard if the fd had no hook.                                            *)
LEMMA Accept ==
  ASSUME NEW s \in Memory, HS(s), ClientsLive(s), s.phase # "wait", NEW k \in Connections,
         s.h[k].st = "none"
  PROVE  Accepted(s, multiplexer_control_accept(s, k), k)
<1> DEFINE fd == FreeFd(s)
           hk == [st |-> "active", fd |-> fd, out |-> <<>>, notify |-> TRUE]
           hh == [s.h EXCEPT ![k] = hk]
           cc == [s.c EXCEPT ![k] = NewClient]
           s1 == [s EXCEPT !.h = hh, !.c = cc]
           s2 == looper_add(s1, fd, k)
           t == looper_enable(s2, fd, "in")
<1>0. fd \in Fds /\ fd \notin OpenFds(s)
  BY FdFree
<1> HIDE DEF fd
<1>1. hk \in Handlers
  <2>1. <<>> \in Seq(Connections)
    BY EmptySeq
  <2> QED BY <2>1, <1>0 DEF Handlers
<1>2. NewClient \in ClientObjects
  <2>1. -1 \in -1 .. (Channels - 1)
    BY QemudAssumption
  <2> QED BY <2>1 DEF NewClient, ClientObjects
<1>3. hh \in [Connections -> Handlers] /\ hh[k] = hk /\ \A j \in Connections \ {k} : hh[j] = s.h[j]
  <2> HIDE DEF hk
  <2> QED BY <1>1 DEF Memory
<1>4. cc \in [Connections -> ClientObjects] /\ cc[k] = NewClient /\ \A j \in Connections \ {k} : cc[j] = s.c[j]
  BY <1>2 DEF Memory
<1>5. multiplexer_control_accept(s, k) = t
  BY DEF multiplexer_control_accept, client_new, Listening, NewClient, Memory, fd
<1> HIDE DEF hh, cc
<1>6. /\ s1 \in Memory /\ s1.hooks = s.hooks /\ s1.epoll = s.epoll /\ s1.h = hh /\ s1.c = cc
      /\ s1.serialOut = s.serialOut /\ s1.got = s.got
      /\ s1.status = s.status /\ s1.phase = s.phase
  BY <1>3, <1>4 DEF Memory
<1> HIDE DEF s1
<1>7. Added(s1, s2, fd, k)
  BY <1>0, <1>6, Add
<1> HIDE DEF s2
<1>8. /\ s1.h[k].st = "active" /\ s1.h[k].fd = fd /\ s1.h[k].notify = TRUE /\ s1.h[k].out = <<>>
      /\ s1.c[k].channel = -1
  BY <1>3, <1>4, <1>6 DEF NewClient
<1>9. \A j \in Connections \ {k} : s1.h[j] = s.h[j] /\ s1.c[j] = s.c[j]
  BY <1>3, <1>4, <1>6
<1>10. HS(s2)
  BY <1>0, <1>6, <1>7, <1>8, <1>9, AddKeeps
<1>11. PICK i \in 1 .. Len(s2.hooks) : ListenAt(s1, s2, t, fd, i)
  <2>1. \E i \in 1 .. Len(s2.hooks) : ListenAt(s1, s2, looper_enable(s2, fd, "in"), fd, i)
    BY <1>0, <1>6, <1>7, ListenTurns
  <2> QED BY <2>1
<1> DEFINE w == s2.hooks[i].wanted \cup {"in"}
           n == Len(s.hooks)
<1> HIDE DEF t
<1>12. s2 \in Memory /\ Others(s1, s2) /\ fd # ControlFd /\ fd # SerialFd
  BY <1>0, <1>7 DEF Added, OpenFds
<1>13. i # 2
  BY <1>10, <1>11, <1>12 DEF HS, BaseHooks, ListenAt
<1>14. Turned(s2, t, i, w)
  BY <1>11 DEF ListenAt
<1> HIDE DEF w
<1>15. HS(t) /\ HooksAlike(s2, t)
  BY <1>10, <1>12, <1>13, <1>14, TurnedKeeps, Zenon
<1>16. t \in Memory /\ Others(s2, t)
  BY <1>14 DEF Turned
<1>17. /\ t.h = hh /\ t.c = cc /\ t.serialOut = s.serialOut /\ t.got = s.got
       /\ t.status = s.status /\ t.phase = s.phase
  BY <1>6, <1>12, <1>16 DEF Others
<1>18. /\ n \in Nat /\ Len(s2.hooks) = n + 1 /\ Len(t.hooks) = n + 1 /\ s2.hooks[n + 1] = NewHook(fd, k)
       /\ \A j \in 1 .. n : s2.hooks[j] = s.hooks[j]
       /\ n + 1 \in 1 .. Len(s2.hooks) /\ n >= 2
  BY <1>6, <1>7, <1>15 DEF Added, HooksAlike, HS, BaseHooks
<1>19. HooksGrow(s, t)
  <2>1. ASSUME NEW j \in 1 .. n PROVE SameHook(s, t, j)
    <3>1. j \in 1 .. Len(s2.hooks) /\ s2.hooks[j] = s.hooks[j]
      BY <1>18
    <3>2. SameHook(s2, t, j)
      BY <3>1, <1>15 DEF HooksAlike
    <3> QED BY <3>1, <3>2 DEF SameHook
  <2>2. SameHook(s2, t, n + 1)
    BY <1>15, <1>18 DEF HooksAlike
  <2>3. t.hooks[n + 1].user = k /\ ~t.hooks[n + 1].pending /\ ~t.hooks[n + 1].closing
    BY <2>2, <1>18 DEF SameHook, NewHook
  <2> QED BY <2>1, <2>3, <1>18 DEF HooksGrow
<1>20. ASSUME NEW m \in Connections
       PROVE  /\ t.c[m].live = (t.h[m].st = "active") /\ t.c[m].attached = t.c[m].live
              /\ t.h[m].notify = t.c[m].live
              /\ ~t.c[m].live => t.c[m].channel = -1
              /\ t.c[m].registered => t.c[m].channel # -1
  <2>1. CASE m = k
    <3>1. /\ NewClient.live = TRUE /\ NewClient.attached = TRUE /\ NewClient.registered = FALSE
      BY DEF NewClient
    <3>2. t.c[m] = NewClient /\ t.h[m].notify = TRUE /\ (t.h[m].st = "active") = TRUE
      BY <2>1, <1>3, <1>4, <1>17
    <3> QED BY <3>1, <3>2
  <2>2. CASE m # k
    BY <2>2, <1>3, <1>4, <1>17 DEF ClientsLive
  <2> QED BY <2>1, <2>2
<1>21. ClientsLive(t)
  BY <1>20 DEF ClientsLive
<1>22. ASSUME Heard(s), SlotsOf(s, fd) = {} PROVE Heard(t)
  <2>0. i = n + 1 /\ ~s2.hooks[i].closing /\ s2.hooks[i].wanted = {}
    <3>1. SlotsOf(s1, fd) = {} /\ Len(s1.hooks) = n
      BY <1>22, <1>6 DEF SlotsOf
    <3> QED BY <3>1, <1>11, <1>18 DEF NewHook, ListenAt
  <2>a. \A j \in 1 .. n : s.hooks[j].fd # fd /\ s.hooks[j].fd \in Fds
    <3>1. DOMAIN s.hooks = 1 .. n /\ \A j \in 1 .. n : s.hooks[j] \in HookSet
      BY LenProperties, ElementOfSeq DEF Memory
    <3> QED BY <3>1, <1>22 DEF SlotsOf, HookSet
  <2>1. HeardReg(s2)
    <3>1. ASSUME NEW j \in 1 .. Len(s2.hooks), NEW m \in 1 .. Len(s2.hooks), s2.hooks[j].fd = s2.hooks[m].fd
          PROVE  j = m
      <4>1. s2.hooks[n + 1].fd = fd
        BY <1>18 DEF NewHook
      <4>2. CASE j \in 1 .. n /\ m \in 1 .. n
        BY <4>2, <3>1, <1>18, <1>22 DEF Heard, HeardReg
      <4>3. CASE j = n + 1 /\ m \in 1 .. n
        BY <4>3, <4>1, <3>1, <1>18, <2>a
      <4>4. CASE j \in 1 .. n /\ m = n + 1
        BY <4>4, <4>1, <3>1, <1>18, <2>a
      <4> QED BY <4>2, <4>3, <4>4, <1>18
    <3>2. ASSUME NEW j \in 1 .. Len(s2.hooks)
          PROVE  /\ s2.hooks[j].closing => s2.epoll[s2.hooks[j].fd].slot = 0
                 /\ ~s2.hooks[j].closing =>
                      s2.epoll[s2.hooks[j].fd] = [wanted |-> s2.hooks[j].wanted, slot |-> j]
      <4>1. CASE j = n + 1
        BY <4>1, <1>6, <1>7, <1>18 DEF Added, NewHook
      <4>2. CASE j \in 1 .. n
        <5>1. s2.hooks[j] = s.hooks[j] /\ s2.epoll[s.hooks[j].fd] = s.epoll[s.hooks[j].fd]
          BY <4>2, <1>6, <1>7, <1>18, <2>a DEF Added
        <5> QED BY <4>2, <5>1, <1>22 DEF Heard, HeardReg
      <4> QED BY <4>1, <4>2, <1>18
    <3> QED BY <3>1, <3>2 DEF HeardReg
  <2>2. BaseHooks(s2)
    BY <1>10 DEF HS
  <2>3. HeardReg(t)
    BY <1>12, <1>14, <2>0, <2>1, <2>2, TurnedHeard, Zenon
  <2>4. ASSUME NEW j \in 3 .. Len(t.hooks), ~t.hooks[j].closing
        PROVE  /\ "in" \in t.hooks[j].wanted
               /\ "out" \in t.hooks[j].wanted <=> t.h[t.hooks[j].user].out # <<>>
    <3>0. j \in 1 .. Len(s2.hooks) /\ SameHook(s2, t, j) /\ (j = n + 1 \/ (j \in 1 .. n /\ j \in 3 .. n))
      BY <1>15, <1>18 DEF HooksAlike
    <3>1. CASE j = n + 1
      <4>1. t.hooks[i] = [s2.hooks[i] EXCEPT !.wanted = w] /\ s2.hooks[i] \in HookSet
        <5>1. s2.hooks \in Seq(HookSet) /\ DOMAIN s2.hooks = 1 .. Len(s2.hooks) /\ s2.hooks[i] \in HookSet
          BY <1>12, LenProperties, ElementOfSeq DEF Memory
        <5> QED BY <5>1, <1>14 DEF Turned
      <4>2. t.hooks[j].wanted = w /\ w = {"in"}
        BY <4>1, <3>1, <2>0 DEF HookSet, w
      <4>3. t.hooks[j].user = k
        BY <3>0, <3>1, <1>18 DEF SameHook, NewHook
      <4>4. t.h[k].out = <<>>
        BY <1>6, <1>8, <1>17
      <4> QED BY <4>2, <4>3, <4>4
    <3>2. CASE j \in 1 .. n /\ j \in 3 .. n
      <4>1. SameWanted(s2, t, j)
        <5>1. j # i
          BY <3>2, <2>0, <1>18
        <5> QED BY <3>0, <5>1, <1>12, <1>14, TurnedHook, Zenon
      <4>2. s2.hooks[j] = s.hooks[j]
        BY <3>2, <1>18
      <4>3. s.hooks[j].user # k /\ s.hooks[j].user \in Connections /\ ~s.hooks[j].closing
        BY <3>0, <3>2, <4>2, <2>4 DEF HS, BaseHooks, HookOfHandler, Opened, SameHook
      <4>4. t.h[s.hooks[j].user] = s.h[s.hooks[j].user]
        BY <4>3, <1>3, <1>17
      <4>5. t.hooks[j].user = s.hooks[j].user /\ t.hooks[j].wanted = s.hooks[j].wanted
        BY <3>0, <4>1, <4>2 DEF SameHook, SameWanted
      <4> QED BY <4>3, <4>4, <4>5, <3>2, <1>22 DEF Heard, HeardWant
    <3> QED BY <3>0, <3>1, <3>2
  <2> QED BY <2>3, <2>4 DEF Heard, HeardWant
<1>23. \A j \in Connections \ {k} : t.h[j] = s.h[j]
  BY <1>3, <1>17
<1>24. t.h[k].st = "active"
  BY <1>6, <1>8, <1>17
<1>25. t.c = [s.c EXCEPT ![k] = NewClient]
  BY <1>17 DEF cc
<1> QED BY <1>5, <1>15, <1>16, <1>17, <1>19, <1>21, <1>22, <1>23, <1>24, <1>25 DEF Accepted, fd

(* epoll_wait: the hooks only get events. *)
LEMMA WaitKeeps ==
  ASSUME NEW s \in Memory, HS(s), s.phase = "wait", NEW t \in Memory, t.phase = "hooks",
         t.epoll = s.epoll, t.h = s.h, t.c = s.c, Len(t.hooks) = Len(s.hooks),
         \A j \in 1 .. Len(s.hooks) :
           /\ t.hooks[j].fd = s.hooks[j].fd /\ t.hooks[j].user = s.hooks[j].user
           /\ t.hooks[j].wanted = s.hooks[j].wanted /\ ~t.hooks[j].closing
  PROVE  HS(t) /\ (Heard(s) => Heard(t))
<1>0. Len(s.hooks) \in Nat /\ \A j \in 1 .. Len(s.hooks) : ~s.hooks[j].closing
  BY LenProperties DEF Memory, HS, WaitsClean
<1>a. \A j \in 3 .. Len(s.hooks) : j \in 1 .. Len(s.hooks)
  BY <1>0
<1>b. \A j \in 1 .. Len(s.hooks) : t.hooks[j].closing = s.hooks[j].closing
  <2>1. \A j \in 1 .. Len(s.hooks) : s.hooks[j] \in HookSet /\ t.hooks[j] \in HookSet
    BY ElementOfSeq DEF Memory
  <2> QED BY <1>0, <2>1 DEF HookSet
<1>1. ASSUME NEW k \in Connections, Opened(s, k) PROVE Own(s, k)
  <2> SUFFICES ASSUME NEW i \in 1 .. Len(s.hooks), s.hooks[i].fd = s.h[k].fd PROVE s.hooks[i].user = k
    BY DEF Own
  <2>1. PICK m \in 3 .. Len(s.hooks) : s.hooks[m].user = k
    BY <1>1 DEF HS, HookOfHandler
  <2>2. s.hooks[m].fd = s.h[k].fd /\ s.hooks[m].fd # SerialFd /\ s.hooks[m].fd # ControlFd
    BY <2>1, <1>0, <1>a DEF HS, HookOfHandler, BaseHooks
  <2>3. i # 1 /\ i # 2
    BY <2>2 DEF HS, BaseHooks
  <2>4. i \in 3 .. Len(s.hooks)
    BY <2>3, <1>0
  <2>5. /\ s.hooks[i].user \in Connections /\ Opened(s, s.hooks[i].user)
        /\ s.h[s.hooks[i].user].fd = s.hooks[i].fd
    BY <2>4, <1>0, <1>a DEF HS, HookOfHandler, BaseHooks
  <2> QED BY <2>5, <1>1 DEF HS, FdsApart
<1>2. BaseHooks(t)
  BY <1>0, <1>a, SMTT(30) DEF HS, BaseHooks
<1>3. HookOfHandler(t)
  <2>1. ASSUME NEW j \in 3 .. Len(t.hooks)
        PROVE  /\ t.hooks[j].closing => t.h[t.hooks[j].user].st = "freed"
               /\ ~t.hooks[j].closing => /\ Opened(t, t.hooks[j].user)
                                         /\ t.h[t.hooks[j].user].fd = t.hooks[j].fd
    BY <1>0, <1>a DEF HS, HookOfHandler, Opened
  <2>2. \A k \in Connections : Opened(t, k) => \E i \in 3 .. Len(t.hooks) : t.hooks[i].user = k
    BY <1>a DEF HS, HookOfHandler, Opened
  <2> QED BY <2>1, <2>2 DEF HookOfHandler
<1>4. FdsApart(t)
  BY DEF HS, FdsApart, Opened
<1>5. Alone(t)
  <2> SUFFICES ASSUME NEW j \in 3 .. Len(t.hooks), NEW m, m = t.hooks[j].user, Opened(t, m)
               PROVE  Own(t, m)
    BY DEF Alone
  <2>1. m \in Connections /\ Opened(s, m)
    BY <1>a DEF HS, BaseHooks, Opened
  <2>2. Own(s, m)
    BY <2>1, <1>1
  <2> QED BY <2>2 DEF Own
<1>6. HS(t)
  BY <1>2, <1>3, <1>4, <1>5 DEF HS, WaitsClean
<1>7. Heard(s) => Heard(t)
  BY <1>b, HeardFrame DEF HS
<1> QED BY <1>6, <1>7

(* The effect of SweepHook: the last hook moved into slot i, with its      *)
(* registration.                                                           *)
Swept(s, t, i) ==
  /\ t \in Memory /\ t.h = s.h /\ t.c = s.c /\ t.serialOut = s.serialOut /\ t.got = s.got
  /\ t.last = s.last /\ t.status = s.status /\ t.phase = s.phase
  /\ Len(t.hooks) = Len(s.hooks) - 1
  /\ \A j \in 1 .. (Len(s.hooks) - 1) :
       t.hooks[j] = IF j = i THEN s.hooks[Len(s.hooks)] ELSE s.hooks[j]
  /\ \A e \in Fds : e # s.hooks[Len(s.hooks)].fd => t.epoll[e] = s.epoll[e]
  /\ LET m == s.hooks[Len(s.hooks)]
     IN  t.epoll[m.fd] = IF s.epoll[m.fd].slot = 0 THEN s.epoll[m.fd]
                         ELSE [wanted |-> m.wanted, slot |-> i]

(* SweepHook moves the last hook into the hole. *)
LEMMA SweepOne ==
  ASSUME NEW s \in Memory, NEW i \in 1 .. Len(s.hooks)
  PROVE  Swept(s, SweepHook(s, i), i)
<1> DEFINE n == Len(s.hooks)
           m == s.hooks[n]
           moved == [s.hooks EXCEPT ![i] = m]
           s1 == [s EXCEPT !.hooks = moved]
           s2 == Reprogram(s1, m.fd, i)
           cut == SubSeq(moved, 1, n - 1)
           t == [s2 EXCEPT !.hooks = cut]
<1>0. s.hooks \in Seq(HookSet) /\ n \in Nat \ {0} /\ n \in 1 .. n /\ n - 1 \in Nat /\ i \in Nat \ {0}
  BY LenProperties DEF Memory
<1>1. m \in HookSet /\ m.fd \in Fds /\ m.wanted \in SUBSET Ev
  <2>1. m \in HookSet
    BY <1>0, ElementOfSeq
  <2> QED BY <2>1 DEF HookSet
<1>2. /\ moved \in Seq(HookSet) /\ Len(moved) = n
      /\ \A j \in 1 .. n : moved[j] = IF j = i THEN m ELSE s.hooks[j]
  <2> HIDE DEF m
  <2> QED BY <1>0, <1>1, ExceptSeq
<1>3. SweepHook(s, i) = t
  <2>1. moved[i] = m
    BY <1>2
  <2> QED BY <2>1 DEF SweepHook
<1> HIDE DEF m, moved
<1>4. /\ cut \in Seq(HookSet) /\ Len(cut) = n - 1
      /\ \A j \in 1 .. (n - 1) : cut[j] = moved[j]
  <2>1. \A j \in 1 .. (n - 1) : moved[j] \in HookSet
    <3>1. \A j \in 1 .. (n - 1) : j \in 1 .. Len(moved)
      BY <1>0, <1>2
    <3> QED BY <3>1, <1>2, ElementOfSeq
  <2> HIDE DEF n
  <2> QED BY <1>0, <1>2, <2>1, SubSeqProperties
<1>5. /\ s1 \in Memory /\ s1.hooks = moved /\ s1.epoll = s.epoll /\ Others(s, s1)
  BY <1>2 DEF Memory, Others
<1> HIDE DEF s1
<1>6. /\ s2 \in Memory /\ Others(s, s2)
      /\ \A e \in Fds : e # m.fd => s2.epoll[e] = s.epoll[e]
      /\ s2.epoll[m.fd] = IF s.epoll[m.fd].slot = 0 THEN s.epoll[m.fd]
                          ELSE [wanted |-> m.wanted, slot |-> i]
  <2>1. CASE s.epoll[m.fd].slot = 0
    <3>1. s2 = s1
      BY <2>1, <1>5 DEF Reprogram, Registered
    <3> QED BY <2>1, <3>1, <1>5
  <2>2. CASE s.epoll[m.fd].slot # 0
    <3> DEFINE reg == [wanted |-> m.wanted, slot |-> i]
               epoll == [s.epoll EXCEPT ![m.fd] = reg]
    <3>1. moved[i].wanted = m.wanted
      BY <1>2
    <3>2. s2 = [s1 EXCEPT !.epoll[m.fd] = reg]
      BY <2>2, <3>1, <1>5 DEF Reprogram, Registered
    <3>3. reg \in Registrations
      BY <1>0, <1>1 DEF Registrations
    <3>4. epoll \in [Fds -> Registrations] /\ epoll[m.fd] = reg /\ \A e \in Fds : e # m.fd => epoll[e] = s.epoll[e]
      <4> HIDE DEF reg
      <4> QED BY <3>3, <1>1 DEF Memory
    <3>5. s2 = [s1 EXCEPT !.epoll = epoll]
      BY <3>2, <1>5
    <3> HIDE DEF s2, epoll
    <3>6. s2 \in Memory /\ s2.epoll = epoll /\ Others(s, s2)
      BY <3>4, <3>5, <1>5 DEF Memory, Others
    <3> QED BY <2>2, <3>4, <3>6
  <2> QED BY <2>1, <2>2
<1> HIDE DEF s2, cut
<1>7. t \in Memory /\ t.hooks = cut /\ t.epoll = s2.epoll /\ Others(s, t)
  BY <1>4, <1>6 DEF Memory, Others
<1>8. \A j \in 1 .. (n - 1) : cut[j] = IF j = i THEN m ELSE s.hooks[j]
  BY <1>0, <1>2, <1>4
<1> HIDE DEF t
<1> QED BY <1>3, <1>4, <1>6, <1>7, <1>8 DEF Swept, Others, m

(* Sweeping one closed hook keeps the invariants, and every connection     *)
(* heard, wherever the last hook was moved.                                *)
LEMMA SweepKeeps ==
  ASSUME NEW s \in Memory, HS(s), s.phase # "wait", NEW i \in 1 .. Len(s.hooks), s.hooks[i].closing,
         NEW t, Swept(s, t, i), \A j \in 1 .. Len(s.hooks) : ~s.hooks[j].pending
  PROVE  /\ HS(t) /\ (Heard(s) => Heard(t))
         /\ \A j \in 1 .. Len(t.hooks) : ~t.hooks[j].pending
<1> DEFINE n == Len(s.hooks)
           at == [j \in 1 .. Len(t.hooks) |-> IF j = i THEN n ELSE j]
<1>0. n \in Nat /\ Len(t.hooks) = n - 1 /\ i # 1 /\ i # 2 /\ i \in 3 .. n /\ n \in 3 .. n /\ t \in Memory
  <2>1. n \in Nat /\ i # 1 /\ i # 2 /\ Len(t.hooks) = n - 1
    BY LenProperties DEF Memory, HS, BaseHooks, Swept
  <2> QED BY <2>1 DEF Swept
<1>1. \A j \in 1 .. Len(t.hooks) : at[j] \in 1 .. n /\ t.hooks[j] = s.hooks[at[j]] /\ at[j] # i
  <2> TAKE j \in 1 .. Len(t.hooks)
  <2>1. j \in 1 .. (n - 1) /\ j \in 1 .. n /\ j # n /\ n \in 1 .. n
    BY <1>0
  <2>2. CASE j = i
    BY <2>1, <2>2 DEF Swept
  <2>3. CASE j # i
    BY <2>1, <2>3 DEF Swept
  <2> QED BY <2>2, <2>3
<1>2. \A j \in 3 .. Len(t.hooks) : j \in 1 .. Len(t.hooks) /\ at[j] \in 3 .. n
  <2> TAKE j \in 3 .. Len(t.hooks)
  <2>1. j \in 1 .. Len(t.hooks) /\ j \in 3 .. n
    BY <1>0
  <2> QED BY <2>1, <1>0
<1>3. \A j, m \in 1 .. Len(t.hooks) : at[j] = at[m] => j = m
  <2> TAKE j, m \in 1 .. Len(t.hooks)
  <2>1. j # n /\ m # n
    BY <1>0
  <2> QED BY <2>1
<1>4. 1 \in 1 .. Len(t.hooks) /\ 2 \in 1 .. Len(t.hooks) /\ at[1] = 1 /\ at[2] = 2
  BY <1>0
<1>5. \A x \in 1 .. n : x # i => \E j \in 1 .. Len(t.hooks) : at[j] = x
  <2> TAKE x \in 1 .. n
  <2> HAVE x # i
  <2>1. CASE x = n
    <3>1. i \in 1 .. Len(t.hooks) /\ at[i] = x
      BY <2>1, <1>0
    <3> QED BY <3>1
  <2>2. CASE x # n
    <3>1. x \in 1 .. Len(t.hooks) /\ at[x] = x
      BY <2>2, <1>0
    <3> QED BY <3>1
  <2> QED BY <2>1, <2>2
<1>6. \A j \in 1 .. Len(t.hooks) : at[j] \in 3 .. n => j \in 3 .. Len(t.hooks)
  <2> TAKE j \in 1 .. Len(t.hooks)
  <2> HAVE at[j] \in 3 .. n
  <2>1. j # 1 /\ j # 2
    BY <1>4
  <2> QED BY <2>1, <1>0
<1>7. /\ t.h = s.h /\ t.c = s.c /\ t.phase = s.phase
      /\ \A e \in Fds : e # s.hooks[n].fd => t.epoll[e] = s.epoll[e]
      /\ t.epoll[s.hooks[n].fd] = IF s.epoll[s.hooks[n].fd].slot = 0 THEN s.epoll[s.hooks[n].fd]
                                  ELSE [wanted |-> s.hooks[n].wanted, slot |-> i]
  BY DEF Swept
<1>b. \A j \in 1 .. n : s.hooks[j].fd \in Fds
  <2>1. \A j \in 1 .. n : s.hooks[j] \in HookSet
    BY ElementOfSeq DEF Memory
  <2> QED BY <2>1 DEF HookSet
<1>c. \A j \in 3 .. n : j \in 1 .. n
  BY <1>0
<1>d. \A j \in 1 .. Len(t.hooks) : (j = i => at[j] = n) /\ (j # i => at[j] = j /\ at[j] # n)
  BY <1>0
<1> HIDE DEF at, n
<1>8. BaseHooks(t)
  <2>1. Len(t.hooks) >= 2
    BY <1>0
  <2>2. \A j \in 3 .. Len(t.hooks) : /\ t.hooks[j].user \in Connections
                                     /\ t.hooks[j].fd # SerialFd /\ t.hooks[j].fd # ControlFd
    <3> TAKE j \in 3 .. Len(t.hooks)
    <3>1. at[j] \in 3 .. n /\ t.hooks[j] = s.hooks[at[j]]
      BY <1>1, <1>2, Zenon
    <3> QED BY <3>1 DEF HS, BaseHooks, n
  <2>3. \A j, m \in 3 .. Len(t.hooks) : t.hooks[j].user = t.hooks[m].user => j = m
    <3> TAKE j, m \in 3 .. Len(t.hooks)
    <3>1. /\ at[j] \in 3 .. n /\ t.hooks[j] = s.hooks[at[j]] /\ at[m] \in 3 .. n /\ t.hooks[m] = s.hooks[at[m]]
          /\ at[j] = at[m] => j = m
      BY <1>1, <1>2, <1>3, Zenon
    <3> QED BY <3>1 DEF HS, BaseHooks, n
  <2>4. ASSUME NEW e \in Fds, t.epoll[e].slot = 2 PROVE e = ControlFd
    <3>1. CASE e # s.hooks[n].fd
      BY <3>1, <2>4, <1>7 DEF HS, BaseHooks
    <3>2. CASE e = s.hooks[n].fd
      <4>1. CASE s.epoll[e].slot = 0
        BY <3>2, <4>1, <2>4, <1>7
      <4>2. CASE s.epoll[e].slot # 0
        BY <3>2, <4>2, <2>4, <1>7, <1>0
      <4> QED BY <4>1, <4>2
    <3> QED BY <3>1, <3>2
  <2> QED BY <2>1, <2>2, <2>3, <2>4, <1>1, <1>4, SMTT(30) DEF HS, BaseHooks
<1>9. HookOfHandler(t)
  <2>1. ASSUME NEW j \in 3 .. Len(t.hooks)
        PROVE  /\ t.hooks[j].closing => t.h[t.hooks[j].user].st = "freed"
               /\ ~t.hooks[j].closing => /\ Opened(t, t.hooks[j].user)
                                         /\ t.h[t.hooks[j].user].fd = t.hooks[j].fd
    <3>1. at[j] \in 3 .. n /\ t.hooks[j] = s.hooks[at[j]] /\ t.h = s.h
      BY <1>1, <1>2, <1>7, Zenon
    <3> QED BY <3>1 DEF HS, HookOfHandler, Opened, n
  <2>2. ASSUME NEW k \in Connections, Opened(t, k)
        PROVE  \E j \in 3 .. Len(t.hooks) : t.hooks[j].user = k
    <3>1. Opened(s, k)
      BY <2>2, <1>7 DEF Opened
    <3>2. PICK x \in 3 .. n : s.hooks[x].user = k
      BY <3>1 DEF HS, HookOfHandler, n
    <3>3. x # i
      BY <3>1, <3>2, <1>0 DEF HS, HookOfHandler, Opened, n
    <3>4. PICK j \in 1 .. Len(t.hooks) : at[j] = x
      BY <3>3, <1>5, <1>c
    <3> QED BY <3>2, <3>4, <1>1, <1>6
  <2> QED BY <2>1, <2>2 DEF HookOfHandler
<1>10. FdsApart(t)
  BY <1>7 DEF HS, FdsApart, Opened
<1>11. Alone(t)
  <2> SUFFICES ASSUME NEW j \in 3 .. Len(t.hooks), NEW m, m = t.hooks[j].user,
                      Opened(t, m), t.hooks[j].pending \/ t.c[m].channel # -1
               PROVE  Own(t, m)
    BY DEF Alone
  <2>1. at[j] \in 3 .. n /\ t.hooks[j] = s.hooks[at[j]] /\ Opened(s, m) /\ t.c = s.c /\ t.h = s.h
    BY <1>1, <1>2, <1>7 DEF Opened
  <2>2. Own(s, m)
    BY <2>1 DEF HS, Alone, n
  <2>3. ASSUME NEW x \in 1 .. Len(t.hooks), t.hooks[x].fd = t.h[m].fd PROVE t.hooks[x].user = m
    <3>1. at[x] \in 1 .. n /\ t.hooks[x] = s.hooks[at[x]]
      BY <1>1, Zenon
    <3> QED BY <3>1, <2>1, <2>2, <2>3 DEF Own, n
  <2> QED BY <2>3 DEF Own
<1>12. HS(t)
  BY <1>7, <1>8, <1>9, <1>10, <1>11 DEF HS, WaitsClean
<1>13. \A j \in 1 .. Len(t.hooks) : ~t.hooks[j].pending
  BY <1>1 DEF n
<1>14. ASSUME Heard(s) PROVE Heard(t)
  <2>a. n \in 1 .. n /\ i \in 1 .. n /\ i # 0 /\ n # 0
    BY <1>0
  <2>1. \A j, m \in 1 .. Len(t.hooks) : t.hooks[j].fd = t.hooks[m].fd => j = m
    <3> TAKE j, m \in 1 .. Len(t.hooks)
    <3>1. /\ at[j] \in 1 .. n /\ t.hooks[j] = s.hooks[at[j]] /\ at[m] \in 1 .. n /\ t.hooks[m] = s.hooks[at[m]]
          /\ at[j] = at[m] => j = m
      BY <1>1, <1>3, Zenon
    <3> QED BY <3>1, <1>14 DEF Heard, HeardReg, n
  <2>2. ASSUME NEW j \in 1 .. Len(t.hooks)
        PROVE  /\ t.hooks[j].closing => t.epoll[t.hooks[j].fd].slot = 0
               /\ ~t.hooks[j].closing =>
                    t.epoll[t.hooks[j].fd] = [wanted |-> t.hooks[j].wanted, slot |-> j]
    <3>1. CASE j # i
      <4>1. at[j] = j /\ j # n /\ j \in 1 .. n /\ t.hooks[j] = s.hooks[j]
        <5>1. at[j] \in 1 .. n /\ t.hooks[j] = s.hooks[at[j]] /\ at[j] = j /\ at[j] # n
          BY <3>1, <1>1, <1>d, Zenon
        <5> QED BY <5>1
      <4>2. s.hooks[j].fd # s.hooks[n].fd /\ s.hooks[j].fd \in Fds
        BY <4>1, <2>a, <1>14, <1>b DEF Heard, HeardReg, n
      <4>3. t.epoll[s.hooks[j].fd] = s.epoll[s.hooks[j].fd]
        BY <4>2, <1>7
      <4> QED BY <4>1, <4>3, <1>14 DEF Heard, HeardReg, n
    <3>2. CASE j = i
      <4>1. t.hooks[j] = s.hooks[n]
        <5>1. t.hooks[j] = s.hooks[at[j]] /\ at[j] = n
          BY <3>2, <1>1, <1>d, Zenon
        <5> QED BY <5>1
      <4>2. CASE s.hooks[n].closing
        <5>1. s.epoll[s.hooks[n].fd].slot = 0
          BY <4>2, <2>a, <1>14 DEF Heard, HeardReg, n
        <5> QED BY <4>1, <4>2, <5>1, <1>7
      <4>3. CASE ~s.hooks[n].closing
        <5>1. s.epoll[s.hooks[n].fd] = [wanted |-> s.hooks[n].wanted, slot |-> n]
          BY <4>3, <2>a, <1>14 DEF Heard, HeardReg, n
        <5>2. s.epoll[s.hooks[n].fd].slot # 0
          BY <5>1, <2>a
        <5> QED BY <3>2, <4>1, <4>3, <5>2, <1>7
      <4> QED BY <4>2, <4>3
    <3> QED BY <3>1, <3>2
  <2>3. HeardWant(t)
    <3> SUFFICES ASSUME NEW j \in 3 .. Len(t.hooks), ~t.hooks[j].closing
                 PROVE  /\ "in" \in t.hooks[j].wanted
                        /\ "out" \in t.hooks[j].wanted <=> t.h[t.hooks[j].user].out # <<>>
      BY DEF HeardWant
    <3>1. at[j] \in 3 .. n /\ t.hooks[j] = s.hooks[at[j]] /\ t.h = s.h
      BY <1>1, <1>2, <1>7, Zenon
    <3> QED BY <3>1, <1>14 DEF Heard, HeardWant, n
  <2> QED BY <2>1, <2>2, <2>3 DEF Heard, HeardReg
<1> QED BY <1>12, <1>13, <1>14

----------------------------------------------------------------------------
(* qemud: the invariant of the loop. *)

(* The effect of Listening on an fd without hooks. *)
Listens(s, t, fd, user) ==
  /\ t \in Memory /\ Others(s, t) /\ Len(s.hooks) \in Nat /\ Len(t.hooks) = Len(s.hooks) + 1
  /\ \A j \in 1 .. Len(s.hooks) : SameHook(s, t, j) /\ SameWanted(s, t, j)
  /\ t.hooks[Len(s.hooks) + 1].fd = fd /\ t.hooks[Len(s.hooks) + 1].user = user
  /\ t.hooks[Len(s.hooks) + 1].wanted = {"in"}
  /\ ~t.hooks[Len(s.hooks) + 1].pending /\ ~t.hooks[Len(s.hooks) + 1].closing
  /\ \A e \in Fds \ {fd} : t.epoll[e] = s.epoll[e]
  /\ t.epoll[fd] = [wanted |-> {"in"}, slot |-> Len(s.hooks) + 1]

(* Listening on an fd without hooks adds one hook that wants input. *)
LEMMA Listen ==
  ASSUME NEW s \in Memory, NEW fd \in Fds, NEW user \in Connections \cup {Serial, Control},
         SlotsOf(s, fd) = {}
  PROVE  Listens(s, Listening(s, fd, user), fd, user)
<1> DEFINE s2 == looper_add(s, fd, user)
           t == looper_enable(s2, fd, "in")
           n == Len(s.hooks)
<1>1. Added(s, s2, fd, user)
  BY Add
<1>2. Listening(s, fd, user) = t
  BY DEF Listening
<1> HIDE DEF s2
<1>3. \E i \in 1 .. Len(s2.hooks) : ListenAt(s, s2, t, fd, i)
  BY <1>1, ListenTurns
<1> HIDE DEF t
<1>4. PICK i \in 1 .. Len(s2.hooks) : ListenAt(s, s2, t, fd, i)
  BY <1>3
<1>5. /\ i = n + 1 /\ n \in Nat /\ Len(s2.hooks) = n + 1 /\ s2 \in Memory
      /\ s2.hooks[i] = NewHook(fd, user) /\ s2.hooks[i].wanted = {} /\ s2.hooks[i].fd = fd
      /\ \A j \in 1 .. n : s2.hooks[j] = s.hooks[j] /\ j # i /\ j \in 1 .. Len(s2.hooks)
  BY <1>1, <1>4 DEF Added, ListenAt, NewHook
<1>6. Turned(s2, t, i, {"in"})
  <2>1. s2.hooks[i].wanted \cup {"in"} = {"in"}
    BY <1>5
  <2> QED BY <1>4, <2>1 DEF ListenAt
<1>7. Others(s, t) /\ t \in Memory /\ Len(t.hooks) = n + 1
  BY <1>1, <1>5, <1>6 DEF Added, Turned, Others
<1>8. ASSUME NEW j \in 1 .. n PROVE SameHook(s, t, j) /\ SameWanted(s, t, j)
  <2>1. SameHook(s2, t, j) /\ SameWanted(s2, t, j)
    BY <1>5, <1>6, TurnedHook, Zenon
  <2>2. s2.hooks[j] = s.hooks[j]
    BY <1>5
  <2> QED BY <2>1, <2>2 DEF SameHook, SameWanted
<1>9. SameHook(s2, t, i) /\ t.hooks[i].wanted = {"in"}
  <2>1. SameHook(s2, t, i)
    BY <1>5, <1>6, TurnedHook, Zenon
  <2>2. s2.hooks \in Seq(HookSet) /\ DOMAIN s2.hooks = 1 .. Len(s2.hooks) /\ s2.hooks[i] \in HookSet
    BY <1>5, LenProperties, ElementOfSeq DEF Memory
  <2>3. t.hooks[i] = [s2.hooks[i] EXCEPT !.wanted = {"in"}]
    BY <2>2, <1>6 DEF Turned
  <2> QED BY <2>1, <2>2, <2>3 DEF HookSet
<1>10. /\ t.hooks[n + 1].fd = fd /\ t.hooks[n + 1].user = user
       /\ ~t.hooks[n + 1].pending /\ ~t.hooks[n + 1].closing
  BY <1>5, <1>9 DEF SameHook, NewHook
<1>11. \A e \in Fds \ {fd} : t.epoll[e] = s.epoll[e]
  BY <1>1, <1>5, <1>6 DEF Added, Turned
<1>12. t.epoll[fd] = [wanted |-> {"in"}, slot |-> n + 1]
  <2>1. s2.epoll[fd] = [wanted |-> s2.hooks[i].wanted, slot |-> i]
    BY <1>1, <1>5 DEF Added
  <2> QED BY <2>1, <1>5, <1>6 DEF Turned
<1> QED BY <1>2, <1>5, <1>7, <1>8, <1>9, <1>10, <1>11, <1>12 DEF Listens

(* The memory of the daemon before its first two hooks. *)
Blank(first) ==
  [hooks |-> <<>>, epoll |-> [fd \in Fds |-> [wanted |-> {}, slot |-> 0]],
   h |-> [k \in Connections |-> [st |-> "none", fd |-> 0, out |-> <<>>, notify |-> FALSE]],
   c |-> [k \in Connections |-> NoClient],
   serialOut |-> <<>>, got |-> <<>>, last |-> first, status |-> "running", phase |-> "wait"]

(* The blank memory has the type of the memory. *)
LEMMA BlankType == \A first \in Nat : Blank(first) \in Memory
<1> TAKE first \in Nat
<1>1. <<>> \in Seq(HookSet) /\ <<>> \in Seq(Frames) /\ <<>> \in Seq(Connections)
  BY EmptySeq
<1>2. [fd \in Fds |-> [wanted |-> {}, slot |-> 0]] \in [Fds -> Registrations]
  BY DEF Registrations
<1>3. [st |-> "none", fd |-> 0, out |-> <<>>, notify |-> FALSE] \in Handlers
  BY <1>1 DEF Handlers
<1>4. [k \in Connections |-> [st |-> "none", fd |-> 0, out |-> <<>>, notify |-> FALSE]] \in [Connections -> Handlers]
  BY <1>3
<1>5. [k \in Connections |-> NoClient] \in [Connections -> ClientObjects]
  BY NoClientType
<1> QED BY <1>1, <1>2, <1>4, <1>5 DEF Blank, Memory

(* The invariant of the loop holds initially. *)
LEMMA InitHook == QemudInit => HookInv
<1> SUFFICES ASSUME QemudInit PROVE HookInv
  OBVIOUS
<1>1. PICK first \in FirstChannel :
        d = Listening(Listening(Blank(first), SerialFd, Serial), ControlFd, Control)
  BY DEF QemudInit, Blank, NoClient
<1>2. Blank(first) \in Memory
  BY BlankType, QemudAssumption
<1> DEFINE s == Blank(first)
           s1 == Listening(s, SerialFd, Serial)
<1>3. /\ s.hooks = <<>> /\ Len(s.hooks) = 0 /\ s.serialOut = <<>> /\ s.got = <<>>
      /\ s.status = "running" /\ s.phase = "wait"
      /\ \A e \in Fds : s.epoll[e].slot = 0
      /\ \A k \in Connections : s.c[k] = NoClient /\ s.h[k].st = "none" /\ s.h[k].notify = FALSE
  BY EmptySeq DEF Blank
<1> HIDE DEF s
<1>4. SlotsOf(s, SerialFd) = {}
  BY <1>3 DEF SlotsOf
<1>5. Listens(s, s1, SerialFd, Serial)
  BY <1>2, <1>4, Listen, NatsFacts DEF s
<1> HIDE DEF s1
<1>6. /\ s1 \in Memory /\ Len(s1.hooks) = 1 /\ s1.hooks[1].fd = SerialFd /\ s1.hooks[1].user = Serial
      /\ s1.hooks[1].wanted = {"in"} /\ ~s1.hooks[1].pending /\ ~s1.hooks[1].closing
      /\ s1.epoll[SerialFd] = [wanted |-> {"in"}, slot |-> 1]
      /\ \A e \in Fds \ {SerialFd} : s1.epoll[e].slot = 0
      /\ Others(s, s1)
  BY <1>3, <1>5 DEF Listens
<1>7. SlotsOf(s1, ControlFd) = {}
  <2>1. DOMAIN s1.hooks = 1 .. 1
    BY <1>6, LenProperties DEF Memory
  <2> QED BY <2>1, <1>6 DEF SlotsOf, SerialFd, ControlFd
<1>8. Listens(s1, d, ControlFd, Control)
  <2>1. Listens(s1, Listening(s1, ControlFd, Control), ControlFd, Control)
    BY <1>6, <1>7, Listen, NatsFacts
  <2> QED BY <2>1, <1>1 DEF s, s1
<1>9. /\ d \in Memory /\ Len(d.hooks) = 2 /\ Others(s1, d)
      /\ d.hooks[1].fd = SerialFd /\ d.hooks[1].user = Serial
      /\ d.hooks[1].wanted = {"in"} /\ ~d.hooks[1].pending /\ ~d.hooks[1].closing
      /\ d.hooks[2].fd = ControlFd /\ d.hooks[2].user = Control
      /\ d.hooks[2].wanted = {"in"} /\ ~d.hooks[2].pending /\ ~d.hooks[2].closing
      /\ d.epoll[ControlFd] = [wanted |-> {"in"}, slot |-> 2]
      /\ d.epoll[SerialFd] = [wanted |-> {"in"}, slot |-> 1]
      /\ \A e \in Fds \ {SerialFd, ControlFd} : d.epoll[e].slot = 0
  <2>1. SameHook(s1, d, 1) /\ SameWanted(s1, d, 1)
    BY <1>6, <1>8 DEF Listens
  <2>2. SerialFd # ControlFd /\ SerialFd \in Fds
    BY NatsFacts DEF SerialFd, ControlFd
  <2>3. /\ d.epoll[SerialFd] = s1.epoll[SerialFd]
        /\ \A e \in Fds \ {SerialFd, ControlFd} : d.epoll[e].slot = 0
    BY <2>2, <1>6, <1>8 DEF Listens
  <2>4. /\ d \in Memory /\ Len(d.hooks) = 2 /\ Others(s1, d)
        /\ d.hooks[2].fd = ControlFd /\ d.hooks[2].user = Control
        /\ d.hooks[2].wanted = {"in"} /\ ~d.hooks[2].pending /\ ~d.hooks[2].closing
        /\ d.epoll[ControlFd] = [wanted |-> {"in"}, slot |-> 2]
    BY <1>6, <1>8 DEF Listens
  <2>5. /\ d.hooks[1].fd = SerialFd /\ d.hooks[1].user = Serial
        /\ d.hooks[1].wanted = {"in"} /\ ~d.hooks[1].pending /\ ~d.hooks[1].closing
    BY <2>1, <1>6 DEF SameHook, SameWanted
  <2> QED BY <2>3, <2>4, <2>5, <1>6
<1>10. /\ d.h = s.h /\ d.c = s.c /\ d.got = <<>> /\ d.status = "running" /\ d.phase = "wait"
  BY <1>3, <1>6, <1>9 DEF Others
<1>11. \A k \in Connections : ~Opened(d, k) /\ d.h[k].st = "none"
  BY <1>3, <1>10 DEF Opened
<1>12. \A i \in 1 .. 2 : ~d.hooks[i].pending /\ ~d.hooks[i].closing
  <2> TAKE i \in 1 .. 2
  <2>1. i = 1 \/ i = 2
    OBVIOUS
  <2> QED BY <2>1, <1>9
<1>13. HS(d)
  <2>1. BaseHooks(d)
    <3>1. ASSUME NEW e \in Fds, d.epoll[e].slot = 2 PROVE e = ControlFd
      <4>1. CASE e = SerialFd
        <5>1. d.epoll[e].slot = 1
          BY <4>1, <1>9
        <5> QED BY <5>1, <3>1
      <4>2. CASE e # SerialFd /\ e # ControlFd
        <5>1. d.epoll[e].slot = 0
          BY <4>2, <1>9
        <5> QED BY <5>1, <3>1
      <4> QED BY <4>1, <4>2
    <3>2. 3 .. Len(d.hooks) = {} /\ Len(d.hooks) >= 2
      BY <1>9
    <3> QED BY <3>1, <3>2, <1>9 DEF BaseHooks
  <2>2. HookOfHandler(d)
    BY <1>9, <1>11 DEF HookOfHandler
  <2>3. FdsApart(d) /\ Alone(d)
    BY <1>9, <1>11 DEF FdsApart, Alone
  <2>4. WaitsClean(d)
    BY <1>9, <1>12 DEF WaitsClean
  <2> QED BY <2>1, <2>2, <2>3, <2>4 DEF HS
<1>14. ClientsLive(d)
  <2>1. /\ NoClient.live = FALSE /\ NoClient.channel = -1 /\ NoClient.registered = FALSE
        /\ NoClient.attached = FALSE
    BY DEF NoClient
  <2>2. ASSUME NEW k \in Connections
        PROVE  d.c[k] = NoClient /\ d.h[k].notify = FALSE /\ (d.h[k].st = "active") = FALSE
    BY <1>3, <1>10
  <2> QED BY <2>1, <2>2 DEF ClientsLive
<1>15. Heard(d)
  <2>1. HeardReg(d)
    <3>1. \A i, j \in 1 .. 2 : d.hooks[i].fd = d.hooks[j].fd => i = j
      BY <1>9 DEF SerialFd, ControlFd
    <3>2. \A i \in 1 .. 2 : d.epoll[d.hooks[i].fd] = [wanted |-> d.hooks[i].wanted, slot |-> i]
      <4> TAKE i \in 1 .. 2
      <4>1. i = 1 \/ i = 2
        OBVIOUS
      <4> QED BY <4>1, <1>9
    <3> QED BY <3>1, <3>2, <1>9, <1>12 DEF HeardReg
  <2>2. HeardWant(d)
    BY <1>9 DEF HeardWant
  <2> QED BY <2>1, <2>2 DEF Heard
<1>16. /\ sock = [k \in Connections |-> [st |-> "idle", data |-> FALSE]]
       /\ backlog = <<>> /\ toEmu = <<>> /\ fromEmu = <<>>
       /\ emu = [open |-> [ch \in 0..(Channels - 1) |-> 0], started |-> 0, hungup |-> FALSE]
       /\ rude = FALSE /\ reused = FALSE /\ crossed = FALSE
  BY DEF QemudInit
<1>17. QemudType
  <2>1. <<>> \in Seq(Connections) /\ <<>> \in Seq(Frames)
    BY EmptySeq
  <2>2. sock \in [Connections -> Socks]
    BY <1>16 DEF Socks
  <2>3. emu \in Emulators
    BY <1>16 DEF Emulators
  <2> QED BY <2>1, <2>2, <2>3, <1>9, <1>16 DEF QemudType
<1>18. NotYet(d, backlog, sock)
  <2>1. Len(backlog) = 0
    BY <1>16, EmptySeq
  <2>2. ~ControlPending(d)
    BY <1>9, <1>12 DEF ControlPending
  <2> QED BY <2>1, <2>2, <1>11 DEF NotYet
<1>19. Politely(d, fromEmu)
  <2>1. Len(fromEmu) = 0 /\ Len(d.got) = 0
    BY <1>10, <1>16, EmptySeq
  <2> QED BY <2>1, <1>9, <1>10, <1>11, <1>12 DEF Politely
<1> QED BY <1>10, <1>13, <1>14, <1>15, <1>17, <1>18, <1>19 DEF HookInv, LoopInv, PoliteInv

(* looper_loop calls the callback of a pending hook. *)
LEMMA CurrentIs ==
  ASSUME HookInv, Pending # {}
  PROVE  Current \in 1 .. Len(d.hooks) /\ d.hooks[Current].pending
<1>1. DOMAIN d.hooks = 1 .. Len(d.hooks) /\ Len(d.hooks) \in Nat
  BY LenProperties DEF HookInv, QemudType, Memory
<1>2. Pending \in SUBSET Nat
  BY <1>1 DEF Pending
<1>3. \E x \in Pending : \A y \in Pending : x <= y
  BY <1>2, LeastExists, Zenon
<1>4. Current \in Pending
  BY <1>3 DEF Current
<1> QED BY <1>1, <1>4 DEF Pending

(* The slots of the serial line and of the control socket are the first    *)
(* two.                                                                    *)
LEMMA UserOf ==
  ASSUME NEW s \in Memory, BaseHooks(s), NEW i \in 1 .. Len(s.hooks)
  PROVE  /\ s.hooks[i].user = Serial => i = 1
         /\ s.hooks[i].user = Control => i = 2
         /\ s.hooks[i].user \in Connections => i \in 3 .. Len(s.hooks)
<1>1. Len(s.hooks) \in Nat
  BY LenProperties DEF Memory
<1>2. i = 1 \/ i = 2 \/ i \in 3 .. Len(s.hooks)
  BY <1>1
<1>3. Serial # Control /\ Serial \notin Connections /\ Control \notin Connections
  BY NatsFacts DEF Serial, Control
<1> QED BY <1>2, <1>3 DEF BaseHooks

(* The hooks are a sequence of hooks. *)
LEMMA HookTyped ==
  ASSUME NEW s \in Memory
  PROVE  /\ s.hooks \in Seq(HookSet) /\ Len(s.hooks) \in Nat /\ DOMAIN s.hooks = 1 .. Len(s.hooks)
         /\ \A i \in 1 .. Len(s.hooks) : s.hooks[i] \in HookSet
BY LenProperties, ElementOfSeq DEF Memory

(* epoll_wait keeps the invariant of the loop: it marks hooks, and closes  *)
(* none.                                                                   *)
LEMMA WaitHook == HookInv /\ EpollWait => HookInv'
<1> SUFFICES ASSUME HookInv, EpollWait PROVE HookInv'
  OBVIOUS
<1> DEFINE mine(i) == {fd \in Fds : Ready(fd) # {} /\ d.epoll[fd].slot = i}
           g == [i \in DOMAIN d.hooks |-> IF mine(i) = {} THEN d.hooks[i]
                   ELSE [d.hooks[i] EXCEPT !.pending = TRUE, !.closing = FALSE,
                                  !.events = Ready(CHOOSE fd \in mine(i) : TRUE)]]
<1>1. /\ d.status = "running" /\ d.phase = "wait" /\ d' = [d EXCEPT !.phase = "hooks", !.hooks = g]
      /\ UNCHANGED <<sock, backlog, toEmu, fromEmu, emu, sends, rude, reused, crossed>>
  BY DEF EpollWait
<1>2. /\ QemudType /\ d \in Memory /\ HS(d) /\ ClientsLive(d) /\ NotYet(d, backlog, sock) /\ d.got = <<>>
      /\ ~reused => Heard(d)
  BY <1>1 DEF HookInv, QemudType, LoopInv
<1>3. /\ d.hooks \in Seq(HookSet) /\ Len(d.hooks) \in Nat /\ DOMAIN d.hooks = 1 .. Len(d.hooks)
      /\ \A i \in 1 .. Len(d.hooks) : d.hooks[i] \in HookSet
  BY <1>2, HookTyped
<1>4. \A fd : Ready(fd) \in SUBSET Ev
  BY DEF Ready, Happening, Ev
<1>5. \A i \in 1 .. Len(d.hooks) : ~d.hooks[i].pending /\ ~d.hooks[i].closing
  BY <1>1, <1>2 DEF HS, WaitsClean
<1>6. ASSUME NEW i \in 1 .. Len(d.hooks)
      PROVE  /\ g[i] \in HookSet /\ g[i].fd = d.hooks[i].fd /\ g[i].user = d.hooks[i].user
             /\ g[i].wanted = d.hooks[i].wanted /\ ~g[i].closing
             /\ g[i].pending => mine(i) # {}
  <2> DEFINE r == Ready(CHOOSE fd \in mine(i) : TRUE)
  <2>1. d.hooks[i] \in HookSet /\ ~d.hooks[i].pending /\ ~d.hooks[i].closing
    BY <1>3, <1>5
  <2>2. g[i] = IF mine(i) = {} THEN d.hooks[i]
                   ELSE [d.hooks[i] EXCEPT !.pending = TRUE, !.closing = FALSE, !.events = r]
    BY <1>3
  <2>3. r \in SUBSET Ev
    BY <1>4
  <2> HIDE DEF r, g
  <2>4. CASE mine(i) = {}
    <3> HIDE DEF mine
    <3> QED BY <2>1, <2>2, <2>4
  <2>5. CASE mine(i) # {}
    <3> HIDE DEF mine
    <3> QED BY <2>1, <2>2, <2>3, <2>5 DEF HookSet
  <2> QED BY <2>4, <2>5
<1>7. g \in Seq(HookSet) /\ Len(g) = Len(d.hooks)
  <2>1. DOMAIN g = 1 .. Len(d.hooks) /\ g = [i \in DOMAIN g |-> g[i]]
    BY <1>3
  <2> HIDE DEF g
  <2>2. g \in [1 .. Len(d.hooks) -> HookSet]
    BY <2>1, <1>6
  <2> QED BY <2>1, <2>2, <1>3, SeqDef, LenProperties
<1>8. ASSUME NEW i \in 1 .. Len(d.hooks), g[i].user = Control, g[i].pending
      PROVE  backlog # <<>>
  <2>1. i = 2
    BY <1>6, <1>8, <1>2, UserOf DEF HS
  <2>2. PICK fd \in Fds : Ready(fd) # {} /\ d.epoll[fd].slot = 2
    BY <1>6, <1>8, <2>1
  <2>3. fd = ControlFd
    BY <2>2, <1>2 DEF HS, BaseHooks
  <2>4. Owner(fd) = Control
    BY <2>3 DEF Owner, SerialFd, ControlFd
  <2>5. Happening(fd, Control) # {}
    BY <2>2, <2>4 DEF Ready
  <2> QED BY <2>5 DEF Happening, Serial, Control
<1> HIDE DEF g, mine
<1>9. /\ d' \in Memory /\ d'.hooks = g /\ d'.epoll = d.epoll /\ d'.h = d.h /\ d'.c = d.c
      /\ d'.serialOut = d.serialOut /\ d'.got = d.got
      /\ d'.status = "running" /\ d'.phase = "hooks"
  BY <1>1, <1>2, <1>7 DEF Memory
<1>10. HS(d') /\ (Heard(d) => Heard(d'))
  <2>1. \A j \in 1 .. Len(d.hooks) :
          /\ d'.hooks[j].fd = d.hooks[j].fd /\ d'.hooks[j].user = d.hooks[j].user
          /\ d'.hooks[j].wanted = d.hooks[j].wanted /\ ~d'.hooks[j].closing
    BY <1>6, <1>9
  <2>2. Len(d'.hooks) = Len(d.hooks) /\ d.phase = "wait"
    BY <1>1, <1>7, <1>9
  <2> QED BY <2>1, <2>2, <1>2, <1>9, WaitKeeps, Zenon
<1>11. ClientsLive(d')
  BY <1>2, <1>9 DEF ClientsLive
<1>12. NotYet(d', backlog, sock)
  <2>1. ControlPending(d') => backlog # <<>>
    BY <1>7, <1>8, <1>9 DEF ControlPending
  <2> QED BY <2>1, <1>2, <1>9 DEF NotYet
<1>13. QemudType'
  BY <1>1, <1>2, <1>9 DEF QemudType
<1>14. LoopInv'
  BY <1>1, <1>2, <1>9, <1>10, <1>11, <1>12 DEF LoopInv
<1>15. PoliteInv'
  <2> SUFFICES ASSUME ~rude, ~emu.hungup PROVE Politely(d', fromEmu)
    BY <1>1 DEF PoliteInv
  <2>1. Politely(d, fromEmu)
    BY DEF HookInv, PoliteInv
  <2>2. \A i \in 1 .. Len(d'.hooks) : ~d'.hooks[i].closing
    BY <1>6, <1>7, <1>9
  <2> QED BY <2>1, <2>2, <1>9, <1>1 DEF Politely
<1> QED BY <1>13, <1>14, <1>15 DEF HookInv

(* The callback of the serial line starts: its hook is no longer pending. *)
LEMMA ReadsHook == HookInv /\ SerialReads => HookInv'
<1> SUFFICES ASSUME HookInv, SerialReads PROVE HookInv'
  OBVIOUS
<1>1. /\ d.status = "running" /\ d.phase = "hooks" /\ Pending # {} /\ d.hooks[Current].user = Serial
      /\ UNCHANGED <<sock, backlog, toEmu, emu, sends, rude, reused, crossed>>
  BY DEF SerialReads, Running
<1>2. /\ QemudType /\ d \in Memory /\ HS(d) /\ ClientsLive(d) /\ NotYet(d, backlog, sock)
      /\ ~reused => Heard(d)
      /\ fromEmu \in Seq(Frames)
  BY <1>1 DEF HookInv, QemudType, LoopInv
<1>3. Current \in 1 .. Len(d.hooks) /\ Current = 1
  BY <1>1, <1>2, CurrentIs, UserOf DEF HS
<1>a. Len(fromEmu) \in Nat
  BY <1>2, LenProperties
<1>4. \E n \in 0 .. Len(fromEmu) :
        /\ d' = [d EXCEPT !.hooks[1].pending = FALSE, !.phase = "serial",
                          !.got = SubSeq(fromEmu, 1, n)]
        /\ fromEmu' = SubSeq(fromEmu, n + 1, Len(fromEmu))
  <2>1. PICK n \in (IF "in" \in Events THEN 1..Len(fromEmu) ELSE {0}) :
       /\ d' = [d EXCEPT !.hooks[Current].pending = FALSE, !.phase = "serial",
                         !.got = SubSeq(fromEmu, 1, n)]
       /\ fromEmu' = SubSeq(fromEmu, n + 1, Len(fromEmu))
    BY DEF SerialReads
  <2>2. n \in 0 .. Len(fromEmu)
    BY <1>a
  <2> QED BY <1>3, <2>1, <2>2
<1>5. PICK n \in 0 .. Len(fromEmu) :
        /\ d' = [d EXCEPT !.hooks[1].pending = FALSE, !.phase = "serial",
                          !.got = SubSeq(fromEmu, 1, n)]
        /\ fromEmu' = SubSeq(fromEmu, n + 1, Len(fromEmu))
  BY <1>4
<1>6. /\ d.hooks \in Seq(HookSet) /\ DOMAIN d.hooks = 1 .. Len(d.hooks) /\ d.hooks[1] \in HookSet
  BY <1>2, <1>3, HookTyped
<1> DEFINE x == [d.hooks[1] EXCEPT !.pending = FALSE]
           g == [d.hooks EXCEPT ![1] = x]
           q == SubSeq(fromEmu, 1, n)
           r == SubSeq(fromEmu, n + 1, Len(fromEmu))
<1>7. /\ x \in HookSet /\ x.fd = d.hooks[1].fd /\ x.user = d.hooks[1].user /\ ~x.pending
      /\ x.closing = d.hooks[1].closing /\ x.wanted = d.hooks[1].wanted
  BY <1>6 DEF HookSet
<1>8. g \in Seq(HookSet)
  <2> HIDE DEF x
  <2> QED BY <1>3, <1>6, <1>7, ExceptSeq
<1>9. /\ q \in Seq(Frames) /\ r \in Seq(Frames)
      /\ \A i \in 1 .. Len(q) : q[i] = fromEmu[i] /\ i \in 1 .. Len(fromEmu)
      /\ \A i \in 1 .. Len(r) : r[i] = fromEmu[n + i] /\ n + i \in 1 .. Len(fromEmu)
  <2>0. n \in Nat /\ n <= Len(fromEmu)
    BY <1>a
  <2>1. /\ q \in Seq(Frames) /\ Len(q) = n /\ \A i \in 1 .. Len(q) : q[i] = fromEmu[i]
    BY <1>2, <1>a, <2>0, SubSeqProperties
  <2>2. /\ r \in Seq(Frames) /\ Len(r) = Len(fromEmu) - n
        /\ \A i \in 1 .. Len(r) : r[i] = fromEmu[n + i]
    BY <1>2, <1>a, <2>0, SubSeqProperties
  <2> HIDE DEF q, r
  <2> QED BY <1>a, <2>0, <2>1, <2>2
<1>10. d' = [d EXCEPT !.hooks = g, !.phase = "serial", !.got = q] /\ fromEmu' = r
  BY <1>5, <1>2 DEF Memory
<1> HIDE DEF g, q, r, x
<1>11. /\ d' \in Memory /\ d'.hooks = g /\ d'.epoll = d.epoll /\ d'.h = d.h /\ d'.c = d.c
       /\ d'.serialOut = d.serialOut /\ d'.got = q
       /\ d'.status = "running" /\ d'.phase = "serial"
  BY <1>1, <1>2, <1>8, <1>9, <1>10 DEF Memory
<1>12. Marked(d, d', 1)
  <2>1. d'.hooks = [d.hooks EXCEPT ![1] = x]
    BY <1>11 DEF g
  <2> QED BY <2>1, <1>2, <1>3, <1>7, MarkHook
<1>13. HS(d') /\ (Heard(d) => Heard(d'))
  <2>1. d'.phase = "wait" => d.phase = "wait"
    BY <1>11
  <2> QED BY <2>1, <1>2, <1>11, <1>12, MarkedKeeps
<1>14. ClientsLive(d')
  BY <1>2, <1>11 DEF ClientsLive
<1>15. NotYet(d', backlog, sock)
  <2>1. ControlPending(d') => ControlPending(d)
    BY <1>12 DEF ControlPending, Marked
  <2> QED BY <2>1, <1>2, <1>11 DEF NotYet
<1>16. QemudType'
  BY <1>1, <1>2, <1>9, <1>10, <1>11 DEF QemudType
<1>17. LoopInv'
  BY <1>1, <1>2, <1>11, <1>13, <1>14, <1>15 DEF LoopInv
<1>18. PoliteInv'
  <2> SUFFICES ASSUME ~rude, ~emu.hungup PROVE Politely(d', r)
    BY <1>1, <1>10 DEF PoliteInv
  <2>1. Politely(d, fromEmu)
    BY DEF HookInv, PoliteInv
  <2>2. \A i \in 1 .. Len(d'.hooks) : d'.hooks[i].pending => ~d'.hooks[i].closing
    BY <1>12, <2>1, <1>1 DEF Marked, Politely
  <2>3. /\ \A i \in 1 .. Len(q) : q[i].op # "disconnect"
        /\ \A i \in 1 .. Len(r) : r[i].op # "disconnect"
    BY <1>9, <2>1, <1>1 DEF Politely
  <2> QED BY <2>1, <2>2, <2>3, <1>11, <1>1 DEF Politely
<1> QED BY <1>16, <1>17, <1>18 DEF HookInv

(* The invariants read the hooks, epoll, handlers, clients and phase only. *)
LEMMA AlikeKeeps ==
  ASSUME NEW s, NEW t, t.hooks = s.hooks, t.epoll = s.epoll, t.h = s.h, t.c = s.c, t.phase = s.phase
  PROVE  /\ HS(s) => HS(t)
         /\ Heard(s) => Heard(t)
         /\ ClientsLive(s) => ClientsLive(t)
<1>1. HS(s) => HS(t)
  <2>1. BaseHooks(s) => BaseHooks(t)
    BY DEF BaseHooks
  <2>2. HookOfHandler(s) => HookOfHandler(t)
    BY DEF HookOfHandler, Opened
  <2>3. FdsApart(s) => FdsApart(t)
    BY DEF FdsApart, Opened
  <2>4. Alone(s) => Alone(t)
    BY SMTT(30) DEF Alone, Opened, Own
  <2>5. WaitsClean(s) => WaitsClean(t)
    BY DEF WaitsClean
  <2> QED BY <2>1, <2>2, <2>3, <2>4, <2>5 DEF HS
<1>2. Heard(s) => Heard(t)
  BY DEF Heard, HeardReg, HeardWant
<1>3. ClientsLive(s) => ClientsLive(t)
  BY DEF ClientsLive
<1> QED BY <1>1, <1>2, <1>3

(* Elements of a tail are elements of the sequence. *)
LEMMA TailIn ==
  ASSUME NEW S, NEW q \in Seq(S), q # <<>>
  PROVE  /\ Head(q) \in S /\ Tail(q) \in Seq(S) /\ Len(q) \in Nat \ {0} /\ Len(Tail(q)) = Len(q) - 1
         /\ Head(q) = q[1] /\ 1 \in 1 .. Len(q)
         /\ \A i \in 1 .. Len(Tail(q)) : Tail(q)[i] = q[i + 1] /\ i + 1 \in 1 .. Len(q)
<1>1. Len(q) \in Nat \ {0}
  BY EmptySeq, LenProperties
<1>2. Head(q) \in S /\ Tail(q) \in Seq(S) /\ Len(Tail(q)) = Len(q) - 1 /\ Head(q) = q[1]
  BY HeadTailProperties
<1>3. \A i \in 1 .. Len(Tail(q)) : Tail(q)[i] = q[i + 1]
  BY <1>1, HeadTailProperties
<1> QED BY <1>1, <1>2, <1>3

(* Handling one frame of the serial line keeps the invariant of the loop. *)
LEMMA ReceivesHook == HookInv /\ SerialReceives => HookInv'
<1> SUFFICES ASSUME HookInv, SerialReceives PROVE HookInv'
  OBVIOUS
<1> DEFINE f == Head(d.got)
           u == multiplexer_serial_receive(d, f)
<1>1. /\ d.status = "running" /\ d.phase = "serial" /\ d.got # <<>>
      /\ d' = [u EXCEPT !.got = Tail(u.got)] /\ crossed' \in BOOLEAN
      /\ UNCHANGED <<sock, backlog, toEmu, fromEmu, emu, sends, rude, reused>>
  BY DEF SerialReceives, HookInv, QemudType
<1>2. /\ QemudType /\ d \in Memory /\ HS(d) /\ ClientsLive(d) /\ NotYet(d, backlog, sock)
      /\ ~reused => Heard(d)
      /\ d.got \in Seq(Frames)
  BY <1>1 DEF HookInv, QemudType, LoopInv, Memory
<1>3. /\ f \in Frames /\ Tail(d.got) \in Seq(Frames) /\ f = d.got[1] /\ 1 \in 1 .. Len(d.got)
      /\ \A i \in 1 .. Len(Tail(d.got)) : Tail(d.got)[i] = d.got[i + 1] /\ i + 1 \in 1 .. Len(d.got)
  BY <1>1, <1>2, TailIn
<1>4. FrameHandled(d, u, f)
  BY <1>1, <1>2, <1>3, HandleFrame
<1> HIDE DEF f, u
<1>5. u \in Memory /\ u.got = d.got /\ u.status = "running" /\ u.phase = "serial"
  BY <1>1, <1>4 DEF FrameHandled
<1>6. /\ d' \in Memory /\ d'.hooks = u.hooks /\ d'.epoll = u.epoll /\ d'.h = u.h /\ d'.c = u.c
      /\ d'.got = Tail(d.got) /\ d'.status = "running" /\ d'.phase = "serial" /\ d'.phase = u.phase
  BY <1>1, <1>3, <1>5 DEF Memory
<1>7. HS(d') /\ ClientsLive(d') /\ (~reused => Heard(d'))
  <2>1. HS(u) /\ ClientsLive(u) /\ (~reused => Heard(u))
    BY <1>2, <1>4 DEF FrameHandled
  <2> QED BY <2>1, <1>6, AlikeKeeps
<1>8. NotYet(d', backlog, sock)
  <2>1. ControlPending(d') => ControlPending(d)
    BY <1>4, <1>6 DEF ControlPending, FrameHandled
  <2>2. \A k \in Connections : d'.h[k].st = "none" <=> d.h[k].st = "none"
    BY <1>4, <1>6 DEF FrameHandled
  <2>3. backlog \in Seq(Connections) /\ \A i \in 1 .. Len(backlog) : backlog[i] \in Connections
    BY <1>2, ElementOfSeq DEF QemudType
  <2> QED BY <2>1, <2>2, <2>3, <1>2 DEF NotYet
<1>9. QemudType'
  BY <1>1, <1>2, <1>6 DEF QemudType
<1>10. LoopInv'
  BY <1>1, <1>6, <1>7, <1>8 DEF LoopInv
<1>11. PoliteInv'
  <2> SUFFICES ASSUME ~rude, ~emu.hungup PROVE Politely(d', fromEmu)
    BY <1>1 DEF PoliteInv
  <2>1. Politely(d, fromEmu)
    BY DEF HookInv, PoliteInv
  <2>2. f.op # "disconnect"
    BY <1>3, <2>1, <1>1 DEF Politely
  <2>3. HooksAlike(d, u) /\ SameStates(d, u)
    BY <2>2, <1>4 DEF FrameHandled
  <2>4. \A i \in 1 .. Len(d'.hooks) : d'.hooks[i].pending => ~d'.hooks[i].closing
    BY <2>1, <2>3, <1>6, <1>1 DEF HooksAlike, SameHook, Politely
  <2>5. \A k \in Connections : d'.h[k].st # "closing"
    BY <2>1, <2>3, <1>6, <1>1 DEF SameStates, Politely
  <2>6. \A i \in 1 .. Len(d'.got) : d'.got[i].op # "disconnect"
    BY <2>1, <1>3, <1>6, <1>1 DEF Politely
  <2> QED BY <2>1, <2>4, <2>5, <2>6, <1>6, <1>1 DEF Politely
<1> QED BY <1>9, <1>10, <1>11 DEF HookInv

(* Turning the events of the serial line leaves every handler's hook. *)
LEMMA SerialTurned ==
  ASSUME NEW s \in Memory, HS(s), NEW t, NEW w, Turned(s, t, 1, w)
  PROVE  HS(t) /\ HooksAlike(s, t) /\ (Heard(s) => Heard(t))
<1>0. SlotsOf(s, SerialFd) = {1} /\ s.hooks[1].fd = SerialFd /\ 1 \in 1 .. Len(s.hooks)
  BY SerialSlot DEF HS
<1>4. HS(t) /\ HooksAlike(s, t)
  <2>1. 1 = 2 => s.hooks[1].fd = ControlFd
    OBVIOUS
  <2> QED BY <2>1, <1>0, TurnedKeeps, Zenon
<1>5. ASSUME Heard(s) PROVE Heard(t)
  <2>1. HeardReg(t)
    BY <1>5, <1>0, TurnedHeard DEF Heard, HS, BaseHooks
  <2>2. \A i \in 3 .. Len(t.hooks) : i \in 1 .. Len(s.hooks) /\ i # 1 /\ i \in 3 .. Len(s.hooks)
    <3>1. Len(t.hooks) = Len(s.hooks) /\ Len(s.hooks) \in Nat
      BY LenProperties DEF Turned, Memory
    <3> QED BY <3>1
  <2>3. \A i \in 3 .. Len(t.hooks) : /\ t.hooks[i].user = s.hooks[i].user
             /\ t.hooks[i].closing = s.hooks[i].closing /\ t.hooks[i].wanted = s.hooks[i].wanted
    <3> TAKE i \in 3 .. Len(t.hooks)
    <3>1. SameHook(s, t, i)
      BY <2>2, <1>0, TurnedHook, Zenon
    <3>2. SameWanted(s, t, i)
      BY <2>2, <1>0, TurnedHook, Zenon
    <3> QED BY <3>1, <3>2 DEF SameHook, SameWanted
  <2>4. t.h = s.h
    BY DEF Turned, Others
  <2>5. HeardWant(t)
    BY <2>2, <2>3, <2>4, <1>5 DEF Heard, HeardWant
  <2> QED BY <2>1, <2>5 DEF Heard
<1> QED BY <1>4, <1>5

(* The effect of the second half of the callback of the serial line. *)
SerialWritten(s, t) ==
  /\ t \in Memory /\ HS(t) /\ (Heard(s) => Heard(t)) /\ HooksAlike(s, t)
  /\ t.h = s.h /\ t.c = s.c /\ t.got = s.got /\ t.status = s.status /\ t.phase = "hooks"

(* Output is turned off when the last packet was written. *)
OffIf(s, off) == IF off THEN looper_disable(s, SerialFd, "out") ELSE s

(* The write to the serial line changes its hook and its queue only. *)
LEMMA WriteSerial ==
  ASSUME NEW s \in Memory, HS(s), s.phase = "serial", NEW q \in Seq(Frames), NEW t, NEW s1, NEW off,
         s1 = [s EXCEPT !.phase = "hooks", !.hooks[1].events = {}, !.serialOut = q],
         t = OffIf(s1, off)
  PROVE  SerialWritten(s, t) /\ t.serialOut = q
<1>0. SlotsOf(s, SerialFd) = {1} /\ s.hooks[1].fd = SerialFd /\ 1 \in 1 .. Len(s.hooks)
  BY SerialSlot DEF HS
<1>1. /\ s.hooks \in Seq(HookSet) /\ Len(s.hooks) \in Nat /\ DOMAIN s.hooks = 1 .. Len(s.hooks)
      /\ \A i \in 1 .. Len(s.hooks) : s.hooks[i] \in HookSet
  BY HookTyped
<1> DEFINE x == [s.hooks[1] EXCEPT !.events = {}]
           g == [s.hooks EXCEPT ![1] = x]
<1>2. /\ x \in HookSet /\ x.fd = s.hooks[1].fd /\ x.user = s.hooks[1].user
      /\ x.pending = s.hooks[1].pending
      /\ x.closing = s.hooks[1].closing /\ x.wanted = s.hooks[1].wanted
  BY <1>0, <1>1, ZenonT(40) DEF HookSet
<1> HIDE DEF x
<1>3. /\ g \in Seq(HookSet) /\ Len(g) = Len(s.hooks)
      /\ \A j \in 1 .. Len(s.hooks) : g[j] = IF j = 1 THEN x ELSE s.hooks[j]
  BY <1>0, <1>1, <1>2, ExceptSeq, LenProperties
<1>4. s1 = [s EXCEPT !.phase = "hooks", !.hooks = g, !.serialOut = q]
  BY DEF x, Memory
<1> HIDE DEF g
<1>5. /\ s1 \in Memory /\ s1.hooks = g /\ s1.epoll = s.epoll /\ s1.h = s.h /\ s1.c = s.c
      /\ s1.got = s.got /\ s1.serialOut = q /\ s1.status = s.status /\ s1.phase = "hooks"
  BY <1>3, <1>4 DEF Memory
<1>6. \A j \in 1 .. Len(s.hooks) : SameHook(s, s1, j) /\ SameWanted(s, s1, j)
  BY <1>2, <1>3, <1>5 DEF SameHook, SameWanted
<1>7. HooksAlike(s, s1)
  BY <1>3, <1>5, <1>6 DEF HooksAlike
<1>8. Marked(s, s1, 0)
  <2>1. s1.hooks \in Seq(HookSet) /\ Len(s1.hooks) = Len(s.hooks)
    BY <1>3, <1>5
  <2>2. ASSUME NEW j \in 1 .. Len(s.hooks)
        PROVE  /\ s1.hooks[j].fd = s.hooks[j].fd /\ s1.hooks[j].user = s.hooks[j].user
               /\ s1.hooks[j].closing = s.hooks[j].closing /\ s1.hooks[j].wanted = s.hooks[j].wanted
               /\ s1.hooks[j].pending => s.hooks[j].pending /\ j # 0
    <3>1. SameHook(s, s1, j) /\ SameWanted(s, s1, j)
      BY <1>6
    <3>2. j # 0
      BY <1>1
    <3> QED BY <3>1, <3>2 DEF SameHook, SameWanted
  <2> QED BY <2>1, <2>2 DEF Marked
<1>9. HS(s1) /\ (Heard(s) => Heard(s1))
  <2>1. s1.phase = "wait" => s.phase = "wait"
    BY <1>5
  <2> QED BY <1>5, <1>8, <2>1, MarkedKeeps
<1>10. CASE ~off
  BY <1>5, <1>7, <1>9, <1>10 DEF SerialWritten, OffIf
<1>11. CASE off
  <2> DEFINE w == s1.hooks[1].wanted \ {"out"}
  <2>1. SlotsOf(s1, SerialFd) = {1} /\ s1.hooks[1].fd = SerialFd /\ 1 \in 1 .. Len(s1.hooks)
    BY <1>5, <1>9, SerialSlot DEF HS
  <2>2. looper_find(s1, s1.hooks[1].fd) = 1
    <3>1. SlotsOf(s1, s1.hooks[1].fd) = {1} /\ 1 \in Nat
      BY <2>1
    <3> QED BY <3>1, FindSlot, Zenon
  <2>3. Turned(s1, looper_disable(s1, s1.hooks[1].fd, "out"), 1, w)
    BY <1>5, <2>1, <2>2, Disabled DEF Ev
  <2>4. Turned(s1, t, 1, w)
    BY <2>1, <2>3, <1>11 DEF OffIf
  <2> HIDE DEF w
  <2>5. HS(t) /\ HooksAlike(s1, t) /\ (Heard(s1) => Heard(t))
    BY <1>5, <1>9, <2>4, SerialTurned
  <2>6. HooksAlike(s, t)
    BY <2>5, <1>7 DEF HooksAlike, SameHook
  <2> QED BY <1>5, <1>9, <2>4, <2>5, <2>6 DEF SerialWritten, Turned, Others
<1> QED BY <1>10, <1>11

(* The end of the callback of the serial line keeps the invariant of the   *)
(* loop.                                                                   *)
LEMMA WritesHook == HookInv /\ SerialWrites => HookInv'
<1> SUFFICES ASSUME HookInv, SerialWrites PROVE HookInv'
  OBVIOUS
<1>1. d.status = "running" /\ d.phase = "serial" /\ d.got = <<>>
  BY DEF SerialWrites
<1>2. /\ QemudType /\ d \in Memory /\ HS(d) /\ ClientsLive(d) /\ NotYet(d, backlog, sock)
      /\ ~reused => Heard(d)
      /\ d.serialOut \in Seq(Frames) /\ toEmu \in Seq(Frames)
  BY <1>1 DEF HookInv, QemudType, LoopInv, Memory
<1>3. looper_find(d, SerialFd) = 1
  BY <1>2, SerialSlot, FindSlot DEF HS
<1> DEFINE writes == "out" \in d.hooks[1].events /\ d.serialOut # <<>>
           q == IF writes THEN Tail(d.serialOut) ELSE d.serialOut
           s == [d EXCEPT !.phase = "hooks", !.hooks[1].events = {}, !.serialOut = q]
           off == writes /\ s.serialOut = <<>>
<1>4. /\ toEmu' = IF writes THEN Append(toEmu, Head(d.serialOut)) ELSE toEmu
      /\ d' = IF off THEN looper_disable(s, SerialFd, "out") ELSE s
      /\ UNCHANGED <<sock, backlog, fromEmu, emu, sends, rude, reused, crossed>>
  BY <1>3 DEF SerialWrites
<1>5. q \in Seq(Frames) /\ toEmu' \in Seq(Frames)
  <2>1. CASE writes
    BY <1>2, <1>4, <2>1, TailIn, AppendProperties
  <2>2. CASE ~writes
    BY <1>2, <1>4, <2>2
  <2> QED BY <2>1, <2>2
<1>6. SerialWritten(d, d') /\ d'.serialOut = q
  <2>1. s = [d EXCEPT !.phase = "hooks", !.hooks[1].events = {}, !.serialOut = q]
    OBVIOUS
  <2>2. d' = OffIf(s, off)
    BY <1>4 DEF OffIf
  <2> HIDE DEF q, off, writes, s
  <2> QED BY <1>1, <1>2, <1>5, <2>1, <2>2, WriteSerial
<1> HIDE DEF q, off, writes, s
<1>7. /\ d' \in Memory /\ HS(d') /\ d'.h = d.h /\ d'.c = d.c /\ d'.got = <<>> /\ d'.status = "running"
      /\ d'.phase = "hooks" /\ (~reused => Heard(d')) /\ HooksAlike(d, d')
  BY <1>1, <1>2, <1>6 DEF SerialWritten
<1>8. ClientsLive(d')
  BY <1>2, <1>7 DEF ClientsLive
<1>9. NotYet(d', backlog, sock)
  <2>1. ControlPending(d') => ControlPending(d)
    BY <1>7 DEF ControlPending, HooksAlike, SameHook
  <2> QED BY <2>1, <1>2, <1>7 DEF NotYet
<1>10. QemudType'
  BY <1>2, <1>4, <1>5, <1>7 DEF QemudType
<1>11. LoopInv'
  BY <1>4, <1>7, <1>8, <1>9 DEF LoopInv
<1>12. PoliteInv'
  <2> SUFFICES ASSUME ~rude, ~emu.hungup PROVE Politely(d', fromEmu)
    BY <1>4 DEF PoliteInv
  <2>1. Politely(d, fromEmu)
    BY DEF HookInv, PoliteInv
  <2>2. \A i \in 1 .. Len(d'.hooks) : d'.hooks[i].pending => ~d'.hooks[i].closing
    BY <2>1, <1>7, <1>1 DEF HooksAlike, SameHook, Politely
  <2>3. Len(d'.got) = 0
    BY <1>7, EmptySeq
  <2> QED BY <2>1, <2>2, <2>3, <1>7, <1>1 DEF Politely
<1> QED BY <1>10, <1>11, <1>12 DEF HookInv

(* The sweep of looper_loop keeps the invariant of the loop. *)
LEMMA SweepInv == HookInv /\ Sweep => HookInv'
<1> SUFFICES ASSUME HookInv, Sweep PROVE HookInv'
  OBVIOUS
<1>1. /\ d.status = "running" /\ d.phase = "hooks" /\ Pending = {}
      /\ UNCHANGED <<sock, backlog, toEmu, fromEmu, emu, sends, rude, reused, crossed>>
  BY DEF Sweep
<1>2. /\ QemudType /\ d \in Memory /\ HS(d) /\ ClientsLive(d) /\ NotYet(d, backlog, sock)
      /\ ~reused => Heard(d)
      /\ d.got = <<>>
  BY <1>1 DEF HookInv, QemudType, LoopInv, Memory
<1>3. /\ d.hooks \in Seq(HookSet) /\ Len(d.hooks) \in Nat /\ DOMAIN d.hooks = 1 .. Len(d.hooks)
  BY <1>2, HookTyped
<1>4. \A i \in 1 .. Len(d.hooks) : ~d.hooks[i].pending
  BY <1>1, <1>3 DEF Pending
<1>5. /\ d' \in Memory /\ HS(d') /\ ClientsLive(d') /\ (Heard(d) => Heard(d'))
      /\ d'.h = d.h /\ d'.got = d.got /\ d'.status = d.status
      /\ \A j \in 1 .. Len(d'.hooks) : ~d'.hooks[j].pending
  <2>1. CASE Closing = {}
    <3>1. d' = [d EXCEPT !.phase = "wait"]
      BY <2>1 DEF Sweep
    <3>2. /\ d' \in Memory /\ d'.hooks = d.hooks /\ d'.epoll = d.epoll /\ d'.h = d.h /\ d'.c = d.c
          /\ d'.got = d.got /\ d'.status = d.status /\ d'.phase = "wait"
      BY <3>1, <1>2 DEF Memory
    <3>3. \A i \in 1 .. Len(d.hooks) : ~d.hooks[i].closing
      BY <2>1, <1>3 DEF Closing
    <3>4. BaseHooks(d') /\ HookOfHandler(d') /\ FdsApart(d') /\ Alone(d')
      <4>1. BaseHooks(d')
        BY <1>2, <3>2 DEF HS, BaseHooks
      <4>2. HookOfHandler(d')
        BY <1>2, <3>2 DEF HS, HookOfHandler, Opened
      <4>3. FdsApart(d')
        BY <1>2, <3>2 DEF HS, FdsApart, Opened
      <4>4. Alone(d')
        BY <1>2, <3>2, SMTT(30) DEF HS, Alone, Opened, Own
      <4> QED BY <4>1, <4>2, <4>3, <4>4
    <3>5. WaitsClean(d')
      BY <1>4, <3>2, <3>3 DEF WaitsClean
    <3>6. Heard(d) => Heard(d')
      BY <3>2 DEF Heard, HeardReg, HeardWant
    <3>7. ClientsLive(d')
      BY <1>2, <3>2 DEF ClientsLive
    <3> QED BY <3>2, <3>4, <3>5, <3>6, <3>7, <1>4 DEF HS
  <2>2. CASE Closing # {}
    <3> DEFINE i == CHOOSE i \in Closing : \A j \in Closing : i <= j
    <3>1. d' = SweepHook(d, i)
      BY <2>2 DEF Sweep
    <3>2. Closing \in SUBSET Nat
      BY <1>3 DEF Closing
    <3>3. \E x \in Closing : \A y \in Closing : x <= y
      BY <2>2, <3>2, LeastExists, Zenon
    <3>4. i \in Closing
      BY <3>3
    <3> HIDE DEF i
    <3>5. i \in 1 .. Len(d.hooks) /\ d.hooks[i].closing
      BY <1>3, <3>4 DEF Closing
    <3>6. Swept(d, d', i)
      BY <1>2, <3>1, <3>5, SweepOne
    <3>7. d.phase # "wait"
      BY <1>1
    <3>8. /\ HS(d') /\ (Heard(d) => Heard(d'))
          /\ \A j \in 1 .. Len(d'.hooks) : ~d'.hooks[j].pending
      BY <1>2, <1>4, <3>5, <3>6, <3>7, SweepKeeps
    <3>9. ClientsLive(d')
      BY <1>2, <3>6 DEF ClientsLive, Swept
    <3> QED BY <3>6, <3>8, <3>9 DEF Swept
  <2> QED BY <2>1, <2>2
<1>6. NotYet(d', backlog, sock)
  <2>1. ~ControlPending(d')
    BY <1>5 DEF ControlPending
  <2> QED BY <2>1, <1>2, <1>5 DEF NotYet
<1>7. QemudType'
  BY <1>1, <1>2, <1>5 DEF QemudType
<1>8. LoopInv'
  BY <1>1, <1>2, <1>5, <1>6 DEF LoopInv
<1>9. PoliteInv'
  <2> SUFFICES ASSUME ~rude, ~emu.hungup PROVE Politely(d', fromEmu)
    BY <1>1 DEF PoliteInv
  <2>1. Politely(d, fromEmu)
    BY DEF HookInv, PoliteInv
  <2> QED BY <2>1, <1>5, <1>1 DEF Politely
<1> QED BY <1>7, <1>8, <1>9 DEF HookInv

(* what the loop does before it calls a callback: hook i is no longer pending *)
Begun(s, t, i) ==
  /\ t \in Memory /\ HS(t) /\ (Heard(s) => Heard(t)) /\ ClientsLive(t) /\ Marked(s, t, i)
  /\ \A k \in Connections : Own(t, k) <=> Own(s, k)
  /\ t.epoll = s.epoll /\ t.h = s.h /\ t.c = s.c /\ t.serialOut = s.serialOut /\ t.got = s.got
  /\ t.last = s.last /\ t.status = s.status /\ t.phase = s.phase

(* Starting a callback keeps the invariants. *)
LEMMA Begin ==
  ASSUME NEW s \in Memory, HS(s), ClientsLive(s), NEW i \in 1 .. Len(s.hooks), NEW t,
         t = [s EXCEPT !.hooks[i].pending = FALSE, !.hooks[i].events = {}]
  PROVE  Begun(s, t, i)
<1>1. /\ s.hooks \in Seq(HookSet) /\ Len(s.hooks) \in Nat /\ DOMAIN s.hooks = 1 .. Len(s.hooks)
      /\ s.hooks[i] \in HookSet
  BY HookTyped
<1> DEFINE x == [s.hooks[i] EXCEPT !.pending = FALSE, !.events = {}]
           g == [s.hooks EXCEPT ![i] = x]
<1>2. /\ x \in HookSet /\ x.fd = s.hooks[i].fd /\ x.user = s.hooks[i].user
      /\ ~x.pending /\ x.closing = s.hooks[i].closing /\ x.wanted = s.hooks[i].wanted
  BY <1>1 DEF HookSet
<1>3. t = [s EXCEPT !.hooks = g]
  BY <1>1 DEF Memory, HookSet
<1> HIDE DEF x
<1>4. g \in Seq(HookSet)
  BY <1>1, <1>2, ExceptSeq
<1>5. /\ t \in Memory /\ t.hooks = g /\ t.epoll = s.epoll /\ t.h = s.h /\ t.c = s.c
      /\ t.serialOut = s.serialOut /\ t.got = s.got
      /\ t.last = s.last /\ t.status = s.status /\ t.phase = s.phase
  <2> HIDE DEF g
  <2> QED BY <1>3, <1>4 DEF Memory
<1>6. Marked(s, t, i)
  BY <1>2, <1>5, MarkHook
<1>7. HS(t) /\ (Heard(s) => Heard(t)) /\ \A k \in Connections : Own(t, k) <=> Own(s, k)
  <2>1. t.phase = "wait" => s.phase = "wait"
    BY <1>5
  <2> HIDE DEF g
  <2> QED BY <1>5, <1>6, <2>1, MarkedKeeps
<1>8. ClientsLive(t)
  BY <1>5 DEF ClientsLive
<1> HIDE DEF g
<1> QED BY <1>5, <1>6, <1>7, <1>8 DEF Begun

(* What a running callback may rely on. *)
LEMMA StartedIs ==
  ASSUME HookInv, NEW user, Running(user)
  PROVE  /\ d.status = "running" /\ d.phase = "hooks" /\ d.hooks[Current].user = user
         /\ d \in Memory /\ HS(d) /\ ClientsLive(d) /\ NotYet(d, backlog, sock)
         /\ Current \in 1 .. Len(d.hooks) /\ d.hooks[Current].pending
         /\ Begun(d, Started, Current)
         /\ ~reused => Heard(d)
         /\ d.got = <<>>
<1>1. /\ d.status = "running" /\ d.phase = "hooks" /\ d.hooks[Current].user = user /\ Pending # {}
  BY DEF Running
<1>2. /\ d \in Memory /\ HS(d) /\ ClientsLive(d) /\ NotYet(d, backlog, sock)
      /\ ~reused => Heard(d)
      /\ d.got = <<>>
  BY <1>1 DEF HookInv, QemudType, LoopInv
<1>3. Current \in 1 .. Len(d.hooks) /\ d.hooks[Current].pending
  BY <1>1, CurrentIs
<1>4. Begun(d, Started, Current)
  BY <1>2, <1>3, Begin DEF Started
<1> QED BY <1>1, <1>2, <1>3, <1>4

(* The accept callback finds a connection that has no handler yet. *)
LEMMA AcceptDoes ==
  ASSUME HookInv, AcceptEvent
  PROVE  /\ backlog # <<>> /\ Head(backlog) \in Connections /\ d.h[Head(backlog)].st = "none"
         /\ Current = 2 /\ Accepted(Started, d', Head(backlog))
         /\ ~reused' => ~reused /\ SlotsOf(Started, FreeFd(Started)) = {}
<1>1. Running(Control) /\ d' = multiplexer_control_accept(Started, Head(backlog))
  BY DEF AcceptEvent
<1>2. /\ d.status = "running" /\ d.phase = "hooks" /\ d.hooks[Current].user = Control
      /\ d \in Memory /\ HS(d) /\ ClientsLive(d) /\ NotYet(d, backlog, sock)
      /\ Current \in 1 .. Len(d.hooks) /\ d.hooks[Current].pending
      /\ Begun(d, Started, Current)
  BY <1>1, StartedIs
<1>3. Current = 2
  BY <1>2, UserOf DEF HS
<1>4. backlog # <<>>
  <2>1. ControlPending(d)
    BY <1>2 DEF ControlPending
  <2> QED BY <2>1, <1>2 DEF NotYet
<1>5. Head(backlog) \in Connections /\ Head(backlog) = backlog[1] /\ 1 \in 1 .. Len(backlog)
  BY <1>4, TailIn DEF HookInv, QemudType
<1>6. d.h[Head(backlog)].st = "none"
  BY <1>2, <1>5 DEF NotYet
<1>7. Started \in Memory /\ HS(Started) /\ ClientsLive(Started) /\ Started.phase # "wait"
      /\ Started.h = d.h
  BY <1>2 DEF Begun
<1>8. Accepted(Started, d', Head(backlog))
  BY <1>1, <1>5, <1>6, <1>7, Accept
<1>9. SlotsOf(Started, FreeFd(Started)) = SlotsOf(d, FreeFd(d))
  <2>1. FreeFd(Started) = FreeFd(d)
    BY <1>7 DEF FreeFd, OpenFds
  <2>2. DOMAIN Started.hooks = 1 .. Len(d.hooks) /\ DOMAIN d.hooks = 1 .. Len(d.hooks)
    BY <1>2, <1>7, HookTyped DEF Begun, Marked
  <2>3. \A j \in 1 .. Len(d.hooks) : Started.hooks[j].fd = d.hooks[j].fd
    BY <1>2 DEF Begun, Marked
  <2> QED BY <2>1, <2>2, <2>3 DEF SlotsOf
<1>10. reused' = (reused \/ SlotsOf(d, FreeFd(d)) # {})
  BY DEF AcceptEvent
<1> QED BY <1>3, <1>4, <1>5, <1>6, <1>8, <1>9, <1>10

(* Accepting a connection keeps the invariant of the loop. *)
LEMMA AcceptHook == HookInv /\ AcceptEvent => HookInv'
<1> SUFFICES ASSUME HookInv, AcceptEvent PROVE HookInv'
  OBVIOUS
<1> DEFINE k == Head(backlog)
           s == Started
<1>1. /\ Running(Control) /\ backlog' = Tail(backlog) /\ reused' \in BOOLEAN
      /\ UNCHANGED <<sock, toEmu, fromEmu, emu, sends, rude, crossed>>
  BY DEF AcceptEvent, HookInv, QemudType
<1>2. /\ d.status = "running" /\ d.phase = "hooks" /\ d.hooks[Current].user = Control
      /\ d \in Memory /\ HS(d) /\ ClientsLive(d) /\ NotYet(d, backlog, sock)
      /\ Current \in 1 .. Len(d.hooks) /\ d.hooks[Current].pending
      /\ Begun(d, s, Current)
      /\ ~reused => Heard(d)
      /\ d.got = <<>>
  BY <1>1, StartedIs
<1>3. /\ backlog # <<>> /\ k \in Connections /\ d.h[k].st = "none"
      /\ Current = 2 /\ Accepted(s, d', k)
      /\ ~reused' => ~reused /\ SlotsOf(s, FreeFd(s)) = {}
  BY AcceptDoes
<1>4. /\ backlog \in Seq(Connections) /\ k = backlog[1] /\ 1 \in 1 .. Len(backlog)
      /\ Tail(backlog) \in Seq(Connections)
      /\ \A i \in 1 .. Len(Tail(backlog)) : Tail(backlog)[i] = backlog[i + 1] /\ i + 1 \in 1 .. Len(backlog)
  BY <1>3, TailIn DEF HookInv, QemudType
<1>a. \A i \in 1 .. Len(Tail(backlog)) : i + 1 # 1
  BY <1>4
<1>b. \A i \in 1 .. Len(backlog) : backlog[i] \in Connections
  BY <1>4, ElementOfSeq
<1> HIDE DEF k, s
<1>5. /\ d' \in Memory /\ HS(d') /\ ClientsLive(d') /\ HooksGrow(s, d')
      /\ \A j \in Connections \ {k} : d'.h[j] = d.h[j]
      /\ d'.h[k].st = "active" /\ d'.got = <<>> /\ d'.status = "running" /\ d'.phase = "hooks"
  BY <1>2, <1>3 DEF Accepted, Begun
<1>6. ~reused' => Heard(d')
  BY <1>2, <1>3 DEF Accepted, Begun
<1>7. Len(s.hooks) = Len(d.hooks) /\ Len(d.hooks) \in Nat /\ Len(d'.hooks) = Len(d.hooks) + 1
  BY <1>2, <1>5, HookTyped DEF Begun, Marked, HooksGrow
<1>8. ~ControlPending(d')
  <2> SUFFICES ASSUME NEW j \in 1 .. Len(d'.hooks), d'.hooks[j].user = Control, d'.hooks[j].pending
               PROVE  FALSE
    BY DEF ControlPending
  <2>1. j \in 1 .. Len(d.hooks) \/ j = Len(s.hooks) + 1
    BY <1>7
  <2>2. j \in 1 .. Len(d.hooks)
    BY <2>1, <1>5 DEF HooksGrow
  <2>3. s.hooks[j].user = Control /\ s.hooks[j].pending
    BY <2>2, <1>5, <1>7 DEF HooksGrow, SameHook
  <2>4. d.hooks[j].user = Control /\ j # 2
    BY <2>2, <2>3, <1>2, <1>3 DEF Begun, Marked
  <2> QED BY <2>2, <2>4, <1>2, UserOf DEF HS
<1>9. NotYet(d', Tail(backlog), sock)
  <2>1. ASSUME NEW i \in 1 .. Len(Tail(backlog))
        PROVE  /\ Tail(backlog)[i] = backlog[i + 1] /\ i + 1 \in 1 .. Len(backlog)
               /\ Tail(backlog)[i] \in Connections \ {k}
    <3>1. Tail(backlog)[i] = backlog[i + 1] /\ i + 1 \in 1 .. Len(backlog) /\ i + 1 # 1
      BY <1>4, <1>a
    <3>2. backlog[i + 1] # backlog[1]
      BY <3>1, <1>4, <1>2 DEF NotYet
    <3> QED BY <3>1, <3>2, <1>4, <1>b
  <2>2. ASSUME NEW i \in 1 .. Len(Tail(backlog)) PROVE d'.h[Tail(backlog)[i]].st = "none"
    BY <2>1, <1>2, <1>5 DEF NotYet
  <2>3. ASSUME NEW i \in 1 .. Len(Tail(backlog)), NEW j \in 1 .. Len(Tail(backlog)),
               Tail(backlog)[i] = Tail(backlog)[j]
        PROVE  i = j
    <3>1. backlog[i + 1] = backlog[j + 1] /\ i + 1 \in 1 .. Len(backlog) /\ j + 1 \in 1 .. Len(backlog)
      BY <2>1, <2>3
    <3>2. i + 1 = j + 1
      BY <3>1, <1>2 DEF NotYet
    <3> QED BY <3>2
  <2>4. ASSUME NEW j \in Connections, sock[j].st = "idle"
        PROVE  d'.h[j].st = "none" /\ \A i \in 1 .. Len(Tail(backlog)) : Tail(backlog)[i] # j
    <3>1. d.h[j].st = "none" /\ \A i \in 1 .. Len(backlog) : backlog[i] # j
      BY <2>4, <1>2 DEF NotYet
    <3>2. j # k
      BY <3>1, <1>4
    <3> QED BY <3>1, <3>2, <2>1, <1>5
  <2> QED BY <2>2, <2>3, <2>4, <1>8 DEF NotYet
<1>10. QemudType'
  BY <1>1, <1>4, <1>5 DEF QemudType, HookInv
<1>11. LoopInv'
  BY <1>1, <1>5, <1>6, <1>9 DEF LoopInv
<1>12. PoliteInv'
  <2> SUFFICES ASSUME ~rude, ~emu.hungup PROVE Politely(d', fromEmu)
    BY <1>1 DEF PoliteInv
  <2>1. Politely(d, fromEmu)
    BY DEF HookInv, PoliteInv
  <2>2. ASSUME NEW j \in 1 .. Len(d'.hooks), d'.hooks[j].pending PROVE ~d'.hooks[j].closing
    <3>1. j \in 1 .. Len(d.hooks) \/ j = Len(s.hooks) + 1
      BY <1>7
    <3>2. j \in 1 .. Len(d.hooks)
      BY <3>1, <2>2, <1>5 DEF HooksGrow
    <3>3. s.hooks[j].pending /\ d'.hooks[j].closing = s.hooks[j].closing
      BY <3>2, <2>2, <1>5, <1>7 DEF HooksGrow, SameHook
    <3>4. d.hooks[j].pending /\ d'.hooks[j].closing = d.hooks[j].closing
      BY <3>2, <3>3, <1>2 DEF Begun, Marked
    <3> QED BY <3>2, <3>4, <2>1, <1>2 DEF Politely
  <2>3. \A j \in Connections : d'.h[j].st # "closing"
    BY <2>1, <1>2, <1>5 DEF Politely
  <2> QED BY <2>1, <2>2, <2>3, <1>2, <1>5 DEF Politely
<1> QED BY <1>10, <1>11, <1>12 DEF HookInv

(* The callback of connection k takes s to t, and u is what the read left. *)
EventRan(s, u, t, k) ==
  /\ u = s \/ (s.c[k].live /\ Received(s, u, k))
  /\ u.status = "running" => Finished(u, t, k)
  /\ u.status # "running" => t = u

(* The callback of a connection finds its handler freed only with an       *)
(* impolite peer, and owns its fd otherwise.                               *)
LEMMA CurrentClient ==
  ASSUME HookInv, NEW k \in Connections, Running(k)
  PROVE  /\ d.h[k].st = "freed" \/ (Opened(d, k) /\ Own(d, k))
         /\ rude \/ emu.hungup \/ d.c[k].live
         /\ \A j \in 1 .. Len(d.hooks) : d.hooks[j].user = k => j = Current
         /\ Started.c = d.c /\ Started.h = d.h /\ d.h[k].st # "none"
<1>1. /\ d.status = "running" /\ d.phase = "hooks" /\ d.hooks[Current].user = k
      /\ d \in Memory /\ HS(d) /\ ClientsLive(d)
      /\ Current \in 1 .. Len(d.hooks) /\ d.hooks[Current].pending
      /\ Begun(d, Started, Current)
  BY StartedIs
<1> DEFINE i == Current
<1>2. i \in 3 .. Len(d.hooks)
  BY <1>1, UserOf DEF HS
<1>3. /\ d.hooks[i].closing => d.h[k].st = "freed"
      /\ ~d.hooks[i].closing => Opened(d, k)
  BY <1>1, <1>2 DEF HS, HookOfHandler
<1>4. Opened(d, k) => Own(d, k)
  BY <1>1, <1>2 DEF HS, Alone
<1>5. ASSUME ~rude, ~emu.hungup PROVE d.c[k].live
  <2>1. Politely(d, fromEmu)
    BY <1>5 DEF HookInv, PoliteInv
  <2>2. ~d.hooks[i].closing /\ d.h[k].st # "closing"
    BY <2>1, <1>1 DEF Politely
  <2>3. d.h[k].st = "active"
    BY <2>2, <1>3 DEF Opened
  <2> QED BY <2>3, <1>1 DEF ClientsLive
<1>6. ASSUME NEW j \in 1 .. Len(d.hooks), d.hooks[j].user = k PROVE j = i
  <2>1. j \in 3 .. Len(d.hooks)
    BY <1>6, <1>1, UserOf DEF HS
  <2> QED BY <2>1, <1>2, <1>1, <1>6 DEF HS, BaseHooks
<1>7. Started.c = d.c /\ Started.h = d.h
  BY <1>1 DEF Begun
<1>8. d.h[k].st # "none"
  BY <1>3 DEF Opened
<1> QED BY <1>3, <1>4, <1>5, <1>6, <1>7, <1>8

(* What the callback of a connection does: undefined with an impolite peer *)
(* only, else the read and then the rest.                                  *)
LEMMA ClientDoes ==
  ASSUME HookInv, NEW k \in Connections, ClientEvent(k)
  PROVE  \/ d' = Undefined(Started) /\ (rude \/ emu.hungup) /\ rude' = rude
         \/ \E u : /\ EventRan(Started, u, d', k) /\ Opened(Started, k) /\ Own(Started, k)
                   /\ rude' = (rude \/ (d.c[k].live /\ ~u.c[k].live))
<1>1. Running(k) /\ rude \in BOOLEAN /\ d \in Memory
  BY DEF ClientEvent, HookInv, QemudType
<1>2. /\ d.status = "running" /\ d.phase = "hooks"
      /\ d \in Memory /\ HS(d) /\ ClientsLive(d)
      /\ Begun(d, Started, Current)
  BY <1>1, StartedIs
<1>3. /\ d.h[k].st = "freed" \/ (Opened(d, k) /\ Own(d, k))
      /\ rude \/ emu.hungup \/ d.c[k].live
      /\ Started.c = d.c /\ Started.h = d.h
  BY <1>1, CurrentClient
<1>4. Started \in Memory /\ HS(Started) /\ ClientsLive(Started) /\ Started.status = "running"
      /\ Started.phase # "wait"
  BY <1>2 DEF Begun
<1>5. d.c[k].live \in BOOLEAN
  BY <1>1 DEF Memory, ClientObjects
<1> DEFINE freed == d.h[k].st = "freed"
           reads == "in" \in Events /\ sock[k].data /\ ~freed
           hangs == "hup" \in Events
           gone == sock[k].st = "closed"
<1>6. \E long \in BOOLEAN : \E s :
          /\ s = IF freed THEN Undefined(Started)
                 ELSE IF reads THEN client_fd_receive(Started, k, long) ELSE Started
          /\ d' = After(s, k, hangs, ~hangs /\ "out" \in Events /\ s.h[k].out # <<>>, gone)
          /\ rude' = (rude \/ (reads /\ d.c[k].live /\ ~s.c[k].live))
  <2> DEFINE S(long) == IF freed THEN Undefined(Started)
                        ELSE IF reads THEN client_fd_receive(Started, k, long) ELSE Started
  <2>1. \E long \in BOOLEAN :
          /\ d' = After(S(long), k, hangs, ~hangs /\ "out" \in Events /\ S(long).h[k].out # <<>>, gone)
          /\ rude' = (rude \/ (reads /\ d.c[k].live /\ ~S(long).c[k].live))
    BY DEF ClientEvent, After
  <2> HIDE DEF freed, reads, hangs, gone
  <2> QED BY <2>1
<1>6a. PICK long \in BOOLEAN : \E s :
          /\ s = IF freed THEN Undefined(Started)
                 ELSE IF reads THEN client_fd_receive(Started, k, long) ELSE Started
          /\ d' = After(s, k, hangs, ~hangs /\ "out" \in Events /\ s.h[k].out # <<>>, gone)
          /\ rude' = (rude \/ (reads /\ d.c[k].live /\ ~s.c[k].live))
  BY <1>6, Zenon
<1>7. PICK s :
          /\ s = IF freed THEN Undefined(Started)
                 ELSE IF reads THEN client_fd_receive(Started, k, long) ELSE Started
          /\ d' = After(s, k, hangs, ~hangs /\ "out" \in Events /\ s.h[k].out # <<>>, gone)
          /\ rude' = (rude \/ (reads /\ d.c[k].live /\ ~s.c[k].live))
  BY <1>6a, Zenon
<1> DEFINE writes == ~hangs /\ "out" \in Events /\ s.h[k].out # <<>>
<1>8. d' = After(s, k, hangs, writes, gone) /\ hangs \in BOOLEAN /\ writes \in BOOLEAN /\ gone \in BOOLEAN
      /\ (writes => s.h[k].out # <<>>)
  BY <1>7
<1> HIDE DEF hangs, writes, gone
<1>9. s.status # "running" => d' = s
  BY <1>8 DEF After
<1>10. ASSUME s = Undefined(Started), rude \/ emu.hungup, ~(reads /\ d.c[k].live)
       PROVE  d' = Undefined(Started) /\ (rude \/ emu.hungup) /\ rude' = rude
  <2>1. s.status = "undefined"
    BY <1>4, <1>10 DEF Undefined, Memory
  <2>2. rude' = rude
    BY <1>1, <1>7, <1>10
  <2> QED BY <2>1, <2>2, <1>9, <1>10
<1>11. CASE freed
  <2>1. s = Undefined(Started) /\ ~reads
    BY <1>7, <1>11
  <2>2. rude \/ emu.hungup
    <3>1. ~d.c[k].live
      BY <1>2, <1>11 DEF ClientsLive
    <3> QED BY <3>1, <1>3
  <2> QED BY <1>10, <2>1, <2>2
<1>12. CASE reads /\ ~d.c[k].live
  <2>1. s = client_fd_receive(Started, k, long) /\ ~Started.c[k].live
    BY <1>3, <1>7, <1>12
  <2>2. s = Undefined(Started)
    BY <2>1 DEF client_fd_receive
  <2> QED BY <2>2, <1>3, <1>10, <1>12
<1>13. CASE ~freed /\ (reads => d.c[k].live)
  <2>1. Opened(Started, k) /\ Own(Started, k)
    BY <1>2, <1>3, <1>13 DEF Begun, Opened
  <2>2. s = Started \/ (Started.c[k].live /\ Received(Started, s, k))
    <3>1. CASE reads
      <4>1. s = client_fd_receive(Started, k, long) /\ Started.c[k].live
        BY <1>3, <1>7, <1>13, <3>1
      <4> QED BY <4>1, <1>4, <2>1, Receive
    <3>2. CASE ~reads
      BY <1>7, <1>13, <3>2
    <3> QED BY <3>1, <3>2
  <2>3. /\ s \in Memory /\ HS(s) /\ ClientsLive(s) /\ s.phase # "wait"
        /\ (Opened(s, k) /\ Own(s, k)) \/ Left2(s, k)
    <3>1. CASE s = Started
      BY <3>1, <1>4, <2>1
    <3>2. CASE Received(Started, s, k)
      <4>1. s \in Memory /\ HS(s) /\ ClientsLive(s) /\ s.phase # "wait"
        BY <3>2, <1>4 DEF Received
      <4>2. (Opened(s, k) /\ Own(s, k)) \/ Left2(s, k)
        BY <3>2, <1>4, <2>1, ReceivedMay, Zenon
      <4> QED BY <4>1, <4>2
    <3> QED BY <2>2, <3>1, <3>2
  <2>4. s.status = "running" => Finished(s, d', k)
    BY <1>8, <2>3, Finish
  <2>5. EventRan(Started, s, d', k)
    BY <2>2, <2>4, <1>9 DEF EventRan
  <2>6. rude' = (rude \/ (d.c[k].live /\ ~s.c[k].live))
    <3>1. CASE reads
      BY <3>1, <1>7
    <3>2. CASE ~reads
      <4>1. s.c = d.c
        BY <1>3, <1>7, <1>13, <3>2
      <4> QED BY <4>1, <3>2, <1>7
    <3> QED BY <3>1, <3>2
  <2> QED BY <2>1, <2>5, <2>6
<1> QED BY <1>11, <1>12, <1>13

(* What a callback of connection k leaves alone. *)
Around(s, t, k) ==
  /\ t \in Memory /\ HS(t) /\ ClientsLive(t) /\ (Heard(s) => Heard(t)) /\ SameFds(s, t, k)
  /\ \A j \in Connections \ {k} : t.h[j].st = s.h[j].st
  /\ t.h[k].st # "none" /\ t.got = s.got /\ t.phase = s.phase

(* The read of a callback leaves the other connections alone. *)
LEMMA AroundRead ==
  ASSUME NEW s \in Memory, HS(s), ClientsLive(s), NEW k \in Connections, Opened(s, k), NEW u,
         u = s \/ (s.c[k].live /\ Received(s, u, k))
  PROVE  /\ Around(s, u, k)
         /\ s.c[k].live => u.c[k].live \/ ThrownOut(s, u, k)
         /\ ThrownOut(s, u, k) \/ (HooksAlike(s, u) /\ u.h = s.h)
         /\ u.status = s.status \/ u.status = "looping"
<1>1. CASE u = s
  <2>1. HooksAlike(s, s)
    BY DEF HooksAlike, SameHook
  <2>2. SameFds(s, s, k)
    BY <2>1, AlikeFds
  <2> QED BY <1>1, <2>1, <2>2 DEF Around, Opened
<1>2. CASE s.c[k].live /\ Received(s, u, k)
  <2>1. ThrownOut(s, u, k) \/ (HooksAlike(s, u) /\ u.h = s.h)
    BY <1>2 DEF Received, DataSent, Opens
  <2>2. u.h[k].st # "none"
    BY <2>1 DEF ThrownOut, Opened
  <2>3. Around(s, u, k)
    BY <1>2, <2>2 DEF Around, Received
  <2>4. s.c[k].live => u.c[k].live \/ ThrownOut(s, u, k)
    BY <2>1, <2>3, <1>2 DEF Around, ClientsLive
  <2>5. u.status = s.status \/ u.status = "looping"
    BY <1>2 DEF Received, DataSent, Opens, ThrownOut
  <2> QED BY <2>1, <2>3, <2>4, <2>5
<1> QED BY <1>1, <1>2

(* So does its rest. *)
LEMMA AroundRest ==
  ASSUME NEW s \in Memory, NEW k \in Connections, s.h[k].st # "none", NEW t, Rest(s, t, k)
  PROVE  /\ Around(s, t, k)
         /\ \A j \in Connections : t.h[j].st = s.h[j].st \/ t.h[j].st = "freed"
<1>1. CASE HungUp(s, t, k)
  <2>1. t.h[k].st = "freed"
    BY <1>1 DEF HungUp, HandlerGone
  <2> QED BY <1>1, <2>1 DEF Around, HungUp
<1>2. CASE ~HungUp(s, t, k)
  <2>1. SameFds(s, t, k)
    BY <1>2, AlikeFds DEF Rest
  <2> QED BY <1>2, <2>1 DEF Around, Rest, SameStates
<1> QED BY <1>1, <1>2

(* And the two together. *)
LEMMA AroundTwice ==
  ASSUME NEW s, NEW u, NEW t, NEW k \in Connections, Around(s, u, k), Around(u, t, k)
  PROVE  Around(s, t, k)
<1>1. SameFds(s, t, k)
  BY DEF Around, SameFds
<1> QED BY <1>1 DEF Around

(* The callback of a connection keeps the invariant of the loop. *)
LEMMA ClientHook == ASSUME NEW k \in Connections PROVE HookInv /\ ClientEvent(k) => HookInv'
<1> SUFFICES ASSUME HookInv, ClientEvent(k) PROVE HookInv'
  OBVIOUS
<1> DEFINE s == Started
<1>1. Running(k) /\ UNCHANGED <<backlog, toEmu, fromEmu, emu, sends, reused, crossed>>
  BY DEF ClientEvent
<1>2. /\ d.status = "running" /\ d.phase = "hooks"
      /\ d \in Memory /\ HS(d) /\ ClientsLive(d) /\ NotYet(d, backlog, sock)
      /\ Current \in 1 .. Len(d.hooks) /\ d.hooks[Current].pending
      /\ Begun(d, s, Current)
      /\ ~reused => Heard(d)
      /\ d.got = <<>>
  BY <1>1, StartedIs
<1>3. /\ \A j \in 1 .. Len(d.hooks) : d.hooks[j].user = k => j = Current
      /\ d.h[k].st # "none"
  BY <1>1, CurrentClient
<1>4. sock' \in [Connections -> Socks] /\ \A j \in Connections : sock'[j].st = sock[j].st
  <2>1. sock \in [Connections -> Socks] /\ sock[k] \in Socks
    BY DEF HookInv, QemudType
  <2>2. PICK b \in BOOLEAN : sock' = [sock EXCEPT ![k].data = b]
    <3>1. \E b : sock' = [sock EXCEPT ![k].data = sock[k].data /\ ~b]
      BY DEF ClientEvent
    <3>2. \A b : (sock[k].data /\ ~b) \in BOOLEAN
      OBVIOUS
    <3> QED BY <3>1, <3>2
  <2>3. sock' = [sock EXCEPT ![k] = [sock[k] EXCEPT !.data = b]]
    BY <2>1, <2>2
  <2>4. [sock[k] EXCEPT !.data = b] \in Socks /\ [sock[k] EXCEPT !.data = b].st = sock[k].st
    BY <2>1 DEF Socks
  <2> QED BY <2>1, <2>3, <2>4
<1>5. rude' \in BOOLEAN
  BY DEF ClientEvent, HookInv, QemudType
<1>6. d' \in Memory => QemudType'
  BY <1>1, <1>4, <1>5 DEF QemudType, HookInv
<1>7. s \in Memory /\ HS(s) /\ ClientsLive(s) /\ s.status = "running" /\ s.c = d.c /\ s.h = d.h
  BY <1>2 DEF Begun
<1>8. \/ d' = Undefined(s) /\ (rude \/ emu.hungup) /\ rude' = rude
      \/ \E u : /\ EventRan(s, u, d', k) /\ Opened(s, k) /\ Own(s, k)
                /\ rude' = (rude \/ (d.c[k].live /\ ~u.c[k].live))
  BY ClientDoes, Zenon
<1> HIDE DEF s
<1>9. CASE d' = Undefined(s) /\ (rude \/ emu.hungup) /\ rude' = rude
  <2>1. d' \in Memory /\ d'.status = "undefined"
    BY <1>7, <1>9 DEF Undefined, Memory
  <2>2. LoopInv'
    BY <2>1 DEF LoopInv
  <2>3. PoliteInv'
    BY <1>1, <1>9 DEF PoliteInv
  <2> QED BY <2>1, <2>2, <2>3, <1>6 DEF HookInv
<1>10. ASSUME NEW u, EventRan(s, u, d', k), Opened(s, k), Own(s, k),
              rude' = (rude \/ (d.c[k].live /\ ~u.c[k].live))
       PROVE  HookInv'
  <2>1. u = s \/ (s.c[k].live /\ Received(s, u, k))
    BY <1>10 DEF EventRan
  <2>2. /\ Around(s, u, k)
        /\ s.c[k].live => u.c[k].live \/ ThrownOut(s, u, k)
        /\ ThrownOut(s, u, k) \/ (HooksAlike(s, u) /\ u.h = s.h)
        /\ u.status = s.status \/ u.status = "looping"
    BY <1>7, <1>10, <2>1, AroundRead
  <2>3. ThrownOut(s, u, k) => ~u.c[k].live
    <3>1. ASSUME ThrownOut(s, u, k) PROVE u.h[k].st # "active" /\ ClientsLive(u)
      BY <3>1, <2>2 DEF ThrownOut, Around
    <3> QED BY <3>1 DEF ClientsLive
  <2>4. u \in Memory
    BY <2>2 DEF Around
  <2>5. ASSUME ~rude' PROVE u = s \/ ~ThrownOut(s, u, k)
    BY <2>1, <2>3, <2>5, <1>7, <1>10
  <2>a. ASSUME ~rude' PROVE HooksAlike(s, u) /\ u.h = s.h
    <3>1. HooksAlike(s, s)
      BY DEF HooksAlike, SameHook
    <3> QED BY <2>a, <2>2, <2>5, <3>1
  <2>6. CASE u.status # "running"
    <3>1. d' = u /\ d'.status = "looping"
      BY <2>6, <2>2, <1>7, <1>10 DEF EventRan
    <3>2. LoopInv'
      BY <3>1 DEF LoopInv
    <3>3. PoliteInv'
      BY <3>1 DEF PoliteInv, Politely
    <3> QED BY <3>1, <3>2, <3>3, <2>4, <1>6 DEF HookInv
  <2>7. CASE u.status = "running" /\ d'.status # "running"
    <3>1. d' \in Memory /\ (d'.status = "undefined" => ~Opened(u, k))
      BY <2>7, <1>10 DEF EventRan, Finished
    <3>2. LoopInv'
      BY <2>7 DEF LoopInv
    <3>3. PoliteInv'
      <4>1. ASSUME ~rude' PROVE d'.status # "undefined"
        BY <4>1, <3>1, <2>a, <1>10 DEF Opened
      <4> QED BY <4>1, <2>7 DEF PoliteInv, Politely
    <3> QED BY <3>1, <3>2, <3>3, <1>6 DEF HookInv
  <2>8. CASE u.status = "running" /\ d'.status = "running"
    <3>1. Rest(u, d', k)
      BY <2>8, <1>10 DEF EventRan, Finished
    <3>2. /\ Around(u, d', k)
          /\ \A j \in Connections : d'.h[j].st = u.h[j].st \/ d'.h[j].st = "freed"
      <4>1. u.h[k].st # "none"
        BY <2>2 DEF Around
      <4> QED BY <4>1, <2>4, <3>1, AroundRest
    <3>3. Around(s, d', k)
      BY <2>2, <3>2, AroundTwice
    <3>4. /\ d' \in Memory /\ HS(d') /\ ClientsLive(d') /\ (~reused => Heard(d'))
          /\ d'.got = <<>> /\ d'.phase = "hooks"
      BY <3>3, <1>2 DEF Around, Begun
    <3>5. \A j \in Connections : d'.h[j].st = "none" <=> d.h[j].st = "none"
      BY <3>3, <1>3, <1>7 DEF Around
    <3>6. /\ Len(d'.hooks) = Len(d.hooks)
          /\ \A j \in 1 .. Len(d.hooks) :
               /\ d'.hooks[j].user = d.hooks[j].user
               /\ d'.hooks[j].pending => d.hooks[j].pending /\ j # Current
      BY <3>3, <1>2 DEF Around, SameFds, Begun, Marked
    <3>7. ControlPending(d') => ControlPending(d)
      BY <3>6 DEF ControlPending
    <3>8. NotYet(d', backlog, sock')
      <4>1. backlog \in Seq(Connections) /\ \A i \in 1 .. Len(backlog) : backlog[i] \in Connections
        BY ElementOfSeq DEF QemudType, HookInv
      <4> QED BY <4>1, <3>5, <3>7, <1>2, <1>4 DEF NotYet
    <3>9. LoopInv'
      BY <1>1, <3>4, <3>8 DEF LoopInv
    <3>10. PoliteInv'
      <4> SUFFICES ASSUME ~rude', ~emu.hungup PROVE Politely(d', fromEmu)
        BY <1>1 DEF PoliteInv
      <4>1. Politely(d, fromEmu)
        BY <1>10 DEF HookInv, PoliteInv
      <4>2. HooksAlike(s, u) /\ u.h = s.h
        BY <2>a
      <4>3. ASSUME NEW j \in 1 .. Len(d'.hooks), d'.hooks[j].pending PROVE ~d'.hooks[j].closing
        <5>1. j \in 1 .. Len(d.hooks) /\ d.hooks[j].pending /\ d.hooks[j].user # k
          BY <4>3, <3>6, <1>3
        <5>2. ~d.hooks[j].closing
          BY <5>1, <4>1, <1>2 DEF Politely
        <5>3. s.hooks[j].user # k /\ ~s.hooks[j].closing /\ j \in 1 .. Len(s.hooks)
          BY <5>1, <5>2, <1>2 DEF Begun, Marked
        <5>4. d'.hooks[j].closing = s.hooks[j].closing
          BY <5>3, <3>3 DEF Around, SameFds
        <5> QED BY <5>3, <5>4
      <4>4. \A j \in Connections : d'.h[j].st # "closing"
        BY <4>1, <4>2, <3>2, <1>2, <1>7 DEF Politely
      <4>5. Len(d'.got) = 0
        BY <3>4, EmptySeq
      <4> QED BY <4>1, <4>3, <4>4, <4>5, <1>2, <2>8 DEF Politely
    <3> QED BY <3>4, <3>9, <3>10, <1>6 DEF HookInv
  <2> QED BY <2>6, <2>7, <2>8
<1> QED BY <1>8, <1>9, <1>10

(* A step of the clients or of the emulator keeps the invariant of the     *)
(* loop when the backlog stays right and a disconnect comes only from an   *)
(* impolite emulator.                                                      *)
LEMMA SameDaemon ==
  ASSUME HookInv, UNCHANGED <<d, rude, reused, crossed>>, sock' \in [Connections -> Socks],
         backlog' \in Seq(Connections), toEmu' \in Seq(Frames), fromEmu' \in Seq(Frames),
         emu' \in Emulators, emu.hungup => emu'.hungup,
         d.status = "running" => NotYet(d, backlog', sock'),
         (\A i \in 1 .. Len(fromEmu) : fromEmu[i].op # "disconnect")
           => (\A i \in 1 .. Len(fromEmu') : fromEmu'[i].op # "disconnect")
  PROVE  HookInv'
<1>1. QemudType'
  BY DEF HookInv, QemudType
<1>2. LoopInv'
  BY DEF HookInv, LoopInv
<1>3. PoliteInv'
  <2> SUFFICES ASSUME ~rude, ~emu'.hungup PROVE Politely(d, fromEmu')
    BY DEF PoliteInv
  <2>1. Politely(d, fromEmu)
    BY DEF HookInv, PoliteInv
  <2> QED BY <2>1 DEF Politely
<1> QED BY <1>1, <1>2, <1>3 DEF HookInv

(* A client that connects keeps the invariant of the loop. *)
LEMMA ConnectHook == ASSUME NEW k \in Connections PROVE HookInv /\ ClientConnects(k) => HookInv'
<1> SUFFICES ASSUME HookInv, ClientConnects(k) PROVE HookInv'
  OBVIOUS
<1>1. /\ sock[k].st = "idle" /\ d.status = "running" /\ backlog' = Append(backlog, k)
      /\ UNCHANGED <<d, toEmu, fromEmu, emu, sends, rude, reused, crossed>>
  BY DEF ClientConnects
<1>2. /\ d \in Memory /\ sock \in [Connections -> Socks] /\ backlog \in Seq(Connections)
      /\ toEmu \in Seq(Frames) /\ fromEmu \in Seq(Frames) /\ emu \in Emulators
      /\ NotYet(d, backlog, sock)
  BY <1>1 DEF HookInv, QemudType, LoopInv
<1> DEFINE x == [sock[k] EXCEPT !.st = "open"]
<1>3. x \in Socks /\ x.st = "open"
  BY <1>2 DEF Socks
<1>4. sock' = [sock EXCEPT ![k] = x]
  BY DEF ClientConnects
<1> HIDE DEF x
<1>5. sock' \in [Connections -> Socks] /\ \A j \in Connections : sock'[j] = IF j = k THEN x ELSE sock[j]
  BY <1>2, <1>3, <1>4
<1>6. /\ backlog' \in Seq(Connections) /\ Len(backlog) \in Nat /\ Len(backlog') = Len(backlog) + 1
      /\ \A i \in 1 .. Len(backlog) : backlog'[i] = backlog[i]
      /\ backlog'[Len(backlog) + 1] = k
      /\ \A i \in 1 .. Len(backlog') : i \in 1 .. Len(backlog) \/ i = Len(backlog) + 1
  BY <1>1, <1>2, AppendProperties, LenProperties
<1>7. d.h[k].st = "none" /\ \A i \in 1 .. Len(backlog) : backlog[i] # k
  BY <1>1, <1>2 DEF NotYet
<1>8. NotYet(d, backlog', sock')
  <2>1. ASSUME NEW i \in 1 .. Len(backlog') PROVE d.h[backlog'[i]].st = "none"
    <3>1. CASE i \in 1 .. Len(backlog)
      BY <3>1, <1>2, <1>6 DEF NotYet
    <3>2. CASE i = Len(backlog) + 1
      BY <3>2, <1>6, <1>7
    <3> QED BY <3>1, <3>2, <1>6
  <2>2. ASSUME NEW i \in 1 .. Len(backlog'), NEW j \in 1 .. Len(backlog'), backlog'[i] = backlog'[j]
        PROVE  i = j
    <3>1. CASE i \in 1 .. Len(backlog) /\ j \in 1 .. Len(backlog)
      <4>1. backlog[i] = backlog[j]
        BY <3>1, <2>2, <1>6
      <4> QED BY <4>1, <3>1, <1>2 DEF NotYet
    <3>2. CASE i = Len(backlog) + 1 /\ j \in 1 .. Len(backlog)
      BY <3>2, <2>2, <1>6, <1>7
    <3>3. CASE j = Len(backlog) + 1 /\ i \in 1 .. Len(backlog)
      BY <3>3, <2>2, <1>6, <1>7
    <3> QED BY <3>1, <3>2, <3>3, <1>6
  <2>3. ASSUME NEW j \in Connections, sock'[j].st = "idle"
        PROVE  d.h[j].st = "none" /\ \A i \in 1 .. Len(backlog') : backlog'[i] # j
    <3>1. j # k /\ sock[j].st = "idle"
      BY <2>3, <1>3, <1>5
    <3>2. d.h[j].st = "none" /\ \A i \in 1 .. Len(backlog) : backlog[i] # j
      BY <3>1, <1>2 DEF NotYet
    <3> QED BY <3>1, <3>2, <1>6
  <2>4. backlog' # <<>>
    BY <1>6, EmptySeq
  <2> QED BY <2>1, <2>2, <2>3, <2>4 DEF NotYet
<1> QED BY <1>1, <1>2, <1>5, <1>6, <1>8, SameDaemon

(* So does one that sends or closes. *)
LEMMA SpeaksHook == ASSUME NEW k \in Connections
                    PROVE  HookInv /\ (ClientSends(k) \/ ClientCloses(k)) => HookInv'
<1> SUFFICES ASSUME HookInv, ClientSends(k) \/ ClientCloses(k) PROVE HookInv'
  OBVIOUS
<1>1. /\ sock[k].st = "open" /\ d.status = "running"
      /\ UNCHANGED <<d, backlog, toEmu, fromEmu, emu, rude, reused, crossed>>
  BY DEF ClientSends, ClientCloses
<1>2. /\ d \in Memory /\ sock \in [Connections -> Socks] /\ backlog \in Seq(Connections)
      /\ toEmu \in Seq(Frames) /\ fromEmu \in Seq(Frames) /\ emu \in Emulators
      /\ NotYet(d, backlog, sock)
  BY <1>1 DEF HookInv, QemudType, LoopInv
<1>3. PICK x \in Socks : sock' = [sock EXCEPT ![k] = x] /\ x.st # "idle"
  <2>1. CASE ClientSends(k)
    <3>1. sock' = [sock EXCEPT ![k] = [sock[k] EXCEPT !.data = TRUE]]
      BY <2>1 DEF ClientSends
    <3>2. [sock[k] EXCEPT !.data = TRUE] \in Socks /\ [sock[k] EXCEPT !.data = TRUE].st = "open"
      BY <1>1, <1>2 DEF Socks
    <3> QED BY <3>1, <3>2
  <2>2. CASE ClientCloses(k)
    <3>1. sock' = [sock EXCEPT ![k] = [sock[k] EXCEPT !.st = "closed"]]
      BY <2>2 DEF ClientCloses
    <3>2. [sock[k] EXCEPT !.st = "closed"] \in Socks /\ [sock[k] EXCEPT !.st = "closed"].st = "closed"
      BY <1>1, <1>2 DEF Socks
    <3> QED BY <3>1, <3>2
  <2> QED BY <2>1, <2>2
<1>4. sock' \in [Connections -> Socks] /\ \A j \in Connections : sock'[j] = IF j = k THEN x ELSE sock[j]
  BY <1>2, <1>3
<1>5. NotYet(d, backlog, sock')
  <2>1. \A j \in Connections : sock'[j].st = "idle" => sock[j].st = "idle"
    BY <1>3, <1>4
  <2> QED BY <2>1, <1>2 DEF NotYet
<1> QED BY <1>1, <1>2, <1>4, <1>5, SameDaemon

(* Channel ch of the emulator now serves k. *)
EmulatorSet(e, u, ch, k, n, b) ==
  u \in Emulators /\ u.open = [e.open EXCEPT ![ch] = k] /\ u.started = n /\ u.hungup = b

(* An update of the emulator's table, field by field. *)
LEMMA OpenSet ==
  ASSUME NEW e \in Emulators, NEW ch \in 0 .. (Channels - 1), NEW k \in Connections \cup {0},
         NEW n \in Nat, NEW b \in BOOLEAN, NEW u,
         u = [e EXCEPT !.open = [e.open EXCEPT ![ch] = k], !.started = n, !.hungup = b]
  PROVE  EmulatorSet(e, u, ch, k, n, b)
<1> DEFINE o == [e.open EXCEPT ![ch] = k]
<1>1. o \in [0 .. (Channels - 1) -> Connections \cup {0}]
  BY DEF Emulators
<1> HIDE DEF o
<1>2. u = [e EXCEPT !.open = o, !.started = n, !.hungup = b]
  BY DEF o
<1>3. u \in Emulators /\ u.open = o /\ u.started = n /\ u.hungup = b
  BY <1>1, <1>2 DEF Emulators
<1> QED BY <1>3 DEF o, EmulatorSet

(* The emulator keeps the invariant of the loop when it reads. *)
LEMMA EmulatorHook == HookInv /\ EmulatorReads => HookInv'
<1> SUFFICES ASSUME HookInv, EmulatorReads PROVE HookInv'
  OBVIOUS
<1> DEFINE f == Head(toEmu)
<1>1. /\ toEmu # <<>> /\ d.status = "running" /\ toEmu' = Tail(toEmu)
      /\ UNCHANGED <<d, sock, backlog, sends, rude, reused, crossed>>
  BY DEF EmulatorReads
<1>2. /\ d \in Memory /\ sock \in [Connections -> Socks] /\ backlog \in Seq(Connections)
      /\ toEmu \in Seq(Frames) /\ fromEmu \in Seq(Frames) /\ emu \in Emulators
      /\ NotYet(d, backlog, sock)
  BY <1>1 DEF HookInv, QemudType, LoopInv
<1>3. f \in Frames /\ toEmu' \in Seq(Frames)
  BY <1>1, <1>2, TailIn
<1>4. f.ch \in 0 .. (Channels - 1) /\ f.conn \in Connections
  BY <1>3 DEF Frames
<1>5. emu' \in Emulators /\ emu'.hungup = emu.hungup
  <2>1. emu' = emu \/ \E k \in {0, f.conn} : emu' = [emu EXCEPT !.open[f.ch] = k]
    BY DEF EmulatorReads
  <2>2. ASSUME NEW k \in {0, f.conn}, emu' = [emu EXCEPT !.open[f.ch] = k]
        PROVE  emu' \in Emulators /\ emu'.hungup = emu.hungup
    <3>1. emu' = [emu EXCEPT !.open = [emu.open EXCEPT ![f.ch] = k], !.started = emu.started, !.hungup = emu.hungup]
      BY <2>2, <1>2 DEF Emulators
    <3>2. emu.started \in Nat /\ emu.hungup \in BOOLEAN /\ k \in Connections \cup {0}
      BY <1>2, <1>4 DEF Emulators
    <3>3. EmulatorSet(emu, emu', f.ch, k, emu.started, emu.hungup)
      BY <3>1, <3>2, <1>2, <1>4, OpenSet, Zenon
    <3> QED BY <3>3 DEF EmulatorSet
  <2> QED BY <2>1, <2>2, <1>2
<1>6. fromEmu' = fromEmu \/ \E op \in {"ok", "ko"} : fromEmu' = Append(fromEmu, Frame(op, f.ch, f.conn))
  BY DEF EmulatorReads
<1>7. /\ fromEmu' \in Seq(Frames)
      /\ (\A i \in 1 .. Len(fromEmu) : fromEmu[i].op # "disconnect")
           => (\A i \in 1 .. Len(fromEmu') : fromEmu'[i].op # "disconnect")
  <2>1. ASSUME NEW op \in {"ok", "ko"}, fromEmu' = Append(fromEmu, Frame(op, f.ch, f.conn))
        PROVE  <1>7!:
    <3> DEFINE g == Frame(op, f.ch, f.conn)
    <3>1. op \in Ops
      BY DEF Ops
    <3>2. g \in Frames
      BY <3>1, <1>4, FrameType
    <3>3. g.op # "disconnect"
      BY DEF Frame
    <3> HIDE DEF g
    <3>4. /\ fromEmu' \in Seq(Frames) /\ Len(fromEmu) \in Nat /\ Len(fromEmu') = Len(fromEmu) + 1
          /\ \A i \in 1 .. Len(fromEmu) : fromEmu'[i] = fromEmu[i]
          /\ fromEmu'[Len(fromEmu) + 1] = g
          /\ \A i \in 1 .. Len(fromEmu') : i \in 1 .. Len(fromEmu) \/ i = Len(fromEmu) + 1
      BY <2>1, <3>2, <1>2, AppendProperties, LenProperties DEF g
    <3> QED BY <3>3, <3>4
  <2> QED BY <2>1, <1>6, <1>2
<1> QED BY <1>1, <1>2, <1>3, <1>5, <1>7, SameDaemon

(* And when it speaks first. *)
LEMMA StartsHook == ASSUME NEW ch \in 0 .. (Channels - 1) PROVE HookInv /\ EmulatorStarts(ch) => HookInv'
<1> SUFFICES ASSUME HookInv, EmulatorStarts(ch) PROVE HookInv'
  OBVIOUS
<1>1. /\ emu.open[ch] # 0 /\ d.status = "running"
      /\ UNCHANGED <<d, sock, backlog, toEmu, sends, rude, reused, crossed>>
  BY DEF EmulatorStarts
<1>2. /\ d \in Memory /\ sock \in [Connections -> Socks] /\ backlog \in Seq(Connections)
      /\ toEmu \in Seq(Frames) /\ fromEmu \in Seq(Frames) /\ emu \in Emulators
      /\ NotYet(d, backlog, sock)
  BY <1>1 DEF HookInv, QemudType, LoopInv
<1>3. PICK op \in {"data", "disconnect"} :
       /\ fromEmu' = Append(fromEmu, Frame(op, ch, emu.open[ch]))
       /\ emu' = [emu EXCEPT !.started = @ + 1, !.open[ch] = IF op = "data" THEN @ ELSE 0,
                              !.hungup = @ \/ op = "disconnect"]
  BY DEF EmulatorStarts
<1> DEFINE k == IF op = "data" THEN emu.open[ch] ELSE 0
           b == emu.hungup \/ op = "disconnect"
           g == Frame(op, ch, emu.open[ch])
<1>4. /\ emu.open[ch] \in Connections /\ emu.started + 1 \in Nat /\ k \in Connections \cup {0} /\ b \in BOOLEAN
  <2>1. emu.open[ch] \in Connections /\ emu.started \in Nat /\ emu.hungup \in BOOLEAN
    BY <1>1, <1>2 DEF Emulators
  <2>2. emu.started + 1 \in Nat
    BY <2>1
  <2>3. b \in BOOLEAN
    OBVIOUS
  <2>4. k \in Connections \cup {0}
    BY <2>1
  <2> QED BY <2>1, <2>2, <2>3, <2>4
<1>5. emu' = [emu EXCEPT !.open = [emu.open EXCEPT ![ch] = k], !.started = emu.started + 1, !.hungup = b]
  BY <1>3, <1>2 DEF Emulators
<1>6. g \in Frames /\ g.op = op
  <2>1. op \in Ops
    BY DEF Ops
  <2>2. g \in Frames
    BY <2>1, <1>4, FrameType
  <2> QED BY <2>2 DEF Frame
<1>7. b = (emu.hungup \/ op = "disconnect")
  OBVIOUS
<1> HIDE DEF k, b, g
<1>8. emu' \in Emulators /\ emu'.hungup = b
  <2>1. EmulatorSet(emu, emu', ch, k, emu.started + 1, b)
    BY <1>2, <1>4, <1>5, OpenSet, Zenon
  <2> QED BY <2>1 DEF EmulatorSet
<1>9. /\ fromEmu' \in Seq(Frames) /\ Len(fromEmu) \in Nat /\ Len(fromEmu') = Len(fromEmu) + 1
      /\ \A i \in 1 .. Len(fromEmu) : fromEmu'[i] = fromEmu[i]
      /\ fromEmu'[Len(fromEmu) + 1] = g
      /\ \A i \in 1 .. Len(fromEmu') : i \in 1 .. Len(fromEmu) \/ i = Len(fromEmu) + 1
  BY <1>3, <1>6, <1>2, AppendProperties, LenProperties DEF g
<1>10. QemudType'
  BY <1>1, <1>2, <1>8, <1>9 DEF QemudType, HookInv
<1>11. LoopInv'
  BY <1>1 DEF HookInv, LoopInv
<1>12. PoliteInv'
  <2> SUFFICES ASSUME ~rude, ~b PROVE Politely(d, fromEmu')
    BY <1>1, <1>8 DEF PoliteInv
  <2>1. ~emu.hungup /\ op # "disconnect"
    BY <1>7
  <2>2. Politely(d, fromEmu)
    BY <2>1 DEF HookInv, PoliteInv
  <2> QED BY <2>1, <2>2, <1>6, <1>9 DEF Politely
<1> QED BY <1>10, <1>11, <1>12 DEF HookInv

(* The invariant of the loop is inductive. *)
LEMMA NextHook == HookInv /\ [QemudNext]_qemudVars => HookInv'
<1> SUFFICES ASSUME HookInv, [QemudNext]_qemudVars PROVE HookInv'
  OBVIOUS
<1>1. CASE EpollWait
  BY <1>1, WaitHook
<1>2. CASE SerialReads
  BY <1>2, ReadsHook
<1>3. CASE SerialReceives
  BY <1>3, ReceivesHook
<1>4. CASE SerialWrites
  BY <1>4, WritesHook
<1>5. CASE AcceptEvent
  BY <1>5, AcceptHook
<1>6. ASSUME NEW k \in Connections, ClientEvent(k) PROVE HookInv'
  BY <1>6, ClientHook
<1>7. CASE Sweep
  BY <1>7, SweepInv
<1>8. ASSUME NEW k \in Connections, ClientConnects(k) \/ ClientSends(k) \/ ClientCloses(k) PROVE HookInv'
  BY <1>8, ConnectHook, SpeaksHook
<1>9. CASE EmulatorReads
  BY <1>9, EmulatorHook
<1>10. ASSUME NEW ch \in 0 .. (Channels - 1), EmulatorStarts(ch) PROVE HookInv'
  BY <1>10, StartsHook
<1>11. CASE UNCHANGED qemudVars
  <2>1. QemudType'
    BY <1>11 DEF HookInv, QemudType, qemudVars
  <2>2. LoopInv'
    BY <1>11 DEF HookInv, LoopInv, qemudVars
  <2>3. PoliteInv'
    BY <1>11 DEF HookInv, PoliteInv, qemudVars
  <2> QED BY <2>1, <2>2, <2>3 DEF HookInv
<1> QED BY <1>1, <1>2, <1>3, <1>4, <1>5, <1>6, <1>7, <1>8, <1>9, <1>10, <1>11 DEF QemudNext, Daemon

(* In every reachable state of the daemon the looper, the handlers and the *)
(* clients of qemud.c fit together, for any number of connections and of   *)
(* channels.                                                               *)
THEOREM AlwaysHook == QemudSpec => []HookInv
BY InitHook, NextHook, PTL DEF QemudSpec

(* The invariant says that a daemon with polite peers is never undefined. *)
LEMMA HookPolite == HookInv => PoliteNeverUndefined
BY DEF HookInv, PoliteInv, Politely, PoliteNeverUndefined

(* The invariant says that a waiting daemon hears every live client. *)
LEMMA HookHeard == HookInv => ClientsAreHeard
<1> SUFFICES ASSUME HookInv, d.phase = "wait", ~reused, d.status = "running", NEW k \in LiveClients(d)
             PROVE  LET reg == d.epoll[d.h[k].fd] IN
                      /\ reg.slot \in DOMAIN d.hooks /\ d.hooks[reg.slot].user = k
                      /\ "in" \in reg.wanted
                      /\ ("out" \in reg.wanted) = (d.h[k].out # <<>>)
  BY DEF ClientsAreHeard
<1>1. d \in Memory /\ HS(d) /\ ClientsLive(d) /\ Heard(d) /\ k \in Connections /\ d.c[k].live
  BY DEF HookInv, QemudType, LoopInv, LiveClients
<1>2. d.h[k].st = "active" /\ Opened(d, k)
  BY <1>1 DEF ClientsLive, Opened
<1>3. PICK i \in 3 .. Len(d.hooks) : d.hooks[i].user = k
  BY <1>1, <1>2 DEF HS, HookOfHandler
<1>4. DOMAIN d.hooks = 1 .. Len(d.hooks) /\ i \in 1 .. Len(d.hooks)
  BY <1>1, HookTyped
<1>5. ~d.hooks[i].closing /\ d.hooks[i].fd = d.h[k].fd
  BY <1>1, <1>2, <1>3 DEF HS, HookOfHandler
<1>6. d.epoll[d.h[k].fd] = [wanted |-> d.hooks[i].wanted, slot |-> i]
  BY <1>1, <1>4, <1>5 DEF Heard, HeardReg
<1>7. "in" \in d.hooks[i].wanted /\ ("out" \in d.hooks[i].wanted <=> d.h[k].out # <<>>)
  BY <1>1, <1>3, <1>5 DEF Heard, HeardWant
<1> QED BY <1>3, <1>4, <1>6, <1>7

(* With clients that wait for the answer to their registration and an      *)
(* emulator that never disconnects first, no callback of looper_loop       *)
(* reaches a freed FDHandler or Client: for any number of connections,     *)
(* channels and chunks.                                                    *)
THEOREM PoliteIsSafe == QemudSpec => []PoliteNeverUndefined
BY AlwaysHook, HookPolite, PTL

(* Whenever looper_loop waits, the registration of every live client leads *)
(* to its own hook, wherever the sweep moved it, unless an fd was reused   *)
(* before its closed hook was swept: for any number of connections.        *)
THEOREM LiveClientsHeard == QemudSpec => []ClientsAreHeard
BY AlwaysHook, HookHeard, PTL

----------------------------------------------------------------------------
(* qemud: the frames on the serial line. *)

(* The elements of a sequence with one more at its end. *)
LEMMA AppendIs ==
  ASSUME NEW S, NEW q \in Seq(S), NEW f \in S
  PROVE  /\ Append(q, f) \in Seq(S) /\ Len(q) \in Nat /\ Len(Append(q, f)) = Len(q) + 1
         /\ \A i \in 1 .. Len(q) : Append(q, f)[i] = q[i] /\ i \in 1 .. Len(Append(q, f))
         /\ Append(q, f)[Len(q) + 1] = f /\ Len(q) + 1 \in 1 .. Len(Append(q, f))
         /\ \A i \in 1 .. Len(Append(q, f)) : i \in 1 .. Len(q) \/ i = Len(q) + 1
         /\ Append(q, f) # <<>>
<1>1. /\ Append(q, f) \in Seq(S) /\ Len(q) \in Nat /\ Len(Append(q, f)) = Len(q) + 1
      /\ \A i \in 1 .. Len(q) : Append(q, f)[i] = q[i]
      /\ Append(q, f)[Len(q) + 1] = f
  BY AppendProperties, LenProperties
<1>2. Append(q, f) # <<>>
  BY <1>1, EmptySeq
<1> QED BY <1>1, <1>2

(* Appending a frame and None. *)
LEMMA NoneAppend ==
  ASSUME NEW S, NEW q \in Seq(S), NEW f \in S, NEW F
  PROVE  None(Append(q, f), F) <=> None(q, F) /\ f \notin F
<1> DEFINE r == Append(q, f)
<1>1. /\ Len(q) \in Nat /\ Len(r) = Len(q) + 1
      /\ \A i \in 1 .. Len(q) : r[i] = q[i] /\ i \in 1 .. Len(r)
      /\ r[Len(q) + 1] = f /\ Len(q) + 1 \in 1 .. Len(r)
      /\ \A i \in 1 .. Len(r) : i \in 1 .. Len(q) \/ i = Len(q) + 1
  BY AppendIs
<1> HIDE DEF r
<1>2. None(r, F) <=> None(q, F) /\ f \notin F
  BY <1>1 DEF None
<1> QED BY <1>2 DEF r

(* Taking the first frame and None. *)
LEMMA NoneTail ==
  ASSUME NEW S, NEW q \in Seq(S), q # <<>>, NEW F
  PROVE  None(q, F) <=> Head(q) \notin F /\ None(Tail(q), F)
<1>1. /\ Len(q) \in Nat \ {0} /\ Len(Tail(q)) = Len(q) - 1
      /\ Head(q) = q[1] /\ 1 \in 1 .. Len(q)
      /\ \A i \in 1 .. Len(Tail(q)) : Tail(q)[i] = q[i + 1] /\ i + 1 \in 1 .. Len(q)
  BY TailIn
<1>2. ASSUME NEW i \in 1 .. Len(q), i # 1 PROVE i - 1 \in 1 .. Len(Tail(q)) /\ (i - 1) + 1 = i
  BY <1>1, <1>2
<1>3. ASSUME NEW i \in 1 .. Len(q), i # 1 PROVE q[i] = Tail(q)[i - 1] /\ i - 1 \in 1 .. Len(Tail(q))
  <2>1. i - 1 \in 1 .. Len(Tail(q)) /\ (i - 1) + 1 = i
    BY <1>2, <1>3
  <2>2. Tail(q)[i - 1] = q[(i - 1) + 1]
    BY <2>1, <1>1
  <2> QED BY <2>1, <2>2
<1>4. None(q, F) => Head(q) \notin F /\ None(Tail(q), F)
  BY <1>1 DEF None
<1>5. Head(q) \notin F /\ None(Tail(q), F) => None(q, F)
  BY <1>1, <1>3 DEF None
<1> QED BY <1>4, <1>5

(* Appending a frame and Single. *)
LEMMA SingleAppend ==
  ASSUME NEW S, NEW q \in Seq(S), NEW f \in S, NEW F, NEW g
  PROVE  /\ Single(q, F, g) /\ f \notin F => Single(Append(q, f), F, g)
         /\ None(q, F) /\ f = g => Single(Append(q, f), F, g)
<1> DEFINE r == Append(q, f)
<1>1. /\ Len(q) \in Nat /\ Len(r) = Len(q) + 1
      /\ \A i \in 1 .. Len(q) : r[i] = q[i] /\ i \in 1 .. Len(r)
      /\ r[Len(q) + 1] = f /\ Len(q) + 1 \in 1 .. Len(r)
      /\ \A i \in 1 .. Len(r) : i \in 1 .. Len(q) \/ i = Len(q) + 1
  BY AppendIs
<1> HIDE DEF r
<1>2. ASSUME Single(q, F, g), f \notin F PROVE Single(r, F, g)
  <2>1. PICK i \in 1 .. Len(q) : q[i] = g /\ \A j \in 1 .. Len(q) : j # i => q[j] \notin F
    BY <1>2 DEF Single
  <2>2. i \in 1 .. Len(r) /\ r[i] = g
    BY <2>1, <1>1
  <2>3. \A j \in 1 .. Len(r) : j # i => r[j] \notin F
    BY <2>1, <1>1, <1>2
  <2> QED BY <2>2, <2>3 DEF Single
<1>3. ASSUME None(q, F), f = g PROVE Single(r, F, g)
  <2>1. \A j \in 1 .. Len(r) : j # Len(q) + 1 => r[j] \notin F
    BY <1>1, <1>3 DEF None
  <2> QED BY <2>1, <1>1, <1>3 DEF Single
<1> QED BY <1>2, <1>3 DEF r

(* Taking the first frame and Single. *)
LEMMA SingleTail ==
  ASSUME NEW S, NEW q \in Seq(S), q # <<>>, NEW F, NEW g \in F, Single(q, F, g)
  PROVE  /\ Head(q) \notin F => Single(Tail(q), F, g)
         /\ Head(q) \in F => Head(q) = g /\ None(Tail(q), F)
<1> DEFINE t == Tail(q)
<1>1. /\ Len(q) \in Nat \ {0} /\ Len(t) = Len(q) - 1
      /\ Head(q) = q[1] /\ 1 \in 1 .. Len(q)
      /\ \A i \in 1 .. Len(t) : t[i] = q[i + 1] /\ i + 1 \in 1 .. Len(q)
  BY TailIn
<1> HIDE DEF t
<1>2. PICK i \in 1 .. Len(q) : q[i] = g /\ \A j \in 1 .. Len(q) : j # i => q[j] \notin F
  BY DEF Single
<1>3. ASSUME Head(q) \notin F PROVE Single(t, F, g)
  <2>1. i # 1
    BY <1>1, <1>2, <1>3
  <2>2. i - 1 \in 1 .. Len(t) /\ (i - 1) + 1 = i
    BY <1>1, <2>1
  <2>3. t[i - 1] = q[(i - 1) + 1]
    BY <1>1, <2>2
  <2>4. \A j \in 1 .. Len(t) : j # i - 1 => t[j] \notin F
    <3> TAKE j \in 1 .. Len(t)
    <3> HAVE j # i - 1
    <3>1. j + 1 # i /\ j + 1 \in 1 .. Len(q) /\ t[j] = q[j + 1]
      BY <1>1
    <3> QED BY <3>1, <1>2
  <2> QED BY <2>2, <2>3, <2>4, <1>2 DEF Single
<1>4. ASSUME Head(q) \in F PROVE Head(q) = g /\ None(t, F)
  <2>1. i = 1
    BY <1>1, <1>2, <1>4
  <2>2. ASSUME NEW j \in 1 .. Len(t) PROVE t[j] \notin F
    <3>1. j + 1 # 1 /\ j + 1 \in 1 .. Len(q) /\ t[j] = q[j + 1]
      BY <1>1
    <3> QED BY <3>1, <2>1, <1>2
  <2> QED BY <2>1, <2>2, <1>1, <1>2 DEF None
<1> QED BY <1>3, <1>4 DEF t

(* Appending a frame and Last. *)
LEMMA LastAppend ==
  ASSUME NEW S, NEW q \in Seq(S), NEW f \in S, NEW F, NEW G \in SUBSET F, NEW g
  PROVE  /\ Last(q, F, G, g) /\ f \notin F => Last(Append(q, f), F, G, g)
         /\ None(q, G) /\ f = g => Last(Append(q, f), F, G, g)
<1> DEFINE r == Append(q, f)
<1>1. /\ Len(q) \in Nat /\ Len(r) = Len(q) + 1
      /\ \A i \in 1 .. Len(q) : r[i] = q[i] /\ i \in 1 .. Len(r)
      /\ r[Len(q) + 1] = f /\ Len(q) + 1 \in 1 .. Len(r)
      /\ \A i \in 1 .. Len(r) : i \in 1 .. Len(q) \/ i = Len(q) + 1
  BY AppendIs
<1> HIDE DEF r
<1>2. ASSUME Last(q, F, G, g), f \notin F PROVE Last(r, F, G, g)
  <2>1. PICK i \in 1 .. Len(q) : /\ q[i] = g
                                 /\ \A j \in 1 .. Len(q) : j > i => q[j] \notin F
                                 /\ \A j \in 1 .. Len(q) : j # i => q[j] \notin G
    BY <1>2 DEF Last
  <2>2. i \in 1 .. Len(r) /\ r[i] = g
    BY <2>1, <1>1
  <2>3. \A j \in 1 .. Len(r) : j > i => r[j] \notin F
    BY <2>1, <1>1, <1>2
  <2>4. \A j \in 1 .. Len(r) : j # i => r[j] \notin G
    BY <2>1, <1>1, <1>2
  <2> QED BY <2>2, <2>3, <2>4 DEF Last
<1>3. ASSUME None(q, G), f = g PROVE Last(r, F, G, g)
  <2>1. \A j \in 1 .. Len(r) : j # Len(q) + 1 => r[j] \notin G
    BY <1>1, <1>3 DEF None
  <2>2. \A j \in 1 .. Len(r) : ~(j > Len(q) + 1)
    BY <1>1
  <2> QED BY <2>1, <2>2, <1>1, <1>3 DEF Last
<1> QED BY <1>2, <1>3 DEF r

(* Taking the first frame and Last. *)
LEMMA LastTail ==
  ASSUME NEW S, NEW q \in Seq(S), q # <<>>, NEW F, NEW G \in SUBSET F, NEW g \in G, Last(q, F, G, g)
  PROVE  /\ Head(q) \notin G => Last(Tail(q), F, G, g)
         /\ Head(q) \in G => Head(q) = g /\ None(Tail(q), F)
<1> DEFINE t == Tail(q)
<1>1. /\ Len(q) \in Nat \ {0} /\ Len(t) = Len(q) - 1
      /\ Head(q) = q[1] /\ 1 \in 1 .. Len(q)
      /\ \A i \in 1 .. Len(t) : t[i] = q[i + 1] /\ i + 1 \in 1 .. Len(q)
  BY TailIn
<1> HIDE DEF t
<1>2. PICK i \in 1 .. Len(q) : /\ q[i] = g
                               /\ \A j \in 1 .. Len(q) : j > i => q[j] \notin F
                               /\ \A j \in 1 .. Len(q) : j # i => q[j] \notin G
  BY DEF Last
<1>3. ASSUME Head(q) \notin G PROVE Last(t, F, G, g)
  <2>1. i # 1
    BY <1>1, <1>2, <1>3
  <2>2. i - 1 \in 1 .. Len(t) /\ (i - 1) + 1 = i
    BY <1>1, <2>1
  <2>3. t[i - 1] = q[(i - 1) + 1]
    BY <1>1, <2>2
  <2>4. ASSUME NEW j \in 1 .. Len(t)
        PROVE  (j > i - 1 => t[j] \notin F) /\ (j # i - 1 => t[j] \notin G)
    <3>1. j + 1 \in 1 .. Len(q) /\ t[j] = q[j + 1] /\ (j # i - 1 => j + 1 # i) /\ (j > i - 1 => j + 1 > i)
      BY <1>1
    <3> QED BY <3>1, <1>2
  <2> QED BY <2>2, <2>3, <2>4, <1>2 DEF Last
<1>4. ASSUME Head(q) \in G PROVE Head(q) = g /\ None(t, F)
  <2>1. i = 1
    BY <1>1, <1>2, <1>4
  <2>2. ASSUME NEW j \in 1 .. Len(t) PROVE t[j] \notin F
    <3>1. j + 1 > 1 /\ j + 1 \in 1 .. Len(q) /\ t[j] = q[j + 1]
      BY <1>1
    <3> QED BY <3>1, <2>1, <1>2
  <2> QED BY <2>1, <2>2, <1>1, <1>2 DEF None
<1> QED BY <1>3, <1>4 DEF t

(* A frame appended to the second half is appended to the whole:           *)
(* serial_send.                                                            *)
LEMMA ConcatAppend ==
  ASSUME NEW S, NEW a \in Seq(S), NEW b \in Seq(S), NEW f \in S
  PROVE  a \o Append(b, f) = Append(a \o b, f)
<1>1. <<f>> \in Seq(S) /\ a \o b \in Seq(S)
  BY ConcatProperties
<1>2. Append(b, f) = b \o <<f>> /\ Append(a \o b, f) = (a \o b) \o <<f>>
  BY <1>1, AppendIsConcat
<1>3. (a \o b) \o <<f>> = a \o (b \o <<f>>)
  BY <1>1, ConcatAssociative
<1> QED BY <1>2, <1>3

(* The first frame of a nonempty first half is that of the whole: the      *)
(* emulator reads.                                                         *)
LEMMA ConcatHead ==
  ASSUME NEW S, NEW a \in Seq(S), NEW b \in Seq(S), a # <<>>
  PROVE  /\ a \o b # <<>> /\ a \o b \in Seq(S)
         /\ Head(a \o b) = Head(a) /\ Tail(a \o b) = Tail(a) \o b
<1> DEFINE x == a \o b
           y == Tail(a) \o b
<1>0. Len(a) \in Nat \ {0} /\ Len(b) \in Nat
  BY EmptySeq, LenProperties
<1>1. /\ x \in Seq(S) /\ Len(x) = Len(a) + Len(b)
      /\ \A i \in 1 .. Len(a) + Len(b) : x[i] = IF i <= Len(a) THEN a[i] ELSE b[i - Len(a)]
  BY ConcatProperties
<1>2. /\ Tail(a) \in Seq(S) /\ Len(Tail(a)) = Len(a) - 1 /\ Head(a) = a[1]
      /\ \A i \in 1 .. Len(Tail(a)) : Tail(a)[i] = a[i + 1]
  BY TailIn
<1>3. /\ y \in Seq(S) /\ Len(y) = Len(Tail(a)) + Len(b)
      /\ \A i \in 1 .. Len(Tail(a)) + Len(b) : y[i] = IF i <= Len(Tail(a)) THEN Tail(a)[i] ELSE b[i - Len(Tail(a))]
  BY <1>2, ConcatProperties
<1> HIDE DEF x, y
<1>4. x # <<>>
  BY <1>0, <1>1, EmptySeq
<1>5. /\ Tail(x) \in Seq(S) /\ Len(Tail(x)) = Len(x) - 1 /\ Head(x) = x[1]
      /\ \A i \in 1 .. Len(Tail(x)) : Tail(x)[i] = x[i + 1]
  BY <1>1, <1>4, TailIn
<1>6. Head(x) = Head(a)
  BY <1>0, <1>1, <1>2, <1>5
<1>7. Len(Tail(x)) = Len(y)
  BY <1>0, <1>1, <1>2, <1>3, <1>5
<1>8. ASSUME NEW i \in 1 .. Len(Tail(x)) PROVE Tail(x)[i] = y[i]
  <2>1. Tail(x)[i] = x[i + 1] /\ i + 1 \in 1 .. Len(a) + Len(b) /\ i \in 1 .. Len(Tail(a)) + Len(b) /\ i \in Nat
    BY <1>0, <1>1, <1>2, <1>5
  <2>2. CASE i <= Len(a) - 1
    <3>1. i + 1 <= Len(a) /\ i \in 1 .. Len(Tail(a))
      BY <1>0, <1>2, <2>1, <2>2
    <3>2. x[i + 1] = a[i + 1] /\ y[i] = Tail(a)[i]
      BY <2>1, <3>1, <1>1, <1>3, <1>2, <2>2
    <3> QED BY <3>1, <3>2, <2>1, <1>2
  <2>3. CASE ~(i <= Len(a) - 1)
    <3>1. ~(i + 1 <= Len(a)) /\ ~(i <= Len(Tail(a))) /\ (i + 1) - Len(a) = i - Len(Tail(a))
      BY <1>0, <1>2, <2>1, <2>3
    <3>2. x[i + 1] = b[(i + 1) - Len(a)] /\ y[i] = b[i - Len(Tail(a))]
      BY <2>1, <3>1, <1>1, <1>3
    <3> QED BY <3>1, <3>2, <2>1
  <2> QED BY <2>2, <2>3
<1>9. Tail(x) = y
  BY <1>3, <1>5, <1>7, <1>8, SeqEqual
<1> QED BY <1>1, <1>4, <1>6, <1>9 DEF x, y

(* A frame that moves from the second half to the first changes nothing:   *)
(* the daemon writes to the serial line.                                   *)
LEMMA ConcatMove ==
  ASSUME NEW S, NEW a \in Seq(S), NEW b \in Seq(S), b # <<>>
  PROVE  Append(a, Head(b)) \o Tail(b) = a \o b
<1> DEFINE g == Head(b)
           t == Tail(b)
<1>1. g \in S /\ t \in Seq(S) /\ <<g>> \in Seq(S) /\ <<g>> # <<>>
  BY TailIn
<1>2. <<g>> \o t = b
  <2> DEFINE x == <<g>> \o t
  <2>0. <<>> \in Seq(S)
    BY EmptySeq
  <2>1. x \in Seq(S) /\ x # <<>> /\ Head(x) = g /\ Tail(x) = Tail(<<g>>) \o t
    <3>1. Head(<<g>>) = g
      OBVIOUS
    <3> QED BY <3>1, <1>1, ConcatHead
  <2>2. Len(<<g>>) = 1 /\ <<g>>[1] = g
    OBVIOUS
  <2>3. /\ Len(x) = 1 + Len(t) /\ \A i \in 1 .. 1 + Len(t) : x[i] = IF i <= 1 THEN g ELSE t[i - 1]
    <3> HIDE DEF g, t
    <3>1. /\ Len(x) = Len(<<g>>) + Len(t)
          /\ \A i \in 1 .. Len(<<g>>) + Len(t) : x[i] = IF i <= Len(<<g>>) THEN <<g>>[i] ELSE t[i - Len(<<g>>)]
      BY <1>1, ConcatProperties
    <3>2. \A i \in 1 .. 1 + Len(t) : i <= 1 => i = 1
      OBVIOUS
    <3> QED BY <3>1, <3>2, <2>2
  <2>4. /\ Len(b) \in Nat \ {0} /\ Len(t) = Len(b) - 1 /\ g = b[1]
        /\ \A i \in 1 .. Len(t) : t[i] = b[i + 1]
    BY TailIn
  <2> HIDE DEF x, g, t
  <2>5. Len(x) = Len(b)
    BY <2>3, <2>4
  <2>6. ASSUME NEW i \in 1 .. Len(b) PROVE x[i] = b[i]
    <3>1. CASE i = 1
      BY <3>1, <2>3, <2>4
    <3>2. CASE i # 1
      <4>1. i - 1 \in 1 .. Len(t) /\ (i - 1) + 1 = i /\ ~(i <= 1) /\ i \in 1 .. 1 + Len(t)
        BY <3>2, <2>4
      <4>2. x[i] = t[i - 1] /\ t[i - 1] = b[(i - 1) + 1]
        BY <4>1, <2>3, <2>4
      <4> QED BY <4>1, <4>2
    <3> QED BY <3>1, <3>2
  <2>7. x = b
    BY <2>1, <2>5, <2>6, SeqEqual
  <2> QED BY <2>7 DEF x
<1> HIDE DEF g, t
<1>3. Append(a, g) = a \o <<g>>
  BY <1>1, AppendIsConcat
<1>4. (a \o <<g>>) \o t = a \o (<<g>> \o t)
  BY <1>1, ConcatAssociative
<1> QED BY <1>2, <1>3, <1>4 DEF g, t

(* Nor does reading the first n frames: the daemon reads the serial line. *)
LEMMA ConcatSplit ==
  ASSUME NEW S, NEW q \in Seq(S), NEW n \in 0 .. Len(q)
  PROVE  SubSeq(q, 1, n) \o SubSeq(q, n + 1, Len(q)) = q
<1>1. Len(q) \in Nat
  BY LenProperties
<1>2. 1 \in 1 .. Len(q) + 1 /\ n \in 1 - 1 .. Len(q) /\ Len(q) \in n .. Len(q)
  BY <1>1
<1>3. SubSeq(q, 1, n) \o SubSeq(q, n + 1, Len(q)) = SubSeq(q, 1, Len(q))
  BY <1>2, ConcatAdjacentSubSeq
<1> QED BY <1>3, SubSeqFull

(* What holds before holds after, for a client in each of the three states. *)
Keeps(dn, up, op, dn2, up2, op2, ch, k) ==
  /\ Waiting(dn, up, op, ch, k) => Waiting(dn2, up2, op2, ch, k)
  /\ Serving(dn, up, op, ch, k) => Serving(dn2, up2, op2, ch, k)
  /\ Fresh(dn, up, op, ch, k) => Fresh(dn2, up2, op2, ch, k)

(* Which frames are in which of these sets. *)
LEMMA FrameSets ==
  ASSUME NEW ch \in 0 .. (Channels - 1), NEW k \in Connections
  PROVE  /\ DownBy(ch, k) \subseteq DownOn(ch) /\ Frame("connect", ch, k) \in DownBy(ch, k)
         /\ Frame("ok", ch, k) \in UpTo(ch, k) /\ Frame("ko", ch, k) \in UpTo(ch, k)
         /\ Frame("disconnect", ch, k) \in UpTo(ch, k) /\ Frame("disconnect", ch, k) \in DownOn(ch)
         /\ Frame("disconnect", ch, k) \in Ends(ch)
         /\ Frame("ok", ch, k) # Frame("ko", ch, k) /\ Frame("ok", ch, k) # Frame("disconnect", ch, k)
         /\ Frame("ko", ch, k) # Frame("disconnect", ch, k)
<1>1. "ok" \in Ops /\ "ko" \in Ops /\ "connect" \in Ops /\ "disconnect" \in Ops
  BY DEF Ops
<1>2. /\ Frame("ok", ch, k) \in Frames /\ Frame("ko", ch, k) \in Frames
      /\ Frame("connect", ch, k) \in Frames /\ Frame("disconnect", ch, k) \in Frames
  BY <1>1, FrameType
<1> QED BY <1>2 DEF DownBy, DownOn, UpTo, Ends, Frame

(* A frame sent to the emulator about another channel changes nothing      *)
(* here.                                                                   *)
LEMMA DownSilent ==
  ASSUME NEW dn \in Seq(Frames), NEW up, NEW op, NEW ch \in 0 .. (Channels - 1), NEW k \in Connections,
         NEW f \in Frames, f \notin DownOn(ch)
  PROVE  Keeps(dn, up, op, Append(dn, f), up, op, ch, k)
<1>1. DownBy(ch, k) \in SUBSET DownOn(ch) /\ f \notin DownBy(ch, k)
  BY FrameSets
<1>2. /\ None(dn, DownOn(ch)) => None(Append(dn, f), DownOn(ch))
      /\ None(dn, DownBy(ch, k)) => None(Append(dn, f), DownBy(ch, k))
  BY <1>1, NoneAppend
<1>3. Last(dn, DownOn(ch), DownBy(ch, k), Frame("connect", ch, k))
        => Last(Append(dn, f), DownOn(ch), DownBy(ch, k), Frame("connect", ch, k))
  BY <1>1, LastAppend
<1> QED BY <1>2, <1>3 DEF Keeps, Waiting, Serving, Fresh, Asked, Refused

(* A frame of another client changes nothing for a client that is fresh. *)
LEMMA DownOther ==
  ASSUME NEW dn \in Seq(Frames), NEW up, NEW op, NEW ch, NEW k, NEW f \in Frames, f.conn # k,
         Fresh(dn, up, op, ch, k)
  PROVE  Fresh(Append(dn, f), up, op, ch, k)
<1>1. f \notin DownBy(ch, k)
  BY DEF DownBy
<1>2. None(Append(dn, f), DownBy(ch, k))
  BY <1>1, NoneAppend DEF Fresh
<1> QED BY <1>2 DEF Fresh

(* A frame from the emulator that is not for this client changes nothing. *)
LEMMA UpSilent ==
  ASSUME NEW dn, NEW up \in Seq(Frames), NEW op, NEW ch \in 0 .. (Channels - 1), NEW k \in Connections,
         NEW f \in Frames, f \notin UpTo(ch, k)
  PROVE  Keeps(dn, up, op, dn, Append(up, f), op, ch, k)
<1>1. f \notin {Frame("ok", ch, k)} /\ f \notin {Frame("ko", ch, k)} /\ f \notin {Frame("disconnect", ch, k)}
  BY FrameSets
<1>2. /\ None(up, UpTo(ch, k)) => None(Append(up, f), UpTo(ch, k))
      /\ None(up, {Frame("ok", ch, k)}) <=> None(Append(up, f), {Frame("ok", ch, k)})
      /\ None(up, {Frame("ko", ch, k)}) <=> None(Append(up, f), {Frame("ko", ch, k)})
      /\ None(up, {Frame("disconnect", ch, k)}) <=> None(Append(up, f), {Frame("disconnect", ch, k)})
  BY <1>1, NoneAppend
<1>3. Single(up, UpTo(ch, k), Frame("ko", ch, k)) => Single(Append(up, f), UpTo(ch, k), Frame("ko", ch, k))
  BY SingleAppend
<1> QED BY <1>2, <1>3 DEF Keeps, Waiting, Serving, Fresh, Asked, Refused

(* The daemon takes a frame that is not for this client. *)
LEMMA UpDrop ==
  ASSUME NEW dn, NEW up \in Seq(Frames), up # <<>>, NEW op, NEW ch \in 0 .. (Channels - 1), NEW k \in Connections
  PROVE  /\ Head(up) \notin UpTo(ch, k) => Keeps(dn, up, op, dn, Tail(up), op, ch, k)
         /\ Fresh(dn, up, op, ch, k) => Fresh(dn, Tail(up), op, ch, k)
<1>0. None(up, UpTo(ch, k)) => None(Tail(up), UpTo(ch, k))
  BY NoneTail
<1>1. ASSUME Head(up) \notin UpTo(ch, k)
      PROVE  /\ Head(up) \notin {Frame("ok", ch, k)} /\ Head(up) \notin {Frame("ko", ch, k)}
             /\ Head(up) \notin {Frame("disconnect", ch, k)}
  BY <1>1, FrameSets
<1>2. ASSUME Head(up) \notin UpTo(ch, k)
      PROVE  /\ None(up, {Frame("ok", ch, k)}) <=> None(Tail(up), {Frame("ok", ch, k)})
             /\ None(up, {Frame("ko", ch, k)}) <=> None(Tail(up), {Frame("ko", ch, k)})
             /\ None(up, {Frame("disconnect", ch, k)}) <=> None(Tail(up), {Frame("disconnect", ch, k)})
  BY <1>1, <1>2, NoneTail
<1>3. ASSUME Head(up) \notin UpTo(ch, k), Single(up, UpTo(ch, k), Frame("ko", ch, k))
      PROVE  Single(Tail(up), UpTo(ch, k), Frame("ko", ch, k))
  BY <1>3, FrameSets, SingleTail
<1> QED BY <1>0, <1>2, <1>3 DEF Keeps, Waiting, Serving, Fresh, Asked, Refused

(* The emulator takes a frame about another channel. *)
LEMMA DownDrop ==
  ASSUME NEW dn \in Seq(Frames), dn # <<>>, NEW up, NEW op, NEW ch \in 0 .. (Channels - 1), NEW k \in Connections
  PROVE  /\ Head(dn) \notin DownOn(ch) => Keeps(dn, up, op, Tail(dn), up, op, ch, k)
         /\ Fresh(dn, up, op, ch, k) => Fresh(Tail(dn), up, op, ch, k)
<1>0. /\ None(dn, DownOn(ch)) => None(Tail(dn), DownOn(ch))
      /\ None(dn, DownBy(ch, k)) => None(Tail(dn), DownBy(ch, k))
  BY NoneTail
<1>1. ASSUME Head(dn) \notin DownOn(ch), Last(dn, DownOn(ch), DownBy(ch, k), Frame("connect", ch, k))
      PROVE  Last(Tail(dn), DownOn(ch), DownBy(ch, k), Frame("connect", ch, k))
  <2>1. Head(dn) \notin DownBy(ch, k) /\ DownBy(ch, k) \in SUBSET DownOn(ch)
    BY <1>1, FrameSets
  <2> QED BY <1>1, <2>1, FrameSets, LastTail
<1> QED BY <1>0, <1>1 DEF Keeps, Waiting, Serving, Fresh, Asked, Refused

(* Which other client the emulator serves makes no difference. *)
LEMMA ServedOther ==
  ASSUME NEW dn, NEW up, NEW op, NEW op2, NEW ch, NEW k, op # k, op2 # k
  PROVE  Keeps(dn, up, op, dn, up, op2, ch, k)
BY DEF Keeps, Waiting, Serving, Fresh, Asked, Refused

(* Two steps that keep a client's state, one after the other. *)
LEMMA KeepsTwice ==
  ASSUME NEW dn, NEW up, NEW op, NEW dn2, NEW up2, NEW op2, NEW dn3, NEW up3, NEW op3, NEW ch, NEW k,
         Keeps(dn, up, op, dn2, up2, op2, ch, k), Keeps(dn2, up2, op2, dn3, up3, op3, ch, k)
  PROVE  Keeps(dn, up, op, dn3, up3, op3, ch, k)
BY DEF Keeps

(* A frame of client j on channel ch is none of another client or channel. *)
LEMMA OtherFrame ==
  ASSUME NEW o, NEW ch, NEW j, NEW k, NEW ch2, ch2 # ch \/ j # k
  PROVE  Frame(o, ch, j) \notin UpTo(ch2, k) /\ Frame(o, ch, j) \notin DownBy(ch2, k)
BY DEF UpTo, DownBy, Frame, DownOn

(* The emulator takes the connect of client j on channel ch and answers it. *)
LEMMA ConnectTaken ==
  ASSUME NEW dn \in Seq(Frames), dn # <<>>, NEW up \in Seq(Frames), NEW op, NEW op2,
         NEW ch \in 0 .. (Channels - 1), NEW k \in Connections, NEW j \in Connections,
         Head(dn) = Frame("connect", ch, j), NEW o,
         \/ o = "ok" /\ op2 = j
         \/ o = "ko" /\ op2 = op
  PROVE  Keeps(dn, up, op, Tail(dn), Append(up, Frame(o, ch, j)), op2, ch, k)
<1> DEFINE g == Frame(o, ch, j)
<1>1. g \in Frames
  BY FrameType DEF Ops
<1>2. Head(dn) \in DownOn(ch) /\ Head(dn) \in DownBy(ch, j)
  BY FrameSets
<1>3. ~None(dn, DownOn(ch))
  BY <1>2, NoneTail
<1>4. ~Serving(dn, up, op, ch, k) /\ ~Refused(dn, up, op, ch, k)
  BY <1>3 DEF Serving, Refused
<1>5. CASE k = j
  <2>1. ~None(dn, DownBy(ch, k))
    BY <1>2, <1>5, NoneTail
  <2>2. ~Fresh(dn, up, op, ch, k)
    BY <2>1 DEF Fresh
  <2>3. ASSUME Asked(dn, up, op, ch, k) PROVE Waiting(Tail(dn), Append(up, g), op2, ch, k)
    <3>1. None(Tail(dn), DownOn(ch))
      BY <2>3, <1>2, <1>5, FrameSets, LastTail DEF Asked
    <3>2. None(up, UpTo(ch, k)) /\ op # k
      BY <2>3 DEF Asked
    <3>3. CASE o = "ko" /\ op2 = op
      <4>1. Single(Append(up, g), UpTo(ch, k), Frame("ko", ch, k))
        BY <1>1, <1>5, <3>2, <3>3, SingleAppend
      <4> QED BY <3>1, <3>2, <3>3, <4>1 DEF Waiting, Refused
    <3>4. CASE o = "ok" /\ op2 = j
      <4>1. None(up, {Frame("ko", ch, k)}) /\ None(up, {Frame("disconnect", ch, k)})
        BY <3>2, FrameSets DEF None
      <4>2. g \notin {Frame("ko", ch, k)} /\ g \notin {Frame("disconnect", ch, k)} /\ g \in {Frame("ok", ch, k)}
        BY <3>4, <1>5, FrameSets
      <4> HIDE DEF g
      <4>3. /\ None(Append(up, g), {Frame("ko", ch, k)}) /\ None(Append(up, g), {Frame("disconnect", ch, k)})
            /\ ~None(Append(up, g), {Frame("ok", ch, k)})
        BY <4>1, <4>2, <1>1, NoneAppend
      <4> QED BY <3>1, <3>4, <4>3, <1>5 DEF Waiting, Serving
    <3> QED BY <3>3, <3>4
  <2> QED BY <2>2, <2>3, <1>4 DEF Keeps, Waiting
<1>6. CASE k # j
  <2>1. g \notin UpTo(ch, k) /\ Head(dn) \notin DownBy(ch, k)
    BY <1>6, OtherFrame
  <2>2. ASSUME op # k PROVE op2 # k
    BY <2>2, <1>6
  <2>3. None(up, UpTo(ch, k)) => None(Append(up, g), UpTo(ch, k))
    BY <1>1, <2>1, NoneAppend
  <2>4. ASSUME Asked(dn, up, op, ch, k) PROVE Waiting(Tail(dn), Append(up, g), op2, ch, k)
    <3>1. Last(Tail(dn), DownOn(ch), DownBy(ch, k), Frame("connect", ch, k))
      BY <2>1, <2>4, FrameSets, LastTail DEF Asked
    <3> QED BY <3>1, <2>2, <2>3, <2>4 DEF Waiting, Asked
  <2>5. ASSUME Fresh(dn, up, op, ch, k) PROVE Fresh(Tail(dn), Append(up, g), op2, ch, k)
    <3>1. None(Tail(dn), DownBy(ch, k))
      BY <2>5, NoneTail DEF Fresh
    <3> QED BY <3>1, <2>2, <2>3, <2>5 DEF Fresh
  <2> QED BY <2>4, <2>5, <1>4 DEF Keeps, Waiting
<1> QED BY <1>5, <1>6

(* The emulator takes a disconnect: the channel is closed, and no client   *)
(* that is waiting or served was behind it.                                *)
LEMMA DisconnectTaken ==
  ASSUME NEW dn \in Seq(Frames), dn # <<>>, NEW up, NEW op,
         NEW ch \in 0 .. (Channels - 1), NEW k \in Connections, Head(dn) \in Ends(ch)
  PROVE  Keeps(dn, up, op, Tail(dn), up, 0, ch, k)
<1>1. Head(dn) \in DownOn(ch) /\ Head(dn) # Frame("connect", ch, k) /\ 0 # k
  BY NatsFacts DEF Ends, DownOn, Frame
<1>2. ~None(dn, DownOn(ch))
  BY <1>1, NoneTail
<1>3. ~Serving(dn, up, op, ch, k) /\ ~Refused(dn, up, op, ch, k)
  BY <1>2 DEF Serving, Refused
<1>4. ASSUME Asked(dn, up, op, ch, k) PROVE Waiting(Tail(dn), up, 0, ch, k)
  <2>1. Last(Tail(dn), DownOn(ch), DownBy(ch, k), Frame("connect", ch, k))
    BY <1>1, <1>4, FrameSets, LastTail DEF Asked
  <2> QED BY <2>1, <1>1, <1>4 DEF Waiting, Asked
<1>5. ASSUME Fresh(dn, up, op, ch, k) PROVE Fresh(Tail(dn), up, 0, ch, k)
  <2>1. None(Tail(dn), DownBy(ch, k))
    BY <1>5, NoneTail DEF Fresh
  <2> QED BY <2>1, <1>1, <1>5 DEF Fresh
<1> QED BY <1>3, <1>4, <1>5 DEF Keeps, Waiting

(* The emulator hangs up: the disconnect is on the way to the client it    *)
(* served.                                                                 *)
LEMMA HangsUpFirst ==
  ASSUME NEW dn, NEW up \in Seq(Frames), NEW op \in Connections,
         NEW ch \in 0 .. (Channels - 1), NEW k \in Connections
  PROVE  Keeps(dn, up, op, dn, Append(up, Frame("disconnect", ch, op)), 0, ch, k)
<1> DEFINE g == Frame("disconnect", ch, op)
           up2 == Append(up, g)
<1>1. g \in Frames /\ 0 # k
  BY FrameType, NatsFacts DEF Ops
<1>2. CASE op # k
  <2>1. g \notin UpTo(ch, k)
    BY <1>2, OtherFrame
  <2> HIDE DEF g
  <2>2. Keeps(dn, up, op, dn, up2, op, ch, k)
    BY <1>1, <2>1, UpSilent
  <2>3. Keeps(dn, up2, op, dn, up2, 0, ch, k)
    BY <1>1, <1>2, ServedOther, Zenon
  <2> HIDE DEF up2
  <2>4. Keeps(dn, up, op, dn, up2, 0, ch, k)
    BY <2>2, <2>3, KeepsTwice, Zenon
  <2> QED BY <2>4 DEF up2, g
<1>3. CASE op = k
  <2>1. g \notin {Frame("ko", ch, k)} /\ g \notin {Frame("ok", ch, k)} /\ g \in {Frame("disconnect", ch, k)}
    BY <1>3, FrameSets
  <2> HIDE DEF g
  <2>2. /\ None(up, {Frame("ko", ch, k)}) => None(up2, {Frame("ko", ch, k)})
        /\ ~None(up2, {Frame("disconnect", ch, k)})
        /\ ~None(up, {Frame("ok", ch, k)}) => ~None(up2, {Frame("ok", ch, k)})
    BY <2>1, <1>1, NoneAppend
  <2>3. Serving(dn, up, op, ch, k) => Serving(dn, up2, 0, ch, k)
    BY <2>2, <1>1, <1>3 DEF Serving
  <2>4. Waiting(dn, up, op, ch, k) => Waiting(dn, up2, 0, ch, k)
    BY <2>2, <2>3, <1>3 DEF Waiting, Asked, Refused
  <2>5. ~Fresh(dn, up, op, ch, k)
    BY <1>3 DEF Fresh
  <2> QED BY <2>3, <2>4, <2>5 DEF Keeps, g, up2
<1> QED BY <1>2, <1>3

(* A fresh client that sends its connect is waiting for the answer. *)
LEMMA OpensFresh ==
  ASSUME NEW dn \in Seq(Frames), NEW up, NEW op, NEW ch \in 0 .. (Channels - 1), NEW k \in Connections,
         Fresh(dn, up, op, ch, k)
  PROVE  Waiting(Append(dn, Frame("connect", ch, k)), up, op, ch, k)
<1>1. Frame("connect", ch, k) \in Frames
  BY FrameSets DEF DownBy, DownOn
<1>2. Last(Append(dn, Frame("connect", ch, k)), DownOn(ch), DownBy(ch, k), Frame("connect", ch, k))
  BY <1>1, FrameSets, LastAppend DEF Fresh
<1> QED BY <1>2 DEF Waiting, Asked, Fresh

(* What the answer to a waiting or served client makes of it. *)
LEMMA AnswerTaken ==
  ASSUME NEW dn, NEW up \in Seq(Frames), up # <<>>, NEW op, NEW ch \in 0 .. (Channels - 1),
         NEW k \in Connections, Waiting(dn, up, op, ch, k) \/ Serving(dn, up, op, ch, k)
  PROVE  /\ Head(up) = Frame("ok", ch, k) => Serving(dn, Tail(up), op, ch, k)
         /\ Head(up) = Frame("ko", ch, k) =>
              Fresh(dn, Tail(up), op, ch, k) /\ None(dn, DownOn(ch)) /\ op # k
         /\ Head(up) = Frame("disconnect", ch, k) => None(dn, DownOn(ch)) /\ op # k
<1>1. ASSUME Head(up) \in UpTo(ch, k) PROVE ~Asked(dn, up, op, ch, k)
  <2>1. ~None(up, UpTo(ch, k))
    BY <1>1, NoneTail
  <2> QED BY <2>1 DEF Asked
<1>2. ASSUME Head(up) \in UpTo(ch, k), Head(up) # Frame("ko", ch, k) PROVE ~Refused(dn, up, op, ch, k)
  BY <1>2, FrameSets, SingleTail DEF Refused
<1>3. ASSUME Head(up) = Frame("ok", ch, k) PROVE Serving(dn, Tail(up), op, ch, k)
  <2>1. Head(up) \in UpTo(ch, k) /\ Head(up) # Frame("ko", ch, k) /\ Head(up) \notin {Frame("disconnect", ch, k)}
    BY <1>3, FrameSets
  <2>2. Serving(dn, up, op, ch, k)
    BY <2>1, <1>1, <1>2 DEF Waiting
  <2>3. /\ None(up, {Frame("ko", ch, k)}) => None(Tail(up), {Frame("ko", ch, k)})
        /\ None(up, {Frame("disconnect", ch, k)}) <=> None(Tail(up), {Frame("disconnect", ch, k)})
    BY <2>1, NoneTail
  <2> QED BY <2>2, <2>3 DEF Serving
<1>4. ASSUME Head(up) = Frame("ko", ch, k)
      PROVE  Fresh(dn, Tail(up), op, ch, k) /\ None(dn, DownOn(ch)) /\ op # k
  <2>1. Head(up) \in UpTo(ch, k)
    BY <1>4, FrameSets
  <2>2. ~Serving(dn, up, op, ch, k)
    BY <1>4, NoneTail DEF Serving
  <2>3. Refused(dn, up, op, ch, k)
    BY <2>1, <2>2, <1>1 DEF Waiting
  <2>4. None(Tail(up), UpTo(ch, k))
    BY <2>1, <2>3, FrameSets, SingleTail DEF Refused
  <2>5. None(dn, DownBy(ch, k))
    BY <2>3, FrameSets DEF Refused, None
  <2> QED BY <2>3, <2>4, <2>5 DEF Refused, Fresh
<1>5. ASSUME Head(up) = Frame("disconnect", ch, k) PROVE None(dn, DownOn(ch)) /\ op # k
  <2>1. Head(up) \in UpTo(ch, k) /\ Head(up) # Frame("ko", ch, k)
    BY <1>5, FrameSets
  <2>2. Serving(dn, up, op, ch, k)
    BY <2>1, <1>1, <1>2 DEF Waiting
  <2>3. ~None(up, {Frame("disconnect", ch, k)})
    BY <1>5, NoneTail
  <2> QED BY <2>2, <2>3 DEF Serving
<1> QED BY <1>3, <1>4, <1>5

(* A frame that opens no channel for a stranger keeps a channel settled. *)
LEMMA SettledAppend ==
  ASSUME NEW q \in Seq(Frames), NEW f \in Frames, NEW op, NEW ch, NEW H, Settled(q, op, ch, H),
         f \in Connects(ch) => f.conn \in H
  PROVE  Settled(Append(q, f), op, ch, H)
<1> DEFINE r == Append(q, f)
<1>1. /\ Len(q) \in Nat /\ Len(r) = Len(q) + 1
      /\ \A i \in 1 .. Len(q) : r[i] = q[i] /\ i \in 1 .. Len(r)
      /\ r[Len(q) + 1] = f /\ Len(q) + 1 \in 1 .. Len(r)
      /\ \A i \in 1 .. Len(r) : i \in 1 .. Len(q) \/ i = Len(q) + 1
  BY AppendIs
<1>2. ~None(q, Ends(ch)) => ~None(r, Ends(ch))
  BY NoneAppend
<1> HIDE DEF r
<1>3. Ended(r, ch, H)
  <2> SUFFICES ASSUME NEW i \in 1 .. Len(r), r[i] \in Connects(ch), r[i].conn \notin H
               PROVE  \E j \in 1 .. Len(r) : j > i /\ r[j] \in Ends(ch)
    BY DEF Ended
  <2>1. i \in 1 .. Len(q) /\ q[i] \in Connects(ch) /\ q[i].conn \notin H
    BY <1>1
  <2>2. PICK j \in 1 .. Len(q) : j > i /\ q[j] \in Ends(ch)
    BY <2>1 DEF Settled, Ended
  <2> QED BY <2>2, <1>1
<1>4. Settled(r, op, ch, H)
  BY <1>2, <1>3 DEF Settled
<1> QED BY <1>4 DEF r

(* A disconnect settles the channel. *)
LEMMA SettledEnd ==
  ASSUME NEW q \in Seq(Frames), NEW op, NEW ch, NEW f \in Ends(ch), NEW H
  PROVE  Settled(Append(q, f), op, ch, H)
<1> DEFINE r == Append(q, f)
<1>0. f \in Frames /\ f \notin Connects(ch)
  BY DEF Ends, Connects
<1>1. /\ Len(q) \in Nat /\ Len(r) = Len(q) + 1
      /\ \A i \in 1 .. Len(q) : r[i] = q[i] /\ i \in 1 .. Len(r)
      /\ r[Len(q) + 1] = f /\ Len(q) + 1 \in 1 .. Len(r)
      /\ \A i \in 1 .. Len(r) : i \in 1 .. Len(q) \/ i = Len(q) + 1
  BY <1>0, AppendIs
<1>2. ~None(r, Ends(ch))
  BY <1>0, NoneAppend
<1> HIDE DEF r
<1>3. Ended(r, ch, H)
  <2> SUFFICES ASSUME NEW i \in 1 .. Len(r), r[i] \in Connects(ch)
               PROVE  \E j \in 1 .. Len(r) : j > i /\ r[j] \in Ends(ch)
    BY DEF Ended
  <2>1. i # Len(q) + 1
    BY <1>0, <1>1
  <2>2. Len(q) + 1 > i
    BY <2>1, <1>1
  <2> QED BY <2>2, <1>1
<1>4. Settled(r, op, ch, H)
  BY <1>2, <1>3 DEF Settled
<1> QED BY <1>4 DEF r

(* The emulator takes a frame: what it then serves is settled. *)
LEMMA SettledTail ==
  ASSUME NEW q \in Seq(Frames), q # <<>>, NEW op, NEW ch, NEW H, Settled(q, op, ch, H)
  PROVE  /\ Head(q) \notin Ends(ch) => Settled(Tail(q), op, ch, H)
         /\ Head(q) \in Connects(ch) => Settled(Tail(q), Head(q).conn, ch, H)
         /\ Settled(Tail(q), 0, ch, H)
<1> DEFINE t == Tail(q)
<1>1. /\ Len(q) \in Nat \ {0} /\ Len(t) = Len(q) - 1
      /\ Head(q) = q[1] /\ 1 \in 1 .. Len(q)
      /\ \A i \in 1 .. Len(t) : t[i] = q[i + 1] /\ i + 1 \in 1 .. Len(q)
  BY TailIn
<1>2. None(q, Ends(ch)) <=> Head(q) \notin Ends(ch) /\ None(t, Ends(ch))
  BY NoneTail
<1> HIDE DEF t
<1>3. ASSUME NEW i \in 1 .. Len(q), NEW j \in 1 .. Len(q), j > i
      PROVE  j - 1 \in 1 .. Len(t) /\ t[j - 1] = q[j] /\ j - 1 > i - 1
  <2>1. j - 1 \in 1 .. Len(t) /\ (j - 1) + 1 = j /\ j - 1 > i - 1
    BY <1>1, <1>3
  <2>2. t[j - 1] = q[(j - 1) + 1]
    BY <2>1, <1>1
  <2> QED BY <2>1, <2>2
<1>4. Ended(t, ch, H)
  <2> SUFFICES ASSUME NEW i \in 1 .. Len(t), t[i] \in Connects(ch), t[i].conn \notin H
               PROVE  \E j \in 1 .. Len(t) : j > i /\ t[j] \in Ends(ch)
    BY DEF Ended
  <2>1. i + 1 \in 1 .. Len(q) /\ q[i + 1] \in Connects(ch) /\ q[i + 1].conn \notin H /\ (i + 1) - 1 = i
    BY <1>1
  <2>2. PICK j \in 1 .. Len(q) : j > i + 1 /\ q[j] \in Ends(ch)
    BY <2>1 DEF Settled, Ended
  <2>3. j - 1 \in 1 .. Len(t) /\ t[j - 1] = q[j] /\ j - 1 > (i + 1) - 1
    BY <2>1, <2>2, <1>3
  <2> QED BY <2>1, <2>2, <2>3
<1>5. ASSUME Head(q) \in Connects(ch) PROVE Head(q).conn \in H \/ ~None(t, Ends(ch))
  <2>1. q[1] \in Connects(ch)
    BY <1>1, <1>5
  <2>2. CASE q[1].conn \in H
    BY <2>2, <1>1
  <2>3. CASE q[1].conn \notin H
    <3>1. PICK j \in 1 .. Len(q) : j > 1 /\ q[j] \in Ends(ch)
      BY <2>1, <2>3, <1>1 DEF Settled, Ended
    <3>2. j - 1 \in 1 .. Len(t) /\ t[j - 1] = q[j]
      BY <3>1, <1>1, <1>3
    <3> QED BY <3>1, <3>2 DEF None
  <2> QED BY <2>2, <2>3
<1>6. Head(q) \notin Ends(ch) => Settled(t, op, ch, H)
  BY <1>2, <1>4 DEF Settled
<1>7. Head(q) \in Connects(ch) => Settled(t, Head(q).conn, ch, H)
  BY <1>4, <1>5 DEF Settled
<1>8. Settled(t, 0, ch, H)
  BY <1>4 DEF Settled
<1> QED BY <1>6, <1>7, <1>8 DEF t

(* A client that the emulator does not serve and will not serve may leave. *)
LEMMA SettledLess ==
  ASSUME NEW q, NEW op, NEW ch, NEW H, NEW H2, NEW k, Settled(q, op, ch, H), None(q, DownOn(ch)), op # k,
         H \ {k} \subseteq H2
  PROVE  Settled(q, op, ch, H2)
<1>1. \A i \in 1 .. Len(q) : q[i] \notin Connects(ch) /\ q[i] \notin Ends(ch)
  BY DEF None, DownOn, Connects, Ends
<1> QED BY <1>1 DEF Settled, Ended, None

(* A channel with more holders, or that is served to no one, is settled    *)
(* too.                                                                    *)
LEMMA SettledMore ==
  ASSUME NEW q, NEW op, NEW ch, NEW H, NEW H2, Settled(q, op, ch, H), H \subseteq H2
  PROVE  Settled(q, op, ch, H2) /\ Settled(q, 0, ch, H2)
BY DEF Settled, Ended

----------------------------------------------------------------------------
(* qemud: the agreement about the channels. *)

(* multiplexer_find_client finds the holders of the channel. *)
LEMMA HoldIs == \A s, ch, k : k \in multiplexer_find_client(s, ch) <=> k \in Connections /\ Hold(s, k, ch)
BY DEF multiplexer_find_client, LiveClients, Hold

(* A channel other than 0 is a positive channel number. *)
LEMMA ChannelIs ==
  ASSUME NEW ch \in 1 .. (Channels - 1)
  PROVE  ch \in 0 .. (Channels - 1) /\ ch # 0 /\ ch # -1 /\ ch > 0 /\ ch \in Nat
BY QemudAssumption

(* A step that keeps a client's state and object keeps the agreement about *)
(* it.                                                                     *)
LEMMA PairKeeps ==
  ASSUME NEW s, NEW t, NEW dn, NEW up, NEW op, NEW dn2, NEW up2, NEW op2, NEW ch, NEW k,
         Pair(s, dn, up, op, ch, k), Keeps(dn, up, op, dn2, up2, op2, ch, k),
         t.c[k] = s.c[k], t.h[k].st = "none" => s.h[k].st = "none"
  PROVE  Pair(t, dn2, up2, op2, ch, k)
BY DEF Pair, Keeps, Hold, Aware

(* Doing nothing keeps everything. *)
LEMMA KeepsSame == \A dn, up, op, ch, k : Keeps(dn, up, op, dn, up, op, ch, k)
BY DEF Keeps

(* Of a client that is gone nothing is said. *)
LEMMA PairGone ==
  ASSUME NEW t, NEW dn, NEW up, NEW op, NEW ch, NEW k, t.c[k] = NoClient, t.h[k].st # "none"
  PROVE  Pair(t, dn, up, op, ch, k)
<1>1. ~t.c[k].live
  BY DEF NoClient
<1> QED BY <1>1 DEF Pair, Hold, Aware

(* Only client k changed, to r. *)
OnlyClient(s, t, k, r) == t.c[k] = r /\ \A j \in Connections \ {k} : t.c[j] = s.c[j]

(* Freeing a client changes no other client. *)
LEMMA GoneFields ==
  ASSUME NEW s \in Memory, NEW t, NEW k \in Connections, NEW r, t.c = [s.c EXCEPT ![k] = r]
  PROVE  OnlyClient(s, t, k, r)
BY DEF Memory, OnlyClient

(* A client that is gone: nothing is said of it any more. *)
LEMMA GoneLinked ==
  ASSUME NEW s \in Memory, NEW t, NEW k \in Connections, NEW dn, NEW up, NEW open,
         Linked(s, dn, up, open), t.c = [s.c EXCEPT ![k] = NoClient], t.h[k].st # "none",
         \A j \in Connections \ {k} : t.h[j].st = "none" => s.h[j].st = "none"
  PROVE  Linked(t, dn, up, open)
<1>0. OnlyClient(s, t, k, NoClient)
  BY GoneFields, Zenon
<1>1. t.c[k] = NoClient /\ \A j \in Connections \ {k} : t.c[j] = s.c[j]
  BY <1>0 DEF OnlyClient
<1> SUFFICES ASSUME NEW ch \in 1 .. (Channels - 1), NEW j \in Connections
             PROVE  Pair(t, dn, up, open[ch], ch, j)
  BY DEF Linked
<1>2. CASE j = k
  BY <1>1, <1>2, PairGone
<1>3. CASE j # k
  <2>1. Pair(s, dn, up, open[ch], ch, j)
    BY DEF Linked
  <2>2. t.c[j] = s.c[j] /\ (t.h[j].st = "none" => s.h[j].st = "none")
    BY <1>1, <1>3
  <2> QED BY <2>1, <2>2, KeepsSame, PairKeeps
<1> QED BY <1>2, <1>3

(* The agreement reads the Client objects and which handlers exist. *)
LEMMA SameLinked ==
  ASSUME NEW s, NEW t, NEW dn, NEW up, NEW open, t.c = s.c,
         \A j \in Connections : t.h[j].st = "none" => s.h[j].st = "none"
  PROVE  /\ Linked(s, dn, up, open) => Linked(t, dn, up, open)
         /\ AllSettled(s, dn, open) => AllSettled(t, dn, open)
         /\ Apart(s) => Apart(t)
<1>1. ASSUME Linked(s, dn, up, open) PROVE Linked(t, dn, up, open)
  <2> SUFFICES ASSUME NEW ch \in 1 .. (Channels - 1), NEW j \in Connections
               PROVE  Pair(t, dn, up, open[ch], ch, j)
    BY DEF Linked
  <2>1. Pair(s, dn, up, open[ch], ch, j)
    BY <1>1 DEF Linked
  <2> QED BY <2>1, KeepsSame, PairKeeps
<1>2. \A ch : multiplexer_find_client(t, ch) = multiplexer_find_client(s, ch)
  BY DEF multiplexer_find_client, LiveClients
<1>3. AllSettled(s, dn, open) => AllSettled(t, dn, open)
  BY <1>2 DEF AllSettled
<1>4. Apart(s) => Apart(t)
  BY DEF Apart
<1> QED BY <1>1, <1>3, <1>4

(* A client that goes leaves the others apart. *)
LEMMA GoneApart ==
  ASSUME NEW s \in Memory, NEW t, NEW k \in Connections, t.c = [s.c EXCEPT ![k] = NoClient], Apart(s)
  PROVE  Apart(t)
<1>0. OnlyClient(s, t, k, NoClient)
  BY GoneFields, Zenon
<1>1. t.c[k] = NoClient /\ \A j \in Connections \ {k} : t.c[j] = s.c[j]
  BY <1>0 DEF OnlyClient
<1>2. ~NoClient.live
  BY DEF NoClient
<1> QED BY <1>1, <1>2 DEF Apart

(* Sending a frame that says nothing of a channel. *)
LEMMA SilentLinked ==
  ASSUME NEW s, NEW t, NEW dn \in Seq(Frames), NEW up, NEW open, NEW f \in Frames, t.c = s.c, t.h = s.h,
         f.op = "data"
  PROVE  /\ Linked(s, dn, up, open) => Linked(t, Append(dn, f), up, open)
         /\ AllSettled(s, dn, open) => AllSettled(t, Append(dn, f), open)
<1>1. ASSUME Linked(s, dn, up, open) PROVE Linked(t, Append(dn, f), up, open)
  <2> SUFFICES ASSUME NEW ch \in 1 .. (Channels - 1), NEW j \in Connections
               PROVE  Pair(t, Append(dn, f), up, open[ch], ch, j)
    BY DEF Linked
  <2>1. Pair(s, dn, up, open[ch], ch, j)
    BY <1>1 DEF Linked
  <2>2. f \notin DownOn(ch)
    BY DEF DownOn
  <2>3. Keeps(dn, up, open[ch], Append(dn, f), up, open[ch], ch, j)
    BY <2>2, ChannelIs, DownSilent
  <2> QED BY <2>1, <2>3, PairKeeps
<1>2. ASSUME AllSettled(s, dn, open) PROVE AllSettled(t, Append(dn, f), open)
  <2> SUFFICES ASSUME NEW ch \in 1 .. (Channels - 1)
               PROVE  Settled(Append(dn, f), open[ch], ch, multiplexer_find_client(t, ch))
    BY DEF AllSettled
  <2>1. multiplexer_find_client(t, ch) = multiplexer_find_client(s, ch)
    BY DEF multiplexer_find_client, LiveClients
  <2>2. Settled(dn, open[ch], ch, multiplexer_find_client(t, ch))
    BY <1>2, <2>1 DEF AllSettled
  <2>3. f \notin Connects(ch)
    BY DEF Connects
  <2> QED BY <2>2, <2>3, SettledAppend
<1> QED BY <1>1, <1>2

(* A client that opens a channel no one has, and asks the emulator for it, *)
(* keeps the agreement.                                                    *)
LEMMA OpensLinked ==
  ASSUME NEW s \in Memory, NEW t, NEW k \in Connections, NEW new \in 0 .. (Channels - 1),
         Opens(s, t, k, new), s.c[k].live, NEW dn \in Seq(Frames), NEW up, NEW open
  PROVE  /\ Linked(s, dn, up, open) => Linked(t, Append(dn, Frame("connect", new, k)), up, open)
         /\ AllSettled(s, dn, open) => AllSettled(t, Append(dn, Frame("connect", new, k)), open)
         /\ Apart(s) => Apart(t)
<1> DEFINE f == Frame("connect", new, k)
           dn2 == Append(dn, f)
           r == [s.c[k] EXCEPT !.channel = new]
<1>1. f \in Frames /\ f.conn = k /\ f.ch = new /\ f.op = "connect"
  <2>1. f \in Frames
    BY FrameType DEF Ops
  <2> QED BY <2>1 DEF Frame
<1>2. s.c[k] \in ClientObjects
  BY DEF Memory
<1>3. r.live = s.c[k].live /\ r.channel = new /\ r.registered = s.c[k].registered
  BY <1>2 DEF ClientObjects
<1>4. t.c[k] = r /\ \A j \in Connections \ {k} : t.c[j] = s.c[j]
  <2>1. t.c = [s.c EXCEPT ![k] = r]
    BY DEF Opens
  <2> HIDE DEF r
  <2>2. OnlyClient(s, t, k, r)
    BY <2>1, GoneFields, Zenon
  <2> QED BY <2>2 DEF OnlyClient
<1>5. /\ t.h = s.h /\ ~s.c[k].registered /\ s.c[k].channel <= 0
      /\ \A j \in Connections : ~Hold(s, j, new)
  BY HoldIs DEF Opens
<1> HIDE DEF f, r
<1>6. \A ch \in 1 .. (Channels - 1) : ~Hold(s, k, ch)
  <2> TAKE ch \in 1 .. (Channels - 1)
  <2>1. s.c[k].channel # ch
    BY <1>5, ChannelIs
  <2> QED BY <2>1 DEF Hold
<1>7. ASSUME Linked(s, dn, up, open) PROVE Linked(t, dn2, up, open)
  <2> SUFFICES ASSUME NEW ch \in 1 .. (Channels - 1), NEW j \in Connections
               PROVE  Pair(t, dn2, up, open[ch], ch, j)
    BY DEF Linked
  <2>0. ch \in 0 .. (Channels - 1)
    BY ChannelIs
  <2>1. Pair(s, dn, up, open[ch], ch, j)
    BY <1>7 DEF Linked
  <2>2. ASSUME ch # new PROVE Keeps(dn, up, open[ch], dn2, up, open[ch], ch, j)
    <3>1. f \notin DownOn(ch)
      BY <1>1, <2>2 DEF DownOn
    <3> QED BY <3>1, <2>0, <1>1, DownSilent
  <2>3. CASE j # k /\ ch # new
    <3>1. t.c[j] = s.c[j] /\ (t.h[j].st = "none" => s.h[j].st = "none")
      BY <2>3, <1>4, <1>5
    <3> QED BY <3>1, <2>1, <2>2, <2>3, PairKeeps
  <2>4. CASE j # k /\ ch = new
    <3>1. t.c[j] = s.c[j] /\ t.h[j] = s.h[j] /\ ~Hold(s, j, ch)
      BY <2>4, <1>4, <1>5
    <3>2. Aware(s, j) => Fresh(dn2, up, open[ch], ch, j)
      <4>1. ASSUME Aware(s, j) PROVE Fresh(dn, up, open[ch], ch, j)
        BY <4>1, <3>1, <2>1 DEF Pair
      <4>2. f.conn # j
        BY <1>1, <2>4
      <4> QED BY <4>1, <4>2, <1>1, DownOther
    <3> QED BY <3>1, <3>2 DEF Pair, Hold, Aware
  <2>5. CASE j = k
    <3>1. ~Hold(s, k, ch) /\ Fresh(dn, up, open[ch], ch, k)
      BY <2>1, <2>5, <1>6 DEF Pair, Aware
    <3>2. CASE ch = new
      <4>1. Waiting(dn2, up, open[ch], ch, k)
        BY <3>1, <3>2, <2>0, OpensFresh DEF f
      <4>2. Hold(t, k, ch) /\ ~t.c[k].registered
        BY <3>2, <1>3, <1>4, <1>5 DEF Hold
      <4> QED BY <2>5, <4>1, <4>2 DEF Pair
    <3>3. CASE ch # new
      <4>1. Fresh(dn2, up, open[ch], ch, k)
        BY <3>1, <3>3, <2>2, <2>5 DEF Keeps
      <4>2. ~Hold(t, k, ch)
        BY <3>3, <1>3, <1>4 DEF Hold
      <4> QED BY <2>5, <4>1, <4>2 DEF Pair
    <3> QED BY <3>2, <3>3
  <2> QED BY <2>3, <2>4, <2>5
<1>8. ASSUME AllSettled(s, dn, open) PROVE AllSettled(t, dn2, open)
  <2> SUFFICES ASSUME NEW ch \in 1 .. (Channels - 1)
               PROVE  Settled(dn2, open[ch], ch, multiplexer_find_client(t, ch))
    BY DEF AllSettled
  <2> DEFINE H == multiplexer_find_client(s, ch)
             H2 == multiplexer_find_client(t, ch)
  <2>1. H \subseteq H2
    <3>1. ASSUME NEW j \in H PROVE j \in H2
      <4>1. j \in Connections /\ Hold(s, j, ch) /\ j # k
        BY <3>1, <1>6, HoldIs
      <4>2. Hold(t, j, ch)
        BY <4>1, <1>4 DEF Hold
      <4> QED BY <4>1, <4>2, HoldIs
    <3> QED BY <3>1
  <2>2. f \in Connects(ch) => f.conn \in H2
    <3>1. ASSUME f \in Connects(ch) PROVE Hold(t, k, ch)
      BY <3>1, <1>1, <1>3, <1>4 DEF Connects, Hold
    <3> QED BY <3>1, <1>1, HoldIs
  <2>3. Settled(dn, open[ch], ch, H)
    BY <1>8 DEF AllSettled
  <2> HIDE DEF H, H2
  <2>4. Settled(dn, open[ch], ch, H2)
    BY <2>1, <2>3, SettledMore
  <2>5. Settled(dn2, open[ch], ch, H2)
    BY <2>2, <2>4, <1>1, SettledAppend
  <2> QED BY <2>5 DEF H2
<1>9. ASSUME Apart(s) PROVE Apart(t)
  <2> SUFFICES ASSUME NEW i \in Connections, NEW j \in Connections, t.c[i].live, t.c[j].live,
                      t.c[i].channel = t.c[j].channel, t.c[i].channel # -1, i # j
               PROVE  FALSE
    BY DEF Apart
  <2>1. CASE i # k /\ j # k
    BY <2>1, <1>4, <1>9 DEF Apart
  <2>2. CASE i = k
    BY <2>2, <1>3, <1>4, <1>5 DEF Hold
  <2>3. CASE j = k
    BY <2>3, <1>3, <1>4, <1>5 DEF Hold
  <2> QED BY <2>1, <2>2, <2>3
<1> QED BY <1>7, <1>8, <1>9 DEF f

(* The holders of a channel the freed client does not hold stay. *)
LEMMA HoldersStay ==
  ASSUME NEW s, NEW t, NEW k \in Connections, NEW ch, OnlyClient(s, t, k, NoClient)
  PROVE  /\ multiplexer_find_client(t, ch) = multiplexer_find_client(s, ch) \ {k}
         /\ ~Hold(s, k, ch) => multiplexer_find_client(t, ch) = multiplexer_find_client(s, ch)
<1>0. ~NoClient.live
  BY DEF NoClient
<1>1. ~Hold(t, k, ch)
  BY <1>0 DEF Hold, OnlyClient
<1>2. \A j \in Connections \ {k} : Hold(t, j, ch) <=> Hold(s, j, ch)
  BY DEF Hold, OnlyClient
<1>3. \A j : j \in multiplexer_find_client(t, ch) <=> j \in multiplexer_find_client(s, ch) /\ j # k
  BY <1>1, <1>2, HoldIs
<1>4. k \in multiplexer_find_client(s, ch) => Hold(s, k, ch)
  BY HoldIs
<1> QED BY <1>3, <1>4

(* A client that had no channel of its own leaves. *)
LEMMA QuietSettled ==
  ASSUME NEW s \in Memory, NEW t, NEW k \in Connections, NEW dn, NEW open,
         t.c = [s.c EXCEPT ![k] = NoClient], ~(s.c[k].live /\ s.c[k].channel > 0),
         AllSettled(s, dn, open)
  PROVE  AllSettled(t, dn, open)
<1>0. OnlyClient(s, t, k, NoClient)
  BY GoneFields, Zenon
<1> SUFFICES ASSUME NEW ch \in 1 .. (Channels - 1)
             PROVE  Settled(dn, open[ch], ch, multiplexer_find_client(t, ch))
  BY DEF AllSettled
<1>1. ~Hold(s, k, ch)
  BY ChannelIs DEF Hold
<1>2. multiplexer_find_client(t, ch) = multiplexer_find_client(s, ch)
  BY <1>0, <1>1, HoldersStay
<1> QED BY <1>2 DEF AllSettled

(* A client that had one leaves, and the emulator is told. *)
LEMMA ByeLinked ==
  ASSUME NEW s \in Memory, NEW t, NEW k \in Connections, NEW dn \in Seq(Frames), NEW up, NEW open, NEW c0,
         t.c = [s.c EXCEPT ![k] = NoClient], t.h[k].st # "none",
         \A j \in Connections \ {k} : t.h[j].st = "none" => s.h[j].st = "none",
         s.c[k].live, s.c[k].channel = c0, c0 > 0, Apart(s)
  PROVE  /\ Linked(s, dn, up, open) => Linked(t, Append(dn, Frame("disconnect", c0, k)), up, open)
         /\ AllSettled(s, dn, open) => AllSettled(t, Append(dn, Frame("disconnect", c0, k)), open)
<1> DEFINE f == Frame("disconnect", c0, k)
           dn2 == Append(dn, f)
<1>0. OnlyClient(s, t, k, NoClient)
  BY GoneFields, Zenon
<1>1. t.c[k] = NoClient /\ \A j \in Connections \ {k} : t.c[j] = s.c[j]
  BY <1>0 DEF OnlyClient
<1>2. c0 \in 0 .. (Channels - 1) /\ c0 # -1
  <2>1. s.c[k] \in ClientObjects
    BY DEF Memory
  <2>2. c0 \in -1 .. (Channels - 1)
    BY <2>1 DEF ClientObjects
  <2> QED BY <2>2, QemudAssumption
<1>3. f \in Frames /\ f.conn = k /\ f.ch = c0 /\ f.op = "disconnect"
  <2>1. f \in Frames
    BY <1>2, FrameType DEF Ops
  <2> QED BY <2>1 DEF Frame
<1>4. \A j \in Connections \ {k} : ~Hold(s, j, c0)
  BY <1>2 DEF Apart, Hold
<1> HIDE DEF f
<1>5. ASSUME Linked(s, dn, up, open) PROVE Linked(t, dn2, up, open)
  <2> SUFFICES ASSUME NEW ch \in 1 .. (Channels - 1), NEW j \in Connections
               PROVE  Pair(t, dn2, up, open[ch], ch, j)
    BY DEF Linked
  <2>0. ch \in 0 .. (Channels - 1)
    BY ChannelIs
  <2>1. Pair(s, dn, up, open[ch], ch, j)
    BY <1>5 DEF Linked
  <2>2. CASE j = k
    BY <2>2, <1>1, PairGone
  <2>3. CASE j # k /\ ch # c0
    <3>1. f \notin DownOn(ch)
      BY <1>3, <2>3 DEF DownOn
    <3>2. Keeps(dn, up, open[ch], dn2, up, open[ch], ch, j)
      BY <3>1, <2>0, <1>3, DownSilent
    <3>3. t.c[j] = s.c[j] /\ (t.h[j].st = "none" => s.h[j].st = "none")
      BY <2>3, <1>1
    <3> QED BY <2>1, <3>2, <3>3, PairKeeps
  <2>4. CASE j # k /\ ch = c0
    <3>1. t.c[j] = s.c[j] /\ (t.h[j].st = "none" => s.h[j].st = "none") /\ ~Hold(s, j, ch)
      BY <2>4, <1>1, <1>4
    <3>2. Aware(s, j) => Fresh(dn2, up, open[ch], ch, j)
      <4>1. ASSUME Aware(s, j) PROVE Fresh(dn, up, open[ch], ch, j)
        BY <4>1, <3>1, <2>1 DEF Pair
      <4>2. f.conn # j
        BY <1>3, <2>4
      <4> QED BY <4>1, <4>2, <1>3, DownOther
    <3> QED BY <3>1, <3>2 DEF Pair, Hold, Aware
  <2> QED BY <2>2, <2>3, <2>4
<1>6. ASSUME AllSettled(s, dn, open) PROVE AllSettled(t, dn2, open)
  <2> SUFFICES ASSUME NEW ch \in 1 .. (Channels - 1)
               PROVE  Settled(dn2, open[ch], ch, multiplexer_find_client(t, ch))
    BY DEF AllSettled
  <2>1. CASE ch = c0
    <3>1. f \in Ends(ch)
      BY <2>1, <1>3 DEF Ends
    <3> QED BY <3>1, SettledEnd
  <2>2. CASE ch # c0
    <3>1. ~Hold(s, k, ch)
      BY <2>2 DEF Hold
    <3>2. multiplexer_find_client(t, ch) = multiplexer_find_client(s, ch)
      BY <1>0, <3>1, HoldersStay
    <3>3. Settled(dn, open[ch], ch, multiplexer_find_client(t, ch))
      BY <1>6, <3>2 DEF AllSettled
    <3>4. f \notin Connects(ch)
      BY <1>3 DEF Connects
    <3> QED BY <3>3, <3>4, <1>3, SettledAppend
  <2> QED BY <2>1, <2>2
<1> QED BY <1>5, <1>6 DEF f

(* fdhandler_close keeps the agreement: it tells the emulator of a channel *)
(* above 0.                                                                *)
LEMMA HungUpAgreed ==
  ASSUME NEW s \in Memory, NEW t, NEW k \in Connections, HungUp(s, t, k), Apart(s),
         NEW q \in Seq(Frames), NEW up, NEW open, NEW rd, Agreed(s, q, up, open, rd)
  PROVE  Agreed(t, q, up, open, rd) /\ Apart(t)
<1>0. s.serialOut \in Seq(Frames)
  BY DEF Memory
<1> DEFINE dn == q \o s.serialOut
<1>1. dn \in Seq(Frames)
  BY <1>0, ConcatProperties
<1>2. /\ t.c = [s.c EXCEPT ![k] = NoClient] /\ t.h[k].st # "none"
      /\ \A j \in Connections \ {k} : t.h[j].st = "none" => s.h[j].st = "none"
      /\ t.serialOut = Goodbye(s, k)
  BY DEF HungUp, HandlerGone
<1>3. Apart(t)
  BY <1>2, GoneApart, Zenon
<1>4. Linked(s, dn, up, open) /\ (rd \/ AllSettled(s, dn, open))
  BY DEF Agreed
<1>5. CASE s.c[k].live /\ s.c[k].channel > 0
  <2> DEFINE f == Frame("disconnect", s.c[k].channel, k)
  <2>1. t.serialOut = Append(s.serialOut, f)
    BY <1>2, <1>5 DEF Goodbye
  <2>2. f \in Frames
    <3>1. s.c[k] \in ClientObjects
      BY DEF Memory
    <3>2. s.c[k].channel \in 0 .. (Channels - 1)
      BY <3>1, <1>5, QemudAssumption DEF ClientObjects
    <3> QED BY <3>2, FrameType DEF Ops
  <2>3. q \o t.serialOut = Append(dn, f)
    <3> HIDE DEF f
    <3> QED BY <2>1, <2>2, <1>0, ConcatAppend, SMTT(30)
  <2> HIDE DEF dn
  <2>4. /\ Linked(s, dn, up, open) => Linked(t, Append(dn, f), up, open)
        /\ AllSettled(s, dn, open) => AllSettled(t, Append(dn, f), open)
    BY <1>1, <1>2, <1>5, ByeLinked
  <2> QED BY <1>3, <1>4, <2>3, <2>4 DEF Agreed
<1>6. CASE ~(s.c[k].live /\ s.c[k].channel > 0)
  <2>1. t.serialOut = s.serialOut
    BY <1>2, <1>6 DEF Goodbye
  <2> HIDE DEF dn
  <2>2. Linked(t, dn, up, open)
    BY <1>2, <1>4, GoneLinked, Zenon
  <2>3. AllSettled(s, dn, open) => AllSettled(t, dn, open)
    BY <1>2, <1>6, QuietSettled
  <2> QED BY <1>3, <1>4, <2>1, <2>2, <2>3 DEF Agreed, dn
<1> QED BY <1>5, <1>6

(* A step that changes no client and sends nothing keeps the agreement. *)
LEMMA SameAgreed ==
  ASSUME NEW s, NEW t, t.c = s.c, t.serialOut = s.serialOut,
         \A j \in Connections : t.h[j].st = "none" => s.h[j].st = "none",
         NEW q, NEW up, NEW open, NEW rd
  PROVE  /\ Agreed(s, q, up, open, rd) => Agreed(t, q, up, open, rd)
         /\ Apart(s) => Apart(t)
<1> DEFINE dn == q \o s.serialOut
<1> HIDE DEF dn
<1>1. /\ Linked(s, dn, up, open) => Linked(t, dn, up, open)
      /\ AllSettled(s, dn, open) => AllSettled(t, dn, open)
      /\ Apart(s) => Apart(t)
  BY SameLinked
<1>2. dn = q \o s.serialOut /\ dn = q \o t.serialOut
  BY DEF dn
<1> QED BY <1>1, <1>2 DEF Agreed

(* A frame that is sent comes last of all frames on the way to the         *)
(* emulator.                                                               *)
LEMMA SentFrame ==
  ASSUME NEW s \in Memory, NEW t, NEW q \in Seq(Frames), NEW f \in Frames, t.serialOut = Append(s.serialOut, f)
  PROVE  q \o s.serialOut \in Seq(Frames) /\ q \o t.serialOut = Append(q \o s.serialOut, f)
<1>0. s.serialOut \in Seq(Frames)
  BY DEF Memory
<1>1. q \o s.serialOut \in Seq(Frames)
  BY <1>0, ConcatProperties
<1> QED BY <1>0, <1>1, ConcatAppend

(* The read keeps the agreement, unless it throws the client out untold. *)
ReadAgrees(s, u, k, q, up, open, rd) ==
  /\ Apart(u)
  /\ u.status = "running" /\ Agreed(s, q, up, open, rd) => Agreed(u, q, up, open, rd \/ ~u.c[k].live)

(* client_fd_receive keeps the agreement, but for a client that is thrown  *)
(* out.                                                                    *)
LEMMA ReceivedAgreed ==
  ASSUME NEW s \in Memory, ClientsLive(s), NEW k \in Connections, s.c[k].live, NEW u, Received(s, u, k),
         Apart(s), NEW q \in Seq(Frames), NEW up, NEW open, NEW rd
  PROVE  ReadAgrees(s, u, k, q, up, open, rd)
<1> DEFINE dn == q \o s.serialOut
<1>0. s.c[k] \in ClientObjects
  BY DEF Memory
<1>1. CASE u.c = s.c /\ u.h = s.h /\ u.status = "looping"
  <2>1. Apart(u)
    BY <1>1, SameLinked
  <2> QED BY <2>1, <1>1 DEF ReadAgrees
<1>2. CASE DataSent(s, u, k)
  <2> DEFINE f == Frame("data", s.c[k].channel, k)
  <2>1. s.c[k].channel \in 0 .. (Channels - 1)
    <3>1. s.c[k].channel # -1
      BY <1>2 DEF DataSent, ClientsLive
    <3> QED BY <3>1, <1>0, QemudAssumption DEF ClientObjects
  <2>2. f \in Frames /\ f.op = "data"
    <3>1. f \in Frames
      BY <2>1, FrameType DEF Ops
    <3> QED BY <3>1 DEF Frame
  <2>3. u.c = s.c /\ u.h = s.h /\ u.serialOut = Append(s.serialOut, f)
    BY <1>2 DEF DataSent
  <2> HIDE DEF f
  <2>4. dn \in Seq(Frames) /\ q \o u.serialOut = Append(dn, f)
    BY <2>2, <2>3, SentFrame
  <2> HIDE DEF dn
  <2>5. /\ Linked(s, dn, up, open) => Linked(u, Append(dn, f), up, open)
        /\ AllSettled(s, dn, open) => AllSettled(u, Append(dn, f), open)
    BY <2>2, <2>3, <2>4, SilentLinked
  <2>6. Apart(u)
    BY <2>3, SameLinked
  <2> QED BY <2>4, <2>5, <2>6 DEF Agreed, dn, ReadAgrees
<1>3. ASSUME NEW ch \in 0 .. (Channels - 1), Opens(s, u, k, ch)
      PROVE  /\ Apart(u)
             /\ Agreed(s, q, up, open, rd) => Agreed(u, q, up, open, rd)
  <2> DEFINE f == Frame("connect", ch, k)
  <2>1. f \in Frames
    BY FrameType DEF Ops
  <2>2. u.serialOut = Append(s.serialOut, f)
    BY <1>3 DEF Opens
  <2>3. dn \in Seq(Frames) /\ q \o u.serialOut = Append(dn, f)
    <3> HIDE DEF f
    <3> QED BY <2>1, <2>2, SentFrame
  <2> HIDE DEF dn
  <2>4. /\ Linked(s, dn, up, open) => Linked(u, Append(dn, f), up, open)
        /\ AllSettled(s, dn, open) => AllSettled(u, Append(dn, f), open)
        /\ Apart(s) => Apart(u)
    BY <1>3, <2>3, OpensLinked
  <2> QED BY <2>3, <2>4 DEF Agreed, dn
<1>4. CASE ThrownOut(s, u, k)
  <2>1. /\ u.c = [s.c EXCEPT ![k] = NoClient] /\ u.h[k].st # "none" /\ u.serialOut = s.serialOut
        /\ \A j \in Connections \ {k} : u.h[j].st = "none" => s.h[j].st = "none"
    BY <1>4 DEF ThrownOut, Received
  <2>2. ~u.c[k].live
    <3>1. OnlyClient(s, u, k, NoClient)
      BY <2>1, GoneFields, Zenon
    <3> QED BY <3>1 DEF OnlyClient, NoClient
  <2>3. Apart(u)
    BY <2>1, GoneApart, Zenon
  <2> HIDE DEF dn
  <2>4. Linked(s, dn, up, open) => Linked(u, dn, up, open)
    BY <2>1, GoneLinked
  <2> QED BY <2>1, <2>2, <2>3, <2>4 DEF Agreed, dn, ReadAgrees
<1>5. Agreed(u, q, up, open, rd) => Agreed(u, q, up, open, rd \/ ~u.c[k].live)
  BY DEF Agreed
<1> HIDE DEF dn
<1> QED BY <1>1, <1>2, <1>3, <1>4, <1>5 DEF Received, ReadAgrees

(* The rest of the callback keeps the agreement. *)
LEMMA RestAgreed ==
  ASSUME NEW s \in Memory, NEW k \in Connections, NEW t, Finished(s, t, k),
         Apart(s), NEW q \in Seq(Frames), NEW up, NEW open, NEW rd
  PROVE  /\ Apart(t)
         /\ t.status = "running" /\ Agreed(s, q, up, open, rd) => Agreed(t, q, up, open, rd)
<1>1. CASE t.status # "running"
  <2>1. t.c = s.c
    BY <1>1 DEF Finished
  <2> QED BY <1>1, <2>1 DEF Apart
<1>2. CASE t.status = "running" /\ HungUp(s, t, k)
  <2>1. Apart(t)
    BY <1>2, GoneApart DEF HungUp
  <2>2. Agreed(s, q, up, open, rd) => Agreed(t, q, up, open, rd)
    BY <1>2, HungUpAgreed
  <2> QED BY <2>1, <2>2
<1>3. CASE t.status = "running" /\ ~HungUp(s, t, k)
  <2>1. t.c = s.c /\ t.serialOut = s.serialOut /\ \A j \in Connections : t.h[j].st = "none" => s.h[j].st = "none"
    BY <1>3 DEF Finished, Rest, SameStates
  <2> QED BY <2>1, SameAgreed
<1> QED BY <1>1, <1>2, <1>3

(* The whole callback does. *)
EventAgrees(s, u, t, k, q, up, open, rd) ==
  /\ Apart(t)
  /\ t.status = "running" /\ Agreed(s, q, up, open, rd)
       => Agreed(t, q, up, open, rd \/ (s.c[k].live /\ ~u.c[k].live))

(* The whole callback keeps it. *)
LEMMA EventAgreed ==
  ASSUME NEW s \in Memory, ClientsLive(s), s.status = "running", NEW k \in Connections, NEW u, NEW t,
         EventRan(s, u, t, k), Apart(s), NEW q \in Seq(Frames), NEW up, NEW open, NEW rd
  PROVE  EventAgrees(s, u, t, k, q, up, open, rd)
<1> DEFINE rd2 == rd \/ (s.c[k].live /\ ~u.c[k].live)
<1>1. /\ Apart(u) /\ u \in Memory
      /\ u.status = "running" /\ Agreed(s, q, up, open, rd) => Agreed(u, q, up, open, rd2)
  <2>1. CASE u = s
    BY <2>1 DEF Agreed
  <2>2. CASE s.c[k].live /\ Received(s, u, k)
    <3>0. ReadAgrees(s, u, k, q, up, open, rd)
      BY <2>2, ReceivedAgreed, Zenon
    <3>1. /\ Apart(u)
          /\ u.status = "running" /\ Agreed(s, q, up, open, rd) => Agreed(u, q, up, open, rd \/ ~u.c[k].live)
      BY <3>0 DEF ReadAgrees
    <3>2. Agreed(u, q, up, open, rd \/ ~u.c[k].live) => Agreed(u, q, up, open, rd2)
      BY <2>2 DEF Agreed
    <3>3. u \in Memory
      BY <2>2 DEF Received
    <3> QED BY <3>1, <3>2, <3>3
  <2> QED BY <2>1, <2>2 DEF EventRan
<1> HIDE DEF rd2
<1>2. CASE u.status # "running"
  BY <1>1, <1>2 DEF EventRan, EventAgrees, rd2
<1>3. CASE u.status = "running"
  <2>1. Finished(u, t, k)
    BY <1>3 DEF EventRan
  <2>2. /\ Apart(t)
        /\ t.status = "running" /\ Agreed(u, q, up, open, rd2) => Agreed(t, q, up, open, rd2)
    BY <1>1, <2>1, RestAgreed
  <2> QED BY <1>1, <1>3, <2>2 DEF rd2, EventAgrees
<1> QED BY <1>2, <1>3

(* A new client is fresh on every channel, so accepting it keeps the       *)
(* agreement.                                                              *)
LEMMA AcceptAgreed ==
  ASSUME NEW s \in Memory, ClientsLive(s), NEW k \in Connections, s.h[k].st = "none", NEW t, Accepted(s, t, k),
         Apart(s), NEW q, NEW up, NEW open, NEW rd
  PROVE  /\ Apart(t)
         /\ Agreed(s, q, up, open, rd) => Agreed(t, q, up, open, rd)
<1>0. OnlyClient(s, t, k, NewClient)
  <2>1. t.c = [s.c EXCEPT ![k] = NewClient]
    BY DEF Accepted
  <2> QED BY <2>1, GoneFields, Zenon
<1>1. t.c[k] = NewClient /\ \A j \in Connections \ {k} : t.c[j] = s.c[j] /\ t.h[j] = s.h[j]
  BY <1>0 DEF OnlyClient, Accepted
<1>2. NewClient.live /\ NewClient.channel = -1
  BY DEF NewClient
<1>3. ~s.c[k].live
  BY DEF ClientsLive
<1>4. Apart(t)
  BY <1>1, <1>2 DEF Apart
<1> DEFINE dn == q \o s.serialOut
<1>5. q \o t.serialOut = dn
  BY DEF Accepted
<1> HIDE DEF dn
<1>6. ASSUME NEW ch \in 1 .. (Channels - 1) PROVE ~Hold(s, k, ch) /\ ~Hold(t, k, ch)
  BY <1>1, <1>2, <1>3, ChannelIs DEF Hold
<1>7. ASSUME Linked(s, dn, up, open) PROVE Linked(t, dn, up, open)
  <2> SUFFICES ASSUME NEW ch \in 1 .. (Channels - 1), NEW j \in Connections
               PROVE  Pair(t, dn, up, open[ch], ch, j)
    BY DEF Linked
  <2>1. Pair(s, dn, up, open[ch], ch, j)
    BY <1>7 DEF Linked
  <2>2. CASE j # k
    BY <2>1, <2>2, <1>1, KeepsSame, PairKeeps
  <2>3. CASE j = k
    <3>1. Fresh(dn, up, open[ch], ch, k)
      BY <2>1, <2>3, <1>6 DEF Pair, Aware
    <3> QED BY <3>1, <2>3, <1>6 DEF Pair
  <2> QED BY <2>2, <2>3
<1>8. ASSUME AllSettled(s, dn, open) PROVE AllSettled(t, dn, open)
  <2> SUFFICES ASSUME NEW ch \in 1 .. (Channels - 1)
               PROVE  Settled(dn, open[ch], ch, multiplexer_find_client(t, ch))
    BY DEF AllSettled
  <2>1. \A j \in Connections : Hold(t, j, ch) <=> Hold(s, j, ch)
    BY <1>1, <1>6 DEF Hold
  <2>2. multiplexer_find_client(t, ch) = multiplexer_find_client(s, ch)
    BY <2>1, HoldIs
  <2> QED BY <2>2, <1>8 DEF AllSettled
<1> QED BY <1>4, <1>5, <1>7, <1>8 DEF Agreed, dn

(* A frame the daemon takes from the serial line. *)
LEMMA TakenOther ==
  ASSUME NEW s, NEW t, NEW dn, NEW up \in Seq(Frames), up # <<>>, NEW op, NEW ch \in 0 .. (Channels - 1),
         NEW j \in Connections, Pair(s, dn, up, op, ch, j),
         t.c[j] = s.c[j], t.h[j].st = "none" => s.h[j].st = "none",
         Head(up) \notin UpTo(ch, j) \/ ~Hold(s, j, ch)
  PROVE  Pair(t, dn, Tail(up), op, ch, j)
<1>1. CASE Head(up) \notin UpTo(ch, j)
  <2>1. Keeps(dn, up, op, dn, Tail(up), op, ch, j)
    BY <1>1, UpDrop
  <2> QED BY <2>1, PairKeeps
<1>2. CASE ~Hold(s, j, ch)
  <2>1. Fresh(dn, up, op, ch, j) => Fresh(dn, Tail(up), op, ch, j)
    BY UpDrop
  <2> QED BY <2>1, <1>2 DEF Pair, Hold, Aware
<1> QED BY <1>1, <1>2

(* Client k, and no other, got its answer. *)
AnsweredClient(s, t, k, ok) ==
  /\ \A j \in Connections \ {k} : t.c[j] = s.c[j]
  /\ t.c[k].live = s.c[k].live
  /\ t.c[k].registered <=> ok
  /\ ok => t.c[k].channel = s.c[k].channel
  /\ ~ok => t.c[k].channel = -1

(* The daemon's clients after an answer to client k. *)
SetsAnswer(s, t, k, ok) == t.c = [s.c EXCEPT ![k] = Answer(s.c[k], ok)]

(* What an answer does to the clients. *)
LEMMA AnswerIs ==
  ASSUME NEW s \in Memory, NEW t, NEW k \in Connections, NEW ok \in BOOLEAN, SetsAnswer(s, t, k, ok)
  PROVE  AnsweredClient(s, t, k, ok)
<1> DEFINE r == Answer(s.c[k], ok)
<1>1. s.c[k] \in ClientObjects
  BY DEF Memory
<1>2. IsAnswer(s.c[k], r, ok)
  BY <1>1, AnswerFields
<1> HIDE DEF r
<1>3. t.c = [s.c EXCEPT ![k] = r]
  BY DEF r, SetsAnswer
<1>4. OnlyClient(s, t, k, r)
  BY <1>3, GoneFields, Zenon
<1> QED BY <1>2, <1>4 DEF OnlyClient, IsAnswer, AnsweredClient

(* Nothing is done to any client: data, or a frame for a channel no one holds. *)
LEMMA DropLinked ==
  ASSUME NEW s, NEW t, NEW dn, NEW up \in Seq(Frames), up # <<>>, NEW open, NEW f, f = Head(up),
         t.c = s.c, \A j \in Connections : t.h[j].st = "none" => s.h[j].st = "none",
         f.op = "data" \/ multiplexer_find_client(s, f.ch) = {},
         Linked(s, dn, up, open)
  PROVE  Linked(t, dn, Tail(up), open)
<1> SUFFICES ASSUME NEW ch \in 1 .. (Channels - 1), NEW j \in Connections
             PROVE  Pair(t, dn, Tail(up), open[ch], ch, j)
  BY DEF Linked
<1>0. ch \in 0 .. (Channels - 1)
  BY ChannelIs
<1>1. Pair(s, dn, up, open[ch], ch, j)
  BY DEF Linked
<1>2. f \notin UpTo(ch, j) \/ ~Hold(s, j, ch)
  <2>1. CASE f.op = "data"
    BY <2>1 DEF UpTo
  <2>2. CASE multiplexer_find_client(s, f.ch) = {}
    BY <2>2, HoldIs DEF UpTo
  <2> QED BY <2>1, <2>2
<1> QED BY <1>0, <1>1, <1>2, TakenOther

(* A frame for another client or another channel than the pair's. *)
LEMMA NotFor ==
  ASSUME NEW s, NEW f, NEW k \in Connections, f.conn = k, Hold(s, k, f.ch), NEW ch, NEW j, j # k \/ ch # f.ch
  PROVE  f \notin UpTo(ch, j)
BY DEF UpTo

(* The emulator's answer reaches the client that asked. *)
LEMMA AnswerLinked ==
  ASSUME NEW s \in Memory, NEW t, NEW dn, NEW up \in Seq(Frames), up # <<>>, NEW open, NEW f \in Frames, f = Head(up),
         NEW k \in Connections, f.conn = k, Hold(s, k, f.ch), NEW ok \in BOOLEAN,
         ok => f.op = "ok", ~ok => f.op = "ko",
         SetsAnswer(s, t, k, ok),
         \A j \in Connections : t.h[j].st = "none" => s.h[j].st = "none",
         Linked(s, dn, up, open)
  PROVE  /\ Linked(t, dn, Tail(up), open)
         /\ AllSettled(s, dn, open) => AllSettled(t, dn, open)
<1>0. AnsweredClient(s, t, k, ok)
  BY AnswerIs, Zenon
<1>1. /\ \A j \in Connections \ {k} : t.c[j] = s.c[j]
      /\ t.c[k].live = s.c[k].live
      /\ t.c[k].registered <=> ok
      /\ ok => t.c[k].channel = s.c[k].channel
      /\ ~ok => t.c[k].channel = -1
  BY <1>0 DEF AnsweredClient
<1>2. s.c[k].live /\ s.c[k].channel = f.ch
  BY DEF Hold
<1>3. f = Frame(f.op, f.ch, k)
  BY DEF Frames, Frame
<1>4. \A ch \in 1 .. (Channels - 1) : ch # -1
  BY ChannelIs
<1>5. ASSUME NEW ch \in 1 .. (Channels - 1), ch = f.ch
      PROVE  /\ ok => Serving(dn, Tail(up), open[ch], ch, k)
             /\ ~ok => Fresh(dn, Tail(up), open[ch], ch, k) /\ None(dn, DownOn(ch)) /\ open[ch] # k
  <2>1. Pair(s, dn, up, open[ch], ch, k)
    BY DEF Linked
  <2>2. Waiting(dn, up, open[ch], ch, k) \/ Serving(dn, up, open[ch], ch, k)
    BY <2>1, <1>5 DEF Pair
  <2>3. ch \in 0 .. (Channels - 1)
    BY ChannelIs
  <2>4. /\ f = Frame("ok", ch, k) => Serving(dn, Tail(up), open[ch], ch, k)
        /\ f = Frame("ko", ch, k) =>
             Fresh(dn, Tail(up), open[ch], ch, k) /\ None(dn, DownOn(ch)) /\ open[ch] # k
    BY <2>2, <2>3, AnswerTaken
  <2> QED BY <2>4, <1>3, <1>5
<1>6. Linked(t, dn, Tail(up), open)
  <2> SUFFICES ASSUME NEW ch \in 1 .. (Channels - 1), NEW j \in Connections
               PROVE  Pair(t, dn, Tail(up), open[ch], ch, j)
    BY DEF Linked
  <2>0. ch \in 0 .. (Channels - 1)
    BY ChannelIs
  <2>1. Pair(s, dn, up, open[ch], ch, j)
    BY DEF Linked
  <2>2. CASE j # k
    <3>1. f \notin UpTo(ch, j)
      BY <2>2, NotFor
    <3> QED BY <2>0, <2>1, <2>2, <3>1, <1>1, TakenOther
  <2>3. CASE j = k /\ ch = f.ch
    <3>1. CASE ok
      <4>1. Hold(t, k, ch) /\ t.c[k].registered
        BY <3>1, <2>3, <1>1, <1>2 DEF Hold
      <4> QED BY <4>1, <3>1, <2>3, <1>5 DEF Pair
    <3>2. CASE ~ok
      <4>1. ~Hold(t, k, ch)
        BY <3>2, <2>3, <1>1, <1>4 DEF Hold
      <4> QED BY <4>1, <3>2, <2>3, <1>5 DEF Pair
    <3> QED BY <3>1, <3>2
  <2>4. CASE j = k /\ ch # f.ch
    <3>1. ~Hold(s, k, ch) /\ ~Hold(t, k, ch)
      BY <2>4, <1>1, <1>2, <1>4 DEF Hold
    <3>2. Fresh(dn, up, open[ch], ch, k)
      BY <2>1, <2>4, <3>1, <1>2 DEF Pair, Aware
    <3>3. Fresh(dn, Tail(up), open[ch], ch, k)
      BY <3>2, <2>0, UpDrop
    <3> QED BY <3>1, <3>3, <2>4 DEF Pair
  <2> QED BY <2>2, <2>3, <2>4
<1>7. ASSUME AllSettled(s, dn, open) PROVE AllSettled(t, dn, open)
  <2> SUFFICES ASSUME NEW ch \in 1 .. (Channels - 1)
               PROVE  Settled(dn, open[ch], ch, multiplexer_find_client(t, ch))
    BY DEF AllSettled
  <2> DEFINE H == multiplexer_find_client(s, ch)
             H2 == multiplexer_find_client(t, ch)
  <2>1. Settled(dn, open[ch], ch, H)
    BY <1>7 DEF AllSettled
  <2>2. \A j \in Connections \ {k} : Hold(t, j, ch) <=> Hold(s, j, ch)
    BY <1>1 DEF Hold
  <2>3. H \ {k} \subseteq H2
    BY <2>2, HoldIs
  <2>4. ok \/ ch # f.ch => H \subseteq H2
    <3>1. ASSUME ok \/ ch # f.ch PROVE Hold(s, k, ch) => Hold(t, k, ch)
      BY <3>1, <1>1, <1>2 DEF Hold
    <3> QED BY <3>1, <2>2, HoldIs
  <2> HIDE DEF H, H2
  <2>5. CASE ok \/ ch # f.ch
    <3>1. Settled(dn, open[ch], ch, H2)
      BY <2>1, <2>4, <2>5, SettledMore
    <3> QED BY <3>1 DEF H2
  <2>6. CASE ~ok /\ ch = f.ch
    <3>1. None(dn, DownOn(ch)) /\ open[ch] # k
      BY <1>5, <2>6
    <3>2. Settled(dn, open[ch], ch, H2)
      BY <3>1, <2>1, <2>3, SettledLess
    <3> QED BY <3>2 DEF H2
  <2> QED BY <2>5, <2>6
<1> QED BY <1>6, <1>7

(* The emulator ends the connection of the client that has the channel. *)
LEMMA EndLinked ==
  ASSUME NEW s \in Memory, NEW t, NEW dn, NEW up \in Seq(Frames), up # <<>>, NEW open, NEW f \in Frames, f = Head(up),
         NEW k \in Connections, f.conn = k, Hold(s, k, f.ch), f.op = "disconnect", Disconnected(s, t, k),
         Linked(s, dn, up, open)
  PROVE  /\ Linked(t, dn, Tail(up), open)
         /\ AllSettled(s, dn, open) => AllSettled(t, dn, open)
<1>0. OnlyClient(s, t, k, NoClient)
  BY GoneFields, Zenon DEF Disconnected
<1>1. /\ t.c[k] = NoClient /\ t.h[k].st # "none"
      /\ \A j \in Connections \ {k} : t.c[j] = s.c[j] /\ t.h[j] = s.h[j]
  BY <1>0 DEF OnlyClient, Disconnected
<1>2. f = Frame("disconnect", f.ch, k)
  BY DEF Frames, Frame
<1>3. Linked(t, dn, Tail(up), open)
  <2> SUFFICES ASSUME NEW ch \in 1 .. (Channels - 1), NEW j \in Connections
               PROVE  Pair(t, dn, Tail(up), open[ch], ch, j)
    BY DEF Linked
  <2>0. ch \in 0 .. (Channels - 1)
    BY ChannelIs
  <2>1. Pair(s, dn, up, open[ch], ch, j)
    BY DEF Linked
  <2>2. CASE j # k
    <3>1. f \notin UpTo(ch, j)
      BY <2>2, NotFor
    <3> QED BY <2>0, <2>1, <2>2, <3>1, <1>1, TakenOther
  <2>3. CASE j = k
    BY <2>3, <1>1, PairGone
  <2> QED BY <2>2, <2>3
<1>4. ASSUME AllSettled(s, dn, open) PROVE AllSettled(t, dn, open)
  <2> SUFFICES ASSUME NEW ch \in 1 .. (Channels - 1)
               PROVE  Settled(dn, open[ch], ch, multiplexer_find_client(t, ch))
    BY DEF AllSettled
  <2> DEFINE H == multiplexer_find_client(s, ch)
             H2 == multiplexer_find_client(t, ch)
  <2>1. Settled(dn, open[ch], ch, H)
    BY <1>4 DEF AllSettled
  <2>2. H2 = H \ {k} /\ (~Hold(s, k, ch) => H2 = H)
    BY <1>0, HoldersStay
  <2> HIDE DEF H, H2
  <2>3. CASE ~Hold(s, k, ch)
    BY <2>1, <2>2, <2>3 DEF H2
  <2>4. CASE Hold(s, k, ch)
    <3>1. ch = f.ch /\ ch \in 0 .. (Channels - 1)
      BY <2>4, ChannelIs DEF Hold
    <3>2. Waiting(dn, up, open[ch], ch, k) \/ Serving(dn, up, open[ch], ch, k)
      BY <2>4 DEF Linked, Pair
    <3>3. None(dn, DownOn(ch)) /\ open[ch] # k
      BY <3>1, <3>2, <1>2, AnswerTaken, ZenonT(40)
    <3>4. H \ {k} \subseteq H2
      BY <2>2
    <3>5. Settled(dn, open[ch], ch, H2)
      BY <3>3, <3>4, <2>1, SettledLess
    <3> QED BY <3>5 DEF H2
  <2> QED BY <2>3, <2>4
<1> QED BY <1>3, <1>4

(* The five kinds of frames. *)
LEMMA OpIs == \A f \in Frames : f.op = "data" \/ f.op = "connect" \/ f.op = "disconnect" \/ f.op = "ok" \/ f.op = "ko"
BY DEF Frames, Ops

(* Handling a frame keeps the clients apart: no answer gives a client a    *)
(* channel.                                                                *)
LEMMA FrameApart ==
  ASSUME NEW s \in Memory, NEW u, NEW f \in Frames, FrameHandled(s, u, f), Apart(s)
  PROVE  Apart(u)
<1>1. CASE u.c = s.c
  BY <1>1 DEF Apart
<1>2. ASSUME NEW k \in multiplexer_find_client(s, f.ch), Disconnected(s, u, k) PROVE Apart(u)
  <2>1. k \in Connections /\ u.c = [s.c EXCEPT ![k] = NoClient]
    BY <1>2, HoldIs DEF Disconnected
  <2> QED BY <2>1, GoneApart, Zenon
<1>3. ASSUME NEW k \in multiplexer_find_client(s, f.ch), u.c = [s.c EXCEPT ![k] = Answer(s.c[k], f.op = "ok")]
      PROVE  Apart(u)
  <2>1. k \in Connections
    BY HoldIs
  <2>2. PICK ok \in BOOLEAN : u.c = [s.c EXCEPT ![k] = Answer(s.c[k], ok)]
    BY <1>3
  <2>3. SetsAnswer(s, u, k, ok)
    BY <2>2 DEF SetsAnswer
  <2>4. AnsweredClient(s, u, k, ok)
    BY <2>1, <2>3, AnswerIs, Zenon
  <2>5. /\ \A j \in Connections \ {k} : u.c[j] = s.c[j]
        /\ u.c[k].live = s.c[k].live
        /\ u.c[k].channel = s.c[k].channel \/ u.c[k].channel = -1
    BY <2>4 DEF AnsweredClient
  <2> QED BY <2>1, <2>5 DEF Apart
<1> QED BY <1>1, <1>2, <1>3 DEF FrameHandled

(* Handling a frame that reaches the client it is for keeps the agreement. *)
LEMMA FrameAgreed ==
  ASSUME NEW s \in Memory, NEW u, NEW f \in Frames, FrameHandled(s, u, f), f.op # "connect",
         NEW up \in Seq(Frames), up # <<>>, f = Head(up),
         f.op # "data" => \A k \in multiplexer_find_client(s, f.ch) : k = f.conn,
         NEW q, NEW open, NEW rd, Agreed(s, q, up, open, rd)
  PROVE  Agreed(u, q, Tail(up), open, rd)
<1> DEFINE dn == q \o s.serialOut
<1>0. q \o u.serialOut = dn /\ \A j \in Connections : u.h[j].st = "none" => s.h[j].st = "none"
  BY DEF FrameHandled
<1>1. Linked(s, dn, up, open) /\ (rd \/ AllSettled(s, dn, open))
  BY DEF Agreed
<1> HIDE DEF dn
<1>2. CASE u.c = s.c /\ (f.op = "data" \/ multiplexer_find_client(s, f.ch) = {})
  <2>1. Linked(u, dn, Tail(up), open)
    BY <1>0, <1>1, <1>2, DropLinked
  <2>2. AllSettled(s, dn, open) => AllSettled(u, dn, open)
    BY <1>0, <1>2, SameLinked
  <2> QED BY <2>1, <2>2, <1>0, <1>1 DEF Agreed
<1>3. ASSUME NEW k \in multiplexer_find_client(s, f.ch), f.op = "disconnect", Disconnected(s, u, k)
      PROVE  Agreed(u, q, Tail(up), open, rd)
  <2>1. k \in Connections /\ Hold(s, k, f.ch) /\ f.conn = k
    BY <1>3, HoldIs
  <2>2. /\ Linked(u, dn, Tail(up), open)
        /\ AllSettled(s, dn, open) => AllSettled(u, dn, open)
    BY <2>1, <1>1, <1>3, EndLinked
  <2> QED BY <2>2, <1>0, <1>1 DEF Agreed
<1>4. ASSUME NEW k \in multiplexer_find_client(s, f.ch), f.op # "disconnect", f.op # "data",
             u.c = [s.c EXCEPT ![k] = Answer(s.c[k], f.op = "ok")]
      PROVE  Agreed(u, q, Tail(up), open, rd)
  <2>1. k \in Connections /\ Hold(s, k, f.ch) /\ f.conn = k
    BY <1>4, HoldIs
  <2>2. PICK ok \in BOOLEAN : ok = (f.op = "ok")
    OBVIOUS
  <2>3. SetsAnswer(s, u, k, ok)
    BY <1>4, <2>2 DEF SetsAnswer
  <2>4. (ok => f.op = "ok") /\ (~ok => f.op = "ko")
    BY <1>4, <2>2, OpIs
  <2>5. /\ Linked(u, dn, Tail(up), open)
        /\ AllSettled(s, dn, open) => AllSettled(u, dn, open)
    BY <2>1, <2>3, <2>4, <1>0, <1>1, AnswerLinked, SMTT(30)
  <2> QED BY <2>5, <1>0, <1>1 DEF Agreed
<1> QED BY <1>2, <1>3, <1>4 DEF FrameHandled

(* A step of the daemon that touches no client and moves no frame. *)
LEMMA QuietStep ==
  ASSUME ChannelInv, UNCHANGED <<emu, rude, crossed>>, d.status = "running",
         d'.c = d.c, toEmu' \o d'.serialOut = toEmu \o d.serialOut, Up' = Up,
         \A j \in Connections : d'.h[j].st = "none" => d.h[j].st = "none"
  PROVE  ChannelInv'
<1>1. Apart(d) => Apart(d')
  BY DEF Apart
<1>2. ASSUME Agreed(d, toEmu, Up, emu.open, rude) PROVE Agreed(d', toEmu', Up, emu.open, rude)
  <2> DEFINE dn == toEmu \o d.serialOut
  <2>0. toEmu' \o d'.serialOut = dn
    OBVIOUS
  <2>1. Linked(d, dn, Up, emu.open) /\ (rude \/ AllSettled(d, dn, emu.open))
    BY <1>2 DEF Agreed
  <2> HIDE DEF dn
  <2>2. /\ Linked(d, dn, Up, emu.open) => Linked(d', dn, Up, emu.open)
        /\ AllSettled(d, dn, emu.open) => AllSettled(d', dn, emu.open)
    BY SameLinked
  <2> QED BY <2>0, <2>1, <2>2 DEF Agreed
<1> QED BY <1>1, <1>2 DEF ChannelInv

(* Handling a frame of the serial line keeps the invariant of the          *)
(* channels.                                                               *)
LEMMA ReceivesChannel == HookInv /\ ChannelInv /\ SerialReceives => ChannelInv'
<1> SUFFICES ASSUME HookInv, ChannelInv, SerialReceives PROVE ChannelInv'
  OBVIOUS
<1> DEFINE f == Head(d.got)
           u == multiplexer_serial_receive(d, f)
<1>1. /\ d.status = "running" /\ d.phase = "serial" /\ d.got # <<>>
      /\ d' = [u EXCEPT !.got = Tail(u.got)]
      /\ crossed' = (\/ crossed
                     \/ f.op # "data" /\ \E k \in multiplexer_find_client(d, f.ch) : k # f.conn)
      /\ UNCHANGED <<sock, backlog, toEmu, fromEmu, emu, sends, rude, reused>>
  BY DEF SerialReceives
<1>2. /\ d \in Memory /\ HS(d) /\ ClientsLive(d) /\ d.got \in Seq(Frames) /\ fromEmu \in Seq(Frames)
      /\ crossed \in BOOLEAN
  BY <1>1 DEF HookInv, QemudType, LoopInv, Memory
<1>3. f \in Frames
  BY <1>1, <1>2, TailIn
<1>4. FrameHandled(d, u, f)
  BY <1>1, <1>2, <1>3, HandleFrame
<1>5. Up # <<>> /\ Up \in Seq(Frames) /\ Head(Up) = f /\ Tail(Up) = Tail(d.got) \o fromEmu
  BY <1>1, <1>2, ConcatHead, ZenonT(40) DEF Up
<1> HIDE DEF f, u
<1>6. u \in Memory /\ u.got = d.got
  BY <1>4 DEF FrameHandled
<1>7. d'.c = u.c /\ d'.h = u.h /\ d'.serialOut = u.serialOut /\ d'.got = Tail(d.got) /\ d'.status = u.status
  BY <1>1, <1>6 DEF Memory
<1>8. Up' = Tail(Up)
  BY <1>1, <1>5, <1>7 DEF Up
<1>9. None(Up, Connecting)
  BY <1>1 DEF ChannelInv
<1>10. f \notin Connecting /\ None(Tail(Up), Connecting)
  BY <1>5, <1>9, NoneTail
<1>11. Apart(d')
  <2>1. Apart(u)
    BY <1>2, <1>3, <1>4, FrameApart DEF ChannelInv
  <2> QED BY <2>1, <1>7 DEF Apart
<1>12. ASSUME ~crossed' PROVE Agreed(d', toEmu, Tail(Up), emu.open, rude)
  <2>1. ~crossed /\ (f.op # "data" => \A k \in multiplexer_find_client(d, f.ch) : k = f.conn)
    BY <1>1, <1>2, <1>12
  <2>2. Agreed(d, toEmu, Up, emu.open, rude)
    BY <2>1, <1>1 DEF ChannelInv
  <2>3. f.op # "connect"
    BY <1>3, <1>10 DEF Connecting
  <2>4. Agreed(u, toEmu, Tail(Up), emu.open, rude)
    BY <2>1, <2>2, <2>3, <1>2, <1>3, <1>4, <1>5, FrameAgreed
  <2> QED BY <2>4, <1>7, SameAgreed
<1> QED BY <1>1, <1>8, <1>10, <1>11, <1>12 DEF ChannelInv

----------------------------------------------------------------------------
(* qemud: the invariant of the channels is inductive. *)

(* Initially nothing is queued and no client is live. *)
LEMMA InitFields == QemudInit => /\ d.serialOut = <<>> /\ d.got = <<>>
                                 /\ \A k \in Connections : ~d.c[k].live
<1> SUFFICES ASSUME QemudInit PROVE /\ d.serialOut = <<>> /\ d.got = <<>>
                                    /\ \A k \in Connections : ~d.c[k].live
  OBVIOUS
<1>1. PICK first \in FirstChannel :
        d = Listening(Listening(Blank(first), SerialFd, Serial), ControlFd, Control)
  BY DEF QemudInit, Blank, NoClient
<1>2. Blank(first) \in Memory
  BY BlankType, QemudAssumption
<1> DEFINE s == Blank(first)
           s1 == Listening(s, SerialFd, Serial)
<1>3. /\ s.hooks = <<>> /\ Len(s.hooks) = 0 /\ s.serialOut = <<>> /\ s.got = <<>>
      /\ \A k \in Connections : s.c[k] = NoClient
  BY EmptySeq DEF Blank
<1> HIDE DEF s
<1>4. SlotsOf(s, SerialFd) = {}
  BY <1>3 DEF SlotsOf
<1>5. Listens(s, s1, SerialFd, Serial)
  BY <1>2, <1>4, Listen, NatsFacts DEF s
<1> HIDE DEF s1
<1>6. s1 \in Memory /\ Len(s1.hooks) = 1 /\ s1.hooks[1].fd = SerialFd /\ Others(s, s1)
  BY <1>3, <1>5 DEF Listens
<1>7. SlotsOf(s1, ControlFd) = {}
  <2>1. DOMAIN s1.hooks = 1 .. 1
    BY <1>6, LenProperties DEF Memory
  <2> QED BY <2>1, <1>6 DEF SlotsOf, SerialFd, ControlFd
<1>8. Listens(s1, d, ControlFd, Control)
  <2>1. Listens(s1, Listening(s1, ControlFd, Control), ControlFd, Control)
    BY <1>6, <1>7, Listen, NatsFacts
  <2> QED BY <2>1, <1>1 DEF s, s1
<1>9. Others(s1, d)
  BY <1>8 DEF Listens
<1>10. ~NoClient.live
  BY DEF NoClient
<1> QED BY <1>3, <1>6, <1>9, <1>10 DEF Others

(* No frame is in the empty sequence. *)
LEMMA NoneEmpty == \A F : None(<<>>, F)
<1>1. 1 .. Len(<<>>) = {}
  BY EmptySeq
<1> QED BY <1>1 DEF None

(* Nothing and nothing is nothing. *)
LEMMA EmptyConcat == <<>> \o <<>> = <<>>
<1>1. <<>> \in Seq(Frames)
  BY EmptySeq
<1> QED BY <1>1, ConcatEmptySeq

(* The invariant of the channels holds initially. *)
LEMMA InitChannel == QemudInit => ChannelInv
<1> SUFFICES ASSUME QemudInit PROVE ChannelInv
  OBVIOUS
<1>1. d.serialOut = <<>> /\ d.got = <<>> /\ \A k \in Connections : ~d.c[k].live
  BY InitFields
<1>2. toEmu = <<>> /\ fromEmu = <<>> /\ emu.open = [ch \in 0 .. (Channels - 1) |-> 0]
  BY DEF QemudInit
<1>3. Apart(d)
  BY <1>1 DEF Apart
<1>4. Up = <<>> /\ toEmu \o d.serialOut = <<>>
  BY <1>1, <1>2, EmptyConcat DEF Up
<1>5. ASSUME NEW ch \in 1 .. (Channels - 1) PROVE emu.open[ch] = 0
  BY <1>2, ChannelIs
<1>6. 0 \notin Connections
  BY QemudAssumption
<1>7. Linked(d, <<>>, <<>>, emu.open)
  <2> SUFFICES ASSUME NEW ch \in 1 .. (Channels - 1), NEW j \in Connections
               PROVE  Pair(d, <<>>, <<>>, emu.open[ch], ch, j)
    BY DEF Linked
  <2>1. Fresh(<<>>, <<>>, emu.open[ch], ch, j)
    BY <1>5, <1>6, NoneEmpty DEF Fresh
  <2>2. ~Hold(d, j, ch)
    BY <1>1 DEF Hold
  <2> QED BY <2>1, <2>2 DEF Pair
<1>8. AllSettled(d, <<>>, emu.open)
  <2> SUFFICES ASSUME NEW ch \in 1 .. (Channels - 1)
               PROVE  Settled(<<>>, emu.open[ch], ch, multiplexer_find_client(d, ch))
    BY DEF AllSettled
  <2>1. 1 .. Len(<<>>) = {}
    BY EmptySeq
  <2> QED BY <2>1, <1>5 DEF Settled, Ended
<1> QED BY <1>3, <1>4, <1>7, <1>8, NoneEmpty DEF ChannelInv, Agreed

(* epoll_wait keeps the invariant of the channels. *)
LEMMA WaitChannel == HookInv /\ ChannelInv /\ EpollWait => ChannelInv'
<1> SUFFICES ASSUME HookInv, ChannelInv, EpollWait PROVE ChannelInv'
  OBVIOUS
<1>1. PICK g : d' = [d EXCEPT !.phase = "hooks", !.hooks = g]
  BY DEF EpollWait
<1>2. d.status = "running" /\ UNCHANGED <<toEmu, fromEmu, emu, rude, crossed>> /\ d \in Memory
  BY DEF EpollWait, HookInv, QemudType
<1>3. d'.c = d.c /\ d'.h = d.h /\ d'.serialOut = d.serialOut /\ d'.got = d.got
  BY <1>1, <1>2 DEF Memory
<1> QED BY <1>2, <1>3, QuietStep DEF Up

(* Reading the serial line keeps it: the frames stay in order. *)
LEMMA ReadsChannel == HookInv /\ ChannelInv /\ SerialReads => ChannelInv'
<1> SUFFICES ASSUME HookInv, ChannelInv, SerialReads PROVE ChannelInv'
  OBVIOUS
<1>1. d.status = "running" /\ d.phase = "hooks" /\ UNCHANGED <<toEmu, emu, rude, crossed>>
  BY DEF SerialReads, Running
<1>2. d \in Memory /\ fromEmu \in Seq(Frames) /\ Len(fromEmu) \in Nat /\ d.got = <<>>
  BY <1>1, LenProperties DEF HookInv, QemudType, LoopInv
<1>2a. PICK n \in 0 .. Len(fromEmu) : \E g :
        /\ d' = [d EXCEPT !.hooks = g, !.phase = "serial", !.got = SubSeq(fromEmu, 1, n)]
        /\ fromEmu' = SubSeq(fromEmu, n + 1, Len(fromEmu))
  <2>1. PICK n \in (IF "in" \in Events THEN 1..Len(fromEmu) ELSE {0}) :
       /\ d' = [d EXCEPT !.hooks[Current].pending = FALSE, !.phase = "serial",
                         !.got = SubSeq(fromEmu, 1, n)]
       /\ fromEmu' = SubSeq(fromEmu, n + 1, Len(fromEmu))
    BY DEF SerialReads
  <2>2. n \in 0 .. Len(fromEmu)
    BY <1>2
  <2>3. d' = [d EXCEPT !.hooks = [d.hooks EXCEPT ![Current].pending = FALSE], !.phase = "serial",
                       !.got = SubSeq(fromEmu, 1, n)]
    BY <2>1
  <2> QED BY <2>1, <2>2, <2>3
<1>3. PICK g :
        /\ d' = [d EXCEPT !.hooks = g, !.phase = "serial", !.got = SubSeq(fromEmu, 1, n)]
        /\ fromEmu' = SubSeq(fromEmu, n + 1, Len(fromEmu))
  BY <1>2a, Zenon
<1> DEFINE a == SubSeq(fromEmu, 1, n)
<1>4. d' = [d EXCEPT !.hooks = g, !.phase = "serial", !.got = a]
  BY <1>3
<1>5. a \o fromEmu' = fromEmu
  BY <1>2, <1>3, ConcatSplit
<1>6. <<>> \o fromEmu = fromEmu
  BY <1>2, ConcatEmptySeq
<1> HIDE DEF a
<1>7. d'.c = d.c /\ d'.h = d.h /\ d'.serialOut = d.serialOut /\ d'.got = a
  BY <1>4, <1>2 DEF Memory
<1>8. Up' = Up
  BY <1>2, <1>5, <1>6, <1>7 DEF Up
<1> QED BY <1>1, <1>7, <1>8, QuietStep

(* Writing to the serial line keeps it. *)
LEMMA WritesChannel == HookInv /\ ChannelInv /\ SerialWrites => ChannelInv'
<1> SUFFICES ASSUME HookInv, ChannelInv, SerialWrites PROVE ChannelInv'
  OBVIOUS
<1>1. d.status = "running" /\ d.phase = "serial" /\ d.got = <<>>
  BY DEF SerialWrites
<1>2. /\ d \in Memory /\ HS(d) /\ d.serialOut \in Seq(Frames) /\ toEmu \in Seq(Frames)
  BY <1>1 DEF HookInv, QemudType, LoopInv, Memory
<1>3. looper_find(d, SerialFd) = 1
  BY <1>2, SerialSlot, FindSlot DEF HS
<1> DEFINE writes == "out" \in d.hooks[1].events /\ d.serialOut # <<>>
           q == IF writes THEN Tail(d.serialOut) ELSE d.serialOut
           s == [d EXCEPT !.phase = "hooks", !.hooks[1].events = {}, !.serialOut = q]
           off == writes /\ s.serialOut = <<>>
<1>4. /\ toEmu' = IF writes THEN Append(toEmu, Head(d.serialOut)) ELSE toEmu
      /\ d' = IF off THEN looper_disable(s, SerialFd, "out") ELSE s
      /\ UNCHANGED <<sock, backlog, fromEmu, emu, sends, rude, reused, crossed>>
  BY <1>3 DEF SerialWrites
<1>5. q \in Seq(Frames)
  BY <1>2, TailIn
<1>6. SerialWritten(d, d') /\ d'.serialOut = q
  <2>1. s = [d EXCEPT !.phase = "hooks", !.hooks[1].events = {}, !.serialOut = q]
    OBVIOUS
  <2>2. d' = OffIf(s, off)
    BY <1>4 DEF OffIf
  <2> HIDE DEF q, off, writes, s
  <2> QED BY <1>1, <1>2, <1>5, <2>1, <2>2, WriteSerial
<1> HIDE DEF s, off
<1>7. toEmu' \o q = toEmu \o d.serialOut
  <2>1. CASE writes
    BY <2>1, <1>2, <1>4, ConcatMove
  <2>2. CASE ~writes
    BY <2>2, <1>4
  <2> QED BY <2>1, <2>2
<1> HIDE DEF q, writes
<1>8. d'.c = d.c /\ d'.h = d.h /\ d'.got = d.got
  BY <1>6 DEF SerialWritten
<1> QED BY <1>1, <1>4, <1>6, <1>7, <1>8, QuietStep DEF Up

(* The sweep keeps it. *)
LEMMA SweepChannel == HookInv /\ ChannelInv /\ Sweep => ChannelInv'
<1> SUFFICES ASSUME HookInv, ChannelInv, Sweep PROVE ChannelInv'
  OBVIOUS
<1>1. d.status = "running" /\ UNCHANGED <<toEmu, fromEmu, emu, rude, crossed>> /\ d \in Memory
  BY DEF Sweep, HookInv, QemudType
<1>2. d'.c = d.c /\ d'.h = d.h /\ d'.serialOut = d.serialOut /\ d'.got = d.got
  <2>1. CASE Closing = {}
    <3>1. d' = [d EXCEPT !.phase = "wait"]
      BY <2>1 DEF Sweep
    <3> QED BY <3>1, <1>1 DEF Memory
  <2>2. CASE Closing # {}
    <3> DEFINE i == CHOOSE i \in Closing : \A j \in Closing : i <= j
    <3>1. d' = SweepHook(d, i)
      BY <2>2 DEF Sweep
    <3>0. /\ Len(d.hooks) \in Nat /\ DOMAIN d.hooks = 1 .. Len(d.hooks)
      BY <1>1, HookTyped
    <3>2. Closing \in SUBSET Nat
      BY <3>0 DEF Closing
    <3>3. \E x \in Closing : \A y \in Closing : x <= y
      BY <2>2, <3>2, LeastExists, Zenon
    <3>4. i \in Closing
      BY <3>3
    <3> HIDE DEF i
    <3>5. i \in 1 .. Len(d.hooks)
      BY <3>0, <3>4 DEF Closing
    <3>6. Swept(d, d', i)
      BY <1>1, <3>1, <3>5, SweepOne
    <3> QED BY <3>6 DEF Swept
  <2> QED BY <2>1, <2>2
<1> QED BY <1>1, <1>2, QuietStep DEF Up

(* Accepting a connection keeps it. *)
LEMMA AcceptChannel == HookInv /\ ChannelInv /\ AcceptEvent => ChannelInv'
<1> SUFFICES ASSUME HookInv, ChannelInv, AcceptEvent PROVE ChannelInv'
  OBVIOUS
<1> DEFINE k == Head(backlog)
           s == Started
<1>1. Running(Control) /\ UNCHANGED <<toEmu, fromEmu, emu, rude, crossed>>
  BY DEF AcceptEvent
<1>2. d.status = "running" /\ d \in Memory /\ Begun(d, s, Current)
  BY <1>1, StartedIs
<1>3. k \in Connections /\ d.h[k].st = "none" /\ Accepted(s, d', k)
  BY AcceptDoes
<1>4. /\ s \in Memory /\ ClientsLive(s) /\ s.c = d.c /\ s.h = d.h /\ s.serialOut = d.serialOut /\ s.got = d.got
      /\ s.status = "running"
  BY <1>2 DEF Begun
<1> HIDE DEF s, k
<1>5. /\ Apart(s)
      /\ Agreed(d, toEmu, Up, emu.open, rude) => Agreed(s, toEmu, Up, emu.open, rude)
  BY <1>4, SameAgreed DEF ChannelInv
<1>6. /\ Apart(d')
      /\ Agreed(s, toEmu, Up, emu.open, rude) => Agreed(d', toEmu, Up, emu.open, rude)
  BY <1>3, <1>4, <1>5, AcceptAgreed
<1>7. d'.got = d.got
  BY <1>3, <1>4 DEF Accepted
<1> QED BY <1>1, <1>2, <1>5, <1>6, <1>7 DEF ChannelInv, Up

(* The callback of a connection keeps it. *)
LEMMA ClientChannel == ASSUME NEW k \in Connections PROVE HookInv /\ ChannelInv /\ ClientEvent(k) => ChannelInv'
<1> SUFFICES ASSUME HookInv, ChannelInv, ClientEvent(k) PROVE ChannelInv'
  OBVIOUS
<1> DEFINE s == Started
<1>1. Running(k) /\ UNCHANGED <<toEmu, fromEmu, emu, crossed>> /\ toEmu \in Seq(Frames)
  BY DEF ClientEvent, HookInv, QemudType
<1>2. d.status = "running" /\ d \in Memory /\ Begun(d, s, Current)
  BY <1>1, StartedIs
<1>4. /\ s \in Memory /\ HS(s) /\ ClientsLive(s) /\ s.c = d.c /\ s.h = d.h /\ s.serialOut = d.serialOut /\ s.got = d.got
      /\ s.status = "running"
  BY <1>2 DEF Begun
<1>5. \/ d' = Undefined(s) /\ (rude \/ emu.hungup) /\ rude' = rude
      \/ \E u : /\ EventRan(s, u, d', k) /\ Opened(s, k) /\ Own(s, k)
                /\ rude' = (rude \/ (d.c[k].live /\ ~u.c[k].live))
  BY ClientDoes, Zenon
<1> HIDE DEF s
<1>6. /\ Apart(s)
      /\ Agreed(d, toEmu, Up, emu.open, rude) => Agreed(s, toEmu, Up, emu.open, rude)
  BY <1>4, SameAgreed DEF ChannelInv
<1>7. CASE d' = Undefined(s)
  <2>1. d'.status = "undefined" /\ d'.c = s.c
    BY <1>4, <1>7 DEF Undefined, Memory
  <2>2. Apart(d')
    BY <2>1, <1>6 DEF Apart
  <2> QED BY <2>1, <2>2 DEF ChannelInv
<1>8. ASSUME NEW u, EventRan(s, u, d', k), Opened(s, k), rude' = (rude \/ (d.c[k].live /\ ~u.c[k].live))
      PROVE  ChannelInv'
  <2>1. /\ Apart(d')
        /\ d'.status = "running" /\ Agreed(s, toEmu, Up, emu.open, rude) => Agreed(d', toEmu, Up, emu.open, rude')
    <3>1. /\ Apart(d')
          /\ d'.status = "running" /\ Agreed(s, toEmu, Up, emu.open, rude)
               => Agreed(d', toEmu, Up, emu.open, rude \/ (s.c[k].live /\ ~u.c[k].live))
      <4>1. EventAgrees(s, u, d', k, toEmu, Up, emu.open, rude)
        BY <1>1, <1>4, <1>6, <1>8, EventAgreed, Zenon
      <4> QED BY <4>1 DEF EventAgrees
    <3>2. s.c = d.c
      BY <1>4
    <3> QED BY <3>1, <3>2, <1>8
  <2>2. d'.status = "running" => d'.got = d.got
    <3>1. Around(s, u, k)
      BY <1>4, <1>8, AroundRead DEF EventRan
    <3>2. u \in Memory /\ u.h[k].st # "none" /\ u.got = d.got
      BY <3>1, <1>4 DEF Around
    <3>3. ASSUME d'.status = "running" PROVE d'.got = u.got
      <4>1. CASE u.status # "running"
        BY <4>1, <1>8 DEF EventRan
      <4>2. CASE u.status = "running"
        <5>1. Rest(u, d', k)
          BY <4>2, <3>3, <1>8 DEF EventRan, Finished
        <5>2. Around(u, d', k)
          BY <5>1, <3>2, AroundRest
        <5> QED BY <5>2 DEF Around
      <4> QED BY <4>1, <4>2
    <3> QED BY <3>2, <3>3
  <2>3. d'.status = "running" => Up' = Up
    BY <2>2, <1>1 DEF Up
  <2> QED BY <2>1, <2>3, <1>1, <1>2, <1>6 DEF ChannelInv
<1> QED BY <1>5, <1>7, <1>8

(* Whom the emulator serves on each channel. *)
Opening == [0 .. (Channels - 1) -> Connections \cup {0}]

(* Only channel c0 changed. *)
OpenedAt(open, open2, c0, x) ==
  open2[c0] = x /\ \A ch \in 1 .. (Channels - 1) : ch # c0 => open2[ch] = open[ch]

(* Opening or closing a channel changes no other channel. *)
LEMMA OpeningSet ==
  ASSUME NEW open \in Opening, NEW c0 \in 0 .. (Channels - 1), NEW x, NEW open2,
         open2 = [open EXCEPT ![c0] = x]
  PROVE  OpenedAt(open, open2, c0, x)
<1>1. \A ch \in 1 .. (Channels - 1) : ch \in 0 .. (Channels - 1)
  BY ChannelIs
<1> QED BY <1>1 DEF Opening, OpenedAt

(* The emulator answers a connect. *)
LEMMA ConnectLinked ==
  ASSUME NEW s, NEW dn \in Seq(Frames), dn # <<>>, NEW up \in Seq(Frames), NEW open \in Opening, NEW open2,
         NEW c0 \in 0 .. (Channels - 1), NEW k \in Connections, Head(dn) = Frame("connect", c0, k), NEW o,
         \/ o = "ok" /\ open2 = [open EXCEPT ![c0] = k]
         \/ o = "ko" /\ open2 = open
  PROVE  /\ Linked(s, dn, up, open) => Linked(s, Tail(dn), Append(up, Frame(o, c0, k)), open2)
         /\ AllSettled(s, dn, open) => AllSettled(s, Tail(dn), open2)
<1> DEFINE g == Frame(o, c0, k)
<1>0. o \in Ops
  BY DEF Ops
<1>1. g \in Frames
  BY <1>0, FrameType
<1>a. open2 = [open EXCEPT ![c0] = k] => OpenedAt(open, open2, c0, k)
  BY OpeningSet, Zenon
<1>2. \A ch \in 1 .. (Channels - 1) : ch # c0 => open2[ch] = open[ch]
  BY <1>a DEF OpenedAt
<1>3. (o = "ok" /\ open2[c0] = k) \/ (o = "ko" /\ open2[c0] = open[c0])
  BY <1>a DEF OpenedAt
<1>4. /\ Head(dn) \in Frames /\ Head(dn).op = "connect" /\ Head(dn).ch = c0 /\ Head(dn).conn = k
  <2>1. Head(dn) \in Frames
    BY TailIn
  <2> QED BY <2>1 DEF Frame
<1>5. ASSUME Linked(s, dn, up, open) PROVE Linked(s, Tail(dn), Append(up, g), open2)
  <2> SUFFICES ASSUME NEW ch \in 1 .. (Channels - 1), NEW j \in Connections
               PROVE  Pair(s, Tail(dn), Append(up, g), open2[ch], ch, j)
    BY DEF Linked
  <2>0. ch \in 0 .. (Channels - 1)
    BY ChannelIs
  <2>1. Pair(s, dn, up, open[ch], ch, j)
    BY <1>5 DEF Linked
  <2>2. Keeps(dn, up, open[ch], Tail(dn), Append(up, g), open2[ch], ch, j)
    <3>1. CASE ch = c0
      <4>1. Head(dn) = Frame("connect", ch, k) /\ g = Frame(o, ch, k)
        BY <3>1
      <4>2. (o = "ok" /\ open2[ch] = k) \/ (o = "ko" /\ open2[ch] = open[ch])
        BY <3>1, <1>3
      <4>3. Keeps(dn, up, open[ch], Tail(dn), Append(up, Frame(o, ch, k)), open2[ch], ch, j)
        BY <2>0, <4>1, <4>2, ConnectTaken
      <4> QED BY <4>1, <4>3
    <3>2. CASE ch # c0
      <4>1. Head(dn) \notin DownOn(ch)
        BY <3>2, <1>4 DEF DownOn
      <4>2. Keeps(dn, up, open[ch], Tail(dn), up, open[ch], ch, j)
        BY <2>0, <4>1, DownDrop
      <4>3. g \notin UpTo(ch, j)
        BY <3>2, OtherFrame
      <4> HIDE DEF g
      <4>4. Keeps(Tail(dn), up, open[ch], Tail(dn), Append(up, g), open[ch], ch, j)
        BY <2>0, <4>3, <1>1, UpSilent
      <4>5. Keeps(dn, up, open[ch], Tail(dn), Append(up, g), open[ch], ch, j)
        BY <4>2, <4>4, KeepsTwice
      <4> QED BY <4>5, <3>2, <1>2
    <3> QED BY <3>1, <3>2
  <2> HIDE DEF g
  <2> QED BY <2>1, <2>2, PairKeeps
<1>6. ASSUME AllSettled(s, dn, open) PROVE AllSettled(s, Tail(dn), open2)
  <2> SUFFICES ASSUME NEW ch \in 1 .. (Channels - 1)
               PROVE  Settled(Tail(dn), open2[ch], ch, multiplexer_find_client(s, ch))
    BY DEF AllSettled
  <2> DEFINE H == multiplexer_find_client(s, ch)
  <2>1. Settled(dn, open[ch], ch, H)
    BY <1>6 DEF AllSettled
  <2>2. Head(dn) \notin Ends(ch) /\ (ch = c0 => Head(dn) \in Connects(ch))
    BY <1>4 DEF Ends, Connects
  <2> HIDE DEF H
  <2>3. /\ Head(dn) \notin Ends(ch) => Settled(Tail(dn), open[ch], ch, H)
        /\ Head(dn) \in Connects(ch) => Settled(Tail(dn), Head(dn).conn, ch, H)
    BY <2>1, SettledTail
  <2>4. Settled(Tail(dn), open2[ch], ch, H)
    <3>1. CASE ch = c0
      BY <3>1, <2>2, <2>3, <1>3, <1>4
    <3>2. CASE ch # c0
      BY <3>2, <2>2, <2>3, <1>2
    <3> QED BY <3>1, <3>2
  <2> QED BY <2>4 DEF H
<1> QED BY <1>5, <1>6

(* The emulator takes a disconnect. *)
LEMMA DisconnectLinked ==
  ASSUME NEW s, NEW dn \in Seq(Frames), dn # <<>>, NEW up, NEW open \in Opening, NEW open2,
         NEW c0 \in 0 .. (Channels - 1), Head(dn).op = "disconnect", Head(dn).ch = c0,
         open2 = [open EXCEPT ![c0] = 0]
  PROVE  /\ Linked(s, dn, up, open) => Linked(s, Tail(dn), up, open2)
         /\ AllSettled(s, dn, open) => AllSettled(s, Tail(dn), open2)
<1>0. Head(dn) \in Frames
  BY TailIn
<1>a. OpenedAt(open, open2, c0, 0)
  BY OpeningSet, Zenon
<1>1. open2[c0] = 0 /\ \A ch \in 1 .. (Channels - 1) : ch # c0 => open2[ch] = open[ch]
  BY <1>a DEF OpenedAt
<1>2. ASSUME NEW ch, ch # c0 PROVE Head(dn) \notin DownOn(ch) /\ Head(dn) \notin Ends(ch)
  BY <1>2 DEF DownOn, Ends
<1>3. ASSUME Linked(s, dn, up, open) PROVE Linked(s, Tail(dn), up, open2)
  <2> SUFFICES ASSUME NEW ch \in 1 .. (Channels - 1), NEW j \in Connections
               PROVE  Pair(s, Tail(dn), up, open2[ch], ch, j)
    BY DEF Linked
  <2>0. ch \in 0 .. (Channels - 1)
    BY ChannelIs
  <2>1. Pair(s, dn, up, open[ch], ch, j)
    BY <1>3 DEF Linked
  <2>2. Keeps(dn, up, open[ch], Tail(dn), up, open2[ch], ch, j)
    <3>1. CASE ch = c0
      <4>1. Head(dn) \in Ends(ch)
        BY <3>1, <1>0 DEF Ends
      <4>2. Keeps(dn, up, open[ch], Tail(dn), up, 0, ch, j)
        BY <2>0, <4>1, DisconnectTaken
      <4> QED BY <4>2, <3>1, <1>1
    <3>2. CASE ch # c0
      <4>1. Keeps(dn, up, open[ch], Tail(dn), up, open[ch], ch, j)
        BY <2>0, <3>2, <1>2, DownDrop
      <4> QED BY <4>1, <3>2, <1>1
    <3> QED BY <3>1, <3>2
  <2> QED BY <2>1, <2>2, PairKeeps
<1>4. ASSUME AllSettled(s, dn, open) PROVE AllSettled(s, Tail(dn), open2)
  <2> SUFFICES ASSUME NEW ch \in 1 .. (Channels - 1)
               PROVE  Settled(Tail(dn), open2[ch], ch, multiplexer_find_client(s, ch))
    BY DEF AllSettled
  <2> DEFINE H == multiplexer_find_client(s, ch)
  <2>1. Settled(dn, open[ch], ch, H)
    BY <1>4 DEF AllSettled
  <2> HIDE DEF H
  <2>2. /\ Head(dn) \notin Ends(ch) => Settled(Tail(dn), open[ch], ch, H)
        /\ Settled(Tail(dn), 0, ch, H)
    BY <2>1, SettledTail
  <2>3. Settled(Tail(dn), open2[ch], ch, H)
    BY <2>2, <1>1, <1>2
  <2> QED BY <2>3 DEF H
<1> QED BY <1>3, <1>4

(* The emulator takes data. *)
LEMMA DataLinked ==
  ASSUME NEW s, NEW dn \in Seq(Frames), dn # <<>>, NEW up, NEW open, Head(dn).op = "data"
  PROVE  /\ Linked(s, dn, up, open) => Linked(s, Tail(dn), up, open)
         /\ AllSettled(s, dn, open) => AllSettled(s, Tail(dn), open)
<1>1. \A ch : Head(dn) \notin DownOn(ch) /\ Head(dn) \notin Ends(ch)
  BY DEF DownOn, Ends
<1>2. ASSUME Linked(s, dn, up, open) PROVE Linked(s, Tail(dn), up, open)
  <2> SUFFICES ASSUME NEW ch \in 1 .. (Channels - 1), NEW j \in Connections
               PROVE  Pair(s, Tail(dn), up, open[ch], ch, j)
    BY DEF Linked
  <2>1. Pair(s, dn, up, open[ch], ch, j)
    BY <1>2 DEF Linked
  <2>2. Keeps(dn, up, open[ch], Tail(dn), up, open[ch], ch, j)
    BY <1>1, ChannelIs, DownDrop
  <2> QED BY <2>1, <2>2, PairKeeps
<1>3. ASSUME AllSettled(s, dn, open) PROVE AllSettled(s, Tail(dn), open)
  <2> SUFFICES ASSUME NEW ch \in 1 .. (Channels - 1)
               PROVE  Settled(Tail(dn), open[ch], ch, multiplexer_find_client(s, ch))
    BY DEF AllSettled
  <2>1. Settled(dn, open[ch], ch, multiplexer_find_client(s, ch))
    BY <1>3 DEF AllSettled
  <2> QED BY <2>1, <1>1, SettledTail
<1> QED BY <1>2, <1>3

(* The emulator speaks first. *)
LEMMA StartsLinked ==
  ASSUME NEW s, NEW dn, NEW up \in Seq(Frames), NEW open \in Opening, NEW open2,
         NEW c0 \in 0 .. (Channels - 1), NEW k \in Connections, open[c0] = k, NEW o,
         \/ o = "data" /\ open2 = open
         \/ o = "disconnect" /\ open2 = [open EXCEPT ![c0] = 0]
  PROVE  /\ Linked(s, dn, up, open) => Linked(s, dn, Append(up, Frame(o, c0, k)), open2)
         /\ AllSettled(s, dn, open) => AllSettled(s, dn, open2)
<1> DEFINE g == Frame(o, c0, k)
<1>0. o \in Ops
  BY DEF Ops
<1>1. g \in Frames
  BY <1>0, FrameType
<1>a. open2 = [open EXCEPT ![c0] = 0] => OpenedAt(open, open2, c0, 0)
  BY OpeningSet, Zenon
<1>2. \A ch \in 1 .. (Channels - 1) : ch # c0 => open2[ch] = open[ch]
  BY <1>a DEF OpenedAt
<1>3. (o = "data" /\ open2[c0] = open[c0]) \/ (o = "disconnect" /\ open2[c0] = 0)
  BY <1>a DEF OpenedAt
<1>4. ASSUME Linked(s, dn, up, open) PROVE Linked(s, dn, Append(up, g), open2)
  <2> SUFFICES ASSUME NEW ch \in 1 .. (Channels - 1), NEW j \in Connections
               PROVE  Pair(s, dn, Append(up, g), open2[ch], ch, j)
    BY DEF Linked
  <2>0. ch \in 0 .. (Channels - 1)
    BY ChannelIs
  <2>1. Pair(s, dn, up, open[ch], ch, j)
    BY <1>4 DEF Linked
  <2>2. Keeps(dn, up, open[ch], dn, Append(up, g), open2[ch], ch, j)
    <3>1. CASE ch = c0 /\ o = "disconnect"
      <4>1. Keeps(dn, up, k, dn, Append(up, Frame("disconnect", ch, k)), 0, ch, j)
        BY <2>0, HangsUpFirst
      <4> QED BY <4>1, <3>1, <1>3
    <3>2. CASE ch # c0 \/ o = "data"
      <4>1. g \notin UpTo(ch, j) /\ open2[ch] = open[ch]
        <5>1. CASE ch # c0
          BY <5>1, <1>2, OtherFrame
        <5>2. CASE ch = c0 /\ o = "data"
          <6>1. g.op = "data"
            BY <5>2 DEF Frame
          <6> QED BY <6>1, <5>2, <1>3 DEF UpTo
        <5> QED BY <5>1, <5>2, <3>2
      <4> HIDE DEF g
      <4>2. Keeps(dn, up, open[ch], dn, Append(up, g), open[ch], ch, j)
        BY <2>0, <4>1, <1>1, UpSilent
      <4> QED BY <4>1, <4>2
    <3> QED BY <3>1, <3>2
  <2> HIDE DEF g
  <2> QED BY <2>1, <2>2, PairKeeps
<1>5. ASSUME AllSettled(s, dn, open) PROVE AllSettled(s, dn, open2)
  <2> SUFFICES ASSUME NEW ch \in 1 .. (Channels - 1)
               PROVE  Settled(dn, open2[ch], ch, multiplexer_find_client(s, ch))
    BY DEF AllSettled
  <2>1. Settled(dn, open[ch], ch, multiplexer_find_client(s, ch))
    BY <1>5 DEF AllSettled
  <2>2. Settled(dn, 0, ch, multiplexer_find_client(s, ch))
    BY <2>1, SettledMore
  <2>3. open2[ch] = open[ch] \/ open2[ch] = 0
    BY <1>2, <1>3
  <2> QED BY <2>1, <2>2, <2>3
<1> QED BY <1>4, <1>5

(* ConcatAppend, for all sequences of frames. *)
LEMMA FramesAppend == \A a, b \in Seq(Frames), f \in Frames : a \o Append(b, f) = Append(a \o b, f)
BY ConcatAppend

(* The emulator keeps the invariant of the channels when it reads. *)
LEMMA EmulatorChannel == HookInv /\ ChannelInv /\ EmulatorReads => ChannelInv'
<1> SUFFICES ASSUME HookInv, ChannelInv, EmulatorReads PROVE ChannelInv'
  OBVIOUS
<1> DEFINE f == Head(toEmu)
           dn == toEmu \o d.serialOut
<1>1. /\ toEmu # <<>> /\ d.status = "running" /\ toEmu' = Tail(toEmu)
      /\ UNCHANGED <<d, rude, crossed>>
  BY DEF EmulatorReads
<1>2. /\ d.serialOut \in Seq(Frames) /\ d.got \in Seq(Frames) /\ emu \in Emulators
      /\ toEmu \in Seq(Frames) /\ fromEmu \in Seq(Frames) /\ emu.open \in Opening
  BY DEF HookInv, QemudType, Memory, Emulators, Opening
<1>3. f \in Frames /\ f.ch \in 0 .. (Channels - 1) /\ f.conn \in Connections
  <2>1. f \in Frames
    BY <1>1, <1>2, TailIn
  <2> QED BY <2>1 DEF Frames
<1>4. dn # <<>> /\ dn \in Seq(Frames) /\ Head(dn) = f /\ Tail(dn) = toEmu' \o d.serialOut
  BY <1>1, <1>2, ConcatHead, SMTT(30)
<1>5. f = Frame(f.op, f.ch, f.conn)
  BY <1>3 DEF Frames, Frame
<1>6. \/ /\ f.op = "connect"
         /\ \/ emu' = [emu EXCEPT !.open[f.ch] = f.conn] /\ fromEmu' = Append(fromEmu, Frame("ok", f.ch, f.conn))
            \/ fromEmu' = Append(fromEmu, Frame("ko", f.ch, f.conn)) /\ emu' = emu
      \/ f.op = "disconnect" /\ emu' = [emu EXCEPT !.open[f.ch] = 0] /\ fromEmu' = fromEmu
      \/ f.op = "data" /\ emu' = emu /\ fromEmu' = fromEmu
  BY DEF EmulatorReads
<1>7. ASSUME NEW x, emu' = [emu EXCEPT !.open[f.ch] = x] PROVE emu'.open = [emu.open EXCEPT ![f.ch] = x]
  BY <1>7, <1>2 DEF Emulators
<1> HIDE DEF f, dn
<1>8. Up \in Seq(Frames)
  BY <1>2, ConcatProperties DEF Up
<1>9. ASSUME NEW o \in {"ok", "ko"}, fromEmu' = Append(fromEmu, Frame(o, f.ch, f.conn))
      PROVE  Up' = Append(Up, Frame(o, f.ch, f.conn)) /\ (None(Up, Connecting) => None(Up', Connecting))
  <2> DEFINE g == Frame(o, f.ch, f.conn)
  <2>0. o \in Ops
    BY DEF Ops
  <2>1. g \in Frames
    BY <2>0, <1>3, FrameType
  <2>2. g \notin Connecting
    <3>1. g.op = o
      BY DEF Frame
    <3> QED BY <3>1 DEF Connecting
  <2> HIDE DEF g
  <2>3. fromEmu' = Append(fromEmu, g)
    BY <1>9 DEF g
  <2>4. Up' = Append(Up, g)
    <3>1. d.got \o Append(fromEmu, g) = Append(d.got \o fromEmu, g)
      BY <2>1, <1>2, FramesAppend, Zenon
    <3>2. Up' = d.got \o Append(fromEmu, g)
      BY <2>3, <1>1 DEF Up
    <3> QED BY <3>1, <3>2 DEF Up
  <2>5. None(Up, Connecting) => None(Append(Up, g), Connecting)
    BY <2>1, <2>2, <1>8, NoneAppend
  <2> QED BY <2>4, <2>5 DEF g
<1>10. /\ None(Up, Connecting) => None(Up', Connecting)
       /\ Linked(d, dn, Up, emu.open) => Linked(d, Tail(dn), Up', emu'.open)
       /\ AllSettled(d, dn, emu.open) => AllSettled(d, Tail(dn), emu'.open)
  <2>1. CASE /\ f.op = "connect" /\ emu' = [emu EXCEPT !.open[f.ch] = f.conn]
             /\ fromEmu' = Append(fromEmu, Frame("ok", f.ch, f.conn))
    <3>1. Up' = Append(Up, Frame("ok", f.ch, f.conn)) /\ (None(Up, Connecting) => None(Up', Connecting))
      BY <2>1, <1>9
    <3>2. Head(dn) = Frame("connect", f.ch, f.conn)
      BY <2>1, <1>4, <1>5
    <3>3. emu'.open = [emu.open EXCEPT ![f.ch] = f.conn]
      BY <2>1, <1>7
    <3>4. /\ Linked(d, dn, Up, emu.open) => Linked(d, Tail(dn), Append(Up, Frame("ok", f.ch, f.conn)), emu'.open)
          /\ AllSettled(d, dn, emu.open) => AllSettled(d, Tail(dn), emu'.open)
      BY <3>2, <3>3, <1>2, <1>3, <1>4, <1>8, ConnectLinked, ZenonT(40)
    <3> QED BY <3>1, <3>4
  <2>2. CASE /\ f.op = "connect" /\ emu' = emu
             /\ fromEmu' = Append(fromEmu, Frame("ko", f.ch, f.conn))
    <3>1. Up' = Append(Up, Frame("ko", f.ch, f.conn)) /\ (None(Up, Connecting) => None(Up', Connecting))
      BY <2>2, <1>9
    <3>2. Head(dn) = Frame("connect", f.ch, f.conn)
      BY <2>2, <1>4, <1>5
    <3>3. emu'.open = emu.open
      BY <2>2
    <3>4. /\ Linked(d, dn, Up, emu.open) => Linked(d, Tail(dn), Append(Up, Frame("ko", f.ch, f.conn)), emu'.open)
          /\ AllSettled(d, dn, emu.open) => AllSettled(d, Tail(dn), emu'.open)
      BY <3>2, <3>3, <1>2, <1>3, <1>4, <1>8, ConnectLinked
    <3> QED BY <3>1, <3>4
  <2>3. CASE f.op = "disconnect" /\ emu' = [emu EXCEPT !.open[f.ch] = 0] /\ fromEmu' = fromEmu
    <3>1. Up' = Up
      BY <2>3, <1>1 DEF Up
    <3>2. emu'.open = [emu.open EXCEPT ![f.ch] = 0]
      BY <2>3, <1>7
    <3>3. /\ Linked(d, dn, Up, emu.open) => Linked(d, Tail(dn), Up, emu'.open)
          /\ AllSettled(d, dn, emu.open) => AllSettled(d, Tail(dn), emu'.open)
      BY <3>2, <2>3, <1>2, <1>3, <1>4, DisconnectLinked
    <3> QED BY <3>1, <3>3
  <2>4. CASE f.op = "data" /\ emu' = emu /\ fromEmu' = fromEmu
    <3>1. Up' = Up /\ emu'.open = emu.open
      BY <2>4, <1>1 DEF Up
    <3>2. /\ Linked(d, dn, Up, emu.open) => Linked(d, Tail(dn), Up, emu.open)
          /\ AllSettled(d, dn, emu.open) => AllSettled(d, Tail(dn), emu.open)
      BY <2>4, <1>4, DataLinked
    <3> QED BY <3>1, <3>2
  <2> QED BY <1>6, <2>1, <2>2, <2>3, <2>4
<1>11. ASSUME Agreed(d, toEmu, Up, emu.open, rude) PROVE Agreed(d, toEmu', Up', emu'.open, rude)
  <2>1. Linked(d, dn, Up, emu.open) /\ (rude \/ AllSettled(d, dn, emu.open))
    BY <1>11 DEF Agreed, dn
  <2>2. Linked(d, Tail(dn), Up', emu'.open) /\ (rude \/ AllSettled(d, Tail(dn), emu'.open))
    BY <2>1, <1>10
  <2> QED BY <2>2, <1>4 DEF Agreed
<1> QED BY <1>1, <1>10, <1>11 DEF ChannelInv

(* And when it speaks first. *)
LEMMA StartsChannel == ASSUME NEW ch \in 0 .. (Channels - 1)
                       PROVE  HookInv /\ ChannelInv /\ EmulatorStarts(ch) => ChannelInv'
<1> SUFFICES ASSUME HookInv, ChannelInv, EmulatorStarts(ch) PROVE ChannelInv'
  OBVIOUS
<1>1. emu.open[ch] # 0 /\ d.status = "running" /\ UNCHANGED <<d, toEmu, rude, crossed>>
  BY DEF EmulatorStarts
<1>2. /\ d.got \in Seq(Frames) /\ emu \in Emulators /\ fromEmu \in Seq(Frames) /\ emu.open \in Opening
  BY DEF HookInv, QemudType, Memory, Emulators, Opening
<1>3. PICK o \in {"data", "disconnect"} :
       /\ fromEmu' = Append(fromEmu, Frame(o, ch, emu.open[ch]))
       /\ emu' = [emu EXCEPT !.started = @ + 1, !.open[ch] = IF o = "data" THEN @ ELSE 0,
                              !.hungup = @ \/ o = "disconnect"]
  BY DEF EmulatorStarts
<1> DEFINE k == emu.open[ch]
           x == IF o = "data" THEN k ELSE 0
           g == Frame(o, ch, k)
           dn == toEmu \o d.serialOut
<1>4. k \in Connections
  BY <1>1, <1>2 DEF Opening
<1>5. emu'.open = [emu.open EXCEPT ![ch] = x]
  BY <1>3, <1>2 DEF Emulators
<1>6. \/ o = "data" /\ emu'.open = emu.open
      \/ o = "disconnect" /\ emu'.open = [emu.open EXCEPT ![ch] = 0]
  BY <1>2, <1>5 DEF Opening
<1>7. g \in Frames /\ g.op = o
  <2>0. o \in Ops
    BY DEF Ops
  <2>1. g \in Frames
    BY <2>0, <1>4, FrameType
  <2> QED BY <2>1 DEF Frame
<1>8. Up \in Seq(Frames)
  BY <1>2, ConcatProperties DEF Up
<1>9. Up' = Append(Up, g)
  <2>1. fromEmu' = Append(fromEmu, g)
    BY <1>3
  <2> HIDE DEF g
  <2>2. d.got \o Append(fromEmu, g) = Append(d.got \o fromEmu, g)
    BY <1>2, <1>7, FramesAppend, Zenon
  <2>3. Up' = d.got \o Append(fromEmu, g)
    BY <2>1, <1>1 DEF Up
  <2> QED BY <2>2, <2>3 DEF Up
<1>10. None(Up, Connecting) => None(Up', Connecting)
  <2>1. g \notin Connecting
    BY <1>7 DEF Connecting
  <2> HIDE DEF g
  <2> QED BY <2>1, <1>7, <1>8, <1>9, NoneAppend
<1> HIDE DEF k, x, dn
<1>11. /\ Linked(d, dn, Up, emu.open) => Linked(d, dn, Append(Up, Frame(o, ch, k)), emu'.open)
       /\ AllSettled(d, dn, emu.open) => AllSettled(d, dn, emu'.open)
  <2>1. emu.open[ch] = k
    BY DEF k
  <2> QED BY <2>1, <1>2, <1>4, <1>6, <1>8, StartsLinked
<1>12. ASSUME Agreed(d, toEmu, Up, emu.open, rude) PROVE Agreed(d, toEmu, Up', emu'.open, rude)
  <2>1. Linked(d, dn, Up, emu.open) /\ (rude \/ AllSettled(d, dn, emu.open))
    BY <1>12 DEF Agreed, dn
  <2>2. Linked(d, dn, Up', emu'.open) /\ (rude \/ AllSettled(d, dn, emu'.open))
    BY <2>1, <1>9, <1>11
  <2> QED BY <2>2 DEF Agreed, dn
<1> QED BY <1>1, <1>10, <1>12 DEF ChannelInv

(* The invariant of the channels is inductive, with that of the loop. *)
LEMMA NextChannel == HookInv /\ ChannelInv /\ [QemudNext]_qemudVars => ChannelInv'
<1> SUFFICES ASSUME HookInv, ChannelInv, [QemudNext]_qemudVars PROVE ChannelInv'
  OBVIOUS
<1>1. CASE EpollWait
  BY <1>1, WaitChannel
<1>2. CASE SerialReads
  BY <1>2, ReadsChannel
<1>3. CASE SerialReceives
  BY <1>3, ReceivesChannel
<1>4. CASE SerialWrites
  BY <1>4, WritesChannel
<1>5. CASE AcceptEvent
  BY <1>5, AcceptChannel
<1>6. ASSUME NEW k \in Connections, ClientEvent(k) PROVE ChannelInv'
  BY <1>6, ClientChannel
<1>7. CASE Sweep
  BY <1>7, SweepChannel
<1>8. CASE UNCHANGED <<d, toEmu, fromEmu, emu, rude, crossed>>
  BY <1>8 DEF ChannelInv, Up
<1>9. ASSUME NEW k \in Connections, ClientConnects(k) \/ ClientSends(k) \/ ClientCloses(k) PROVE ChannelInv'
  BY <1>8, <1>9 DEF ClientConnects, ClientSends, ClientCloses
<1>10. CASE EmulatorReads
  BY <1>10, EmulatorChannel
<1>11. ASSUME NEW ch \in 0 .. (Channels - 1), EmulatorStarts(ch) PROVE ChannelInv'
  BY <1>11, StartsChannel
<1>12. CASE UNCHANGED qemudVars
  BY <1>8, <1>12 DEF qemudVars
<1> QED BY <1>1, <1>2, <1>3, <1>4, <1>5, <1>6, <1>7, <1>9, <1>10, <1>11, <1>12 DEF QemudNext, Daemon

(* With nothing on the way no client is waiting, and a registered one is   *)
(* served.                                                                 *)
LEMMA QuietEmpty ==
  ASSUME NEW op, NEW ch, NEW k
  PROVE  /\ ~Waiting(<<>>, <<>>, op, ch, k)
         /\ Serving(<<>>, <<>>, op, ch, k) => op = k
<1>1. 1 .. Len(<<>>) = {}
  BY EmptySeq
<1>2. \A F : None(<<>>, F)
  BY NoneEmpty
<1>3. ~Last(<<>>, DownOn(ch), DownBy(ch, k), Frame("connect", ch, k))
  BY <1>1 DEF Last
<1>4. ~Single(<<>>, UpTo(ch, k), Frame("ko", ch, k))
  BY <1>1 DEF Single
<1> QED BY <1>2, <1>3, <1>4 DEF Waiting, Asked, Refused, Serving

(* The two invariants give the agreement that the run checks. *)
LEMMA InvAgree == HookInv /\ ChannelInv => ChannelsAgree
<1> SUFFICES ASSUME HookInv, ChannelInv PROVE ChannelsAgree
  OBVIOUS
<1>1. \A j, k \in LiveClients(d) : d.c[j].channel = d.c[k].channel /\ j # k => d.c[j].channel = -1
  BY DEF ChannelInv, Apart, LiveClients
<1>2. ASSUME d.status = "running", d.phase = "wait", ~crossed, toEmu = <<>>, fromEmu = <<>>, d.serialOut = <<>>,
             NEW ch \in 1 .. (Channels - 1)
      PROVE  /\ emu.open[ch] # 0 =>
                   \/ rude
                   \/ d.c[emu.open[ch]].channel = ch /\ d.c[emu.open[ch]].registered
             /\ \A k \in LiveClients(d) : d.c[k].registered /\ d.c[k].channel = ch => emu.open[ch] = k
  <2>1. d.got = <<>>
    BY <1>2 DEF HookInv, LoopInv
  <2>2. Up = <<>> /\ toEmu \o d.serialOut = <<>>
    BY <1>2, <2>1, EmptyConcat DEF Up
  <2>3. Linked(d, <<>>, <<>>, emu.open) /\ (rude \/ AllSettled(d, <<>>, emu.open))
    BY <1>2, <2>2 DEF ChannelInv, Agreed
  <2>4. \A k \in Connections : Pair(d, <<>>, <<>>, emu.open[ch], ch, k)
    BY <2>3 DEF Linked
  <2>5. ASSUME NEW k \in Connections, Hold(d, k, ch) PROVE d.c[k].registered /\ emu.open[ch] = k
    <3>1. Pair(d, <<>>, <<>>, emu.open[ch], ch, k)
      BY <2>4
    <3>2. d.c[k].registered
      BY <3>1, <2>5, QuietEmpty DEF Pair
    <3>3. Serving(<<>>, <<>>, emu.open[ch], ch, k)
      BY <3>1, <3>2, <2>5 DEF Pair
    <3> QED BY <3>2, <3>3, QuietEmpty
  <2>6. ASSUME emu.open[ch] # 0, ~rude
        PROVE  d.c[emu.open[ch]].channel = ch /\ d.c[emu.open[ch]].registered
    <3>1. Settled(<<>>, emu.open[ch], ch, multiplexer_find_client(d, ch))
      BY <2>3, <2>6 DEF AllSettled
    <3>2. emu.open[ch] \in multiplexer_find_client(d, ch)
      BY <3>1, <2>6, NoneEmpty DEF Settled
    <3>3. emu.open[ch] \in Connections /\ Hold(d, emu.open[ch], ch)
      BY <3>2, HoldIs
    <3> QED BY <3>3, <2>5 DEF Hold
  <2>7. \A k \in LiveClients(d) : d.c[k].registered /\ d.c[k].channel = ch => emu.open[ch] = k
    BY <2>5 DEF LiveClients, Hold
  <2> QED BY <2>6, <2>7
<1> QED BY <1>1, <1>2 DEF ChannelsAgree

(* Both invariants hold in every reachable state. *)
LEMMA AlwaysChannel == QemudSpec => [](HookInv /\ ChannelInv)
BY InitHook, NextHook, InitChannel, NextChannel, PTL DEF QemudSpec

(* No two live clients have the same channel, and once every frame has     *)
(* been read the emulator serves a channel above 0 exactly for the         *)
(* registered client that owns it, unless an answer or a disconnect        *)
(* reached a client it was not for, or a client was thrown out:            *)
(* multiplexer_open_channel, multiplexer_handle_control and                *)
(* client_fd_close agree with the emulator for any number of connections   *)
(* and channels.                                                           *)
THEOREM ChannelsInAgreement == QemudSpec => []ChannelsAgree
BY AlwaysChannel, InvAgree, PTL

=============================================================================
