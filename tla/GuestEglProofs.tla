--------------------------- MODULE GuestEglProofs ---------------------------
(***************************************************************************)
(* EGL and gralloc of the guest with their host, for any finite number of  *)
(* threads and any contexts, surfaces and buffers, any size of the pipes   *)
(* and any number of handles.                                              *)
(***************************************************************************)
EXTENDS GuestEgl, FiniteSetTheorems, SequenceTheorems, TLAPS

(* The commands of the streams, and what a stream holds. *)
Commands == ({"destroyContext", "destroyWindow"} \X Nat)
            \cup ({"setWindow"} \X Nat \X Buffers)
            \cup ({"close"} \X Buffers) \cup {<<"eof">>}
Stream == [buf : Seq(Commands), pipe : Seq(Commands)]

Kept(t) == Range(conn[t].buf)
Sent(t) == Range(conn[t].pipe)
OnTheWay(t) == Kept(t) \cup Sent(t)

GoneThreads == {t \in Threads : thr[t].call.pc = "gone"}

----------------------------------------------------------------------------
(* The inductive invariant. *)

Binding == [ctx : Nat, draw : Nat]
Call == [pc : {"idle", "creating context", "binding", "registering", "creating window", "swapping",
               "dequeuing", "gone"},
         ctx : Ctxs \cup {0}, surf : Surfs \cup {0}, buffer : Buffers \cup {0},
         bind : Binding, lost : BOOLEAN]
ThreadInfo == [call : Call, currentContext : Ctxs \cup {0}]
Context == [live : BOOLEAN, rc : Nat, isCurrent : BOOLEAN, draw : Surfs \cup {0},
            deletePending : BOOLEAN, by : Threads \cup {""}]
Surface == [live : BOOLEAN, rc : Nat, buffer : Buffers \cup {0}, by : Threads \cup {""}]
Window == [by : Threads, buffer : Buffers \cup {0}]

Handed == 1 .. (next - 1)

TypeOK ==
  /\ thr \in [Threads -> ThreadInfo]
  /\ ctx \in [Ctxs -> Context] /\ surf \in [Surfs -> Surface]
  /\ conn \in [Conns -> Stream]
  /\ slot \in [Buffers -> {"none", "free", "dequeued", "queued", "freed"}]
  /\ held \in [Buffers -> SUBSET {"app", "sf"}]
  /\ next \in Nat \ {0}
  /\ DOMAIN contexts \subseteq Handed /\ \A h \in DOMAIN contexts : contexts[h] \in Threads
  /\ DOMAIN windows \subseteq Handed /\ \A h \in DOMAIN windows : windows[h] \in Window
  /\ count \in [Buffers -> Nat]
  /\ current \in [Threads -> Binding]
  /\ loose \subseteq Threads /\ miscounted \subseteq Buffers
  /\ dead \in BOOLEAN /\ undefined \in BOOLEAN

(* What the call a thread is in has read, written or asked for. *)
Shape(call) ==
  /\ call.lost => call.pc = "binding"
  /\ call.pc \in {"registering", "creating window"} => call.buffer # 0
  /\ call.pc \in {"swapping", "dequeuing"} => call.surf # 0
  /\ call.pc = "binding" =>
       IF call.ctx = 0 THEN call.surf = 0 /\ call.bind = Nothing
       ELSE call.surf # 0 /\ call.bind.ctx # 0 /\ call.bind.draw # 0
CallShape == \A t \in Threads : Shape(thr[t].call)

(* Memory that is in use holds a handle of the host, each its own. *)
Objects ==
  /\ \A c \in Ctxs : IF ctx[c].live THEN ctx[c].rc \in Handed /\ ctx[c].by \in Threads
                     ELSE ctx[c] = NoContext
  /\ \A s \in Surfs : IF surf[s].live THEN surf[s].rc \in Handed /\ surf[s].by \in Threads
                      ELSE surf[s] = NoSurface
  /\ \A c, d \in Ctxs : c # d /\ ctx[c].live /\ ctx[d].live => ctx[c].rc # ctx[d].rc
  /\ \A r, s \in Surfs : r # s /\ surf[r].live /\ surf[s].live => surf[r].rc # surf[s].rc

(* Until the thread that created it ends, an object in use is in the table *)
(* of the host, as the property of that thread.                            *)
InTables ==
  /\ \A c \in Ctxs : ctx[c].live /\ ctx[c].by \notin GoneThreads =>
       ctx[c].rc \in DOMAIN contexts /\ contexts[ctx[c].rc] = ctx[c].by
  /\ \A s \in Surfs : surf[s].live /\ surf[s].by \notin GoneThreads =>
       surf[s].rc \in DOMAIN windows /\ windows[surf[s].rc].by = surf[s].by

(* No command on the way destroys an object in use, whoever has sent it.   *)
DestroyedAreFreed ==
  \A t \in Conns, h \in Nat :
    /\ rcDestroyContext(h) \in OnTheWay(t) =>
         h < next /\ \A c \in Ctxs : ctx[c].live => ctx[c].rc # h
    /\ rcDestroyWindowSurface(h) \in OnTheWay(t) =>
         h < next /\ \A s \in Surfs : surf[s].live => surf[s].rc # h

(* The end of a stream is sent, not kept, and only by a thread that ends;  *)
(* as long as it has not arrived the host may have objects of the thread,  *)
(* and afterwards it has none.                                             *)
Ends ==
  /\ \A t \in Conns : /\ <<"eof">> \notin Kept(t)
                      /\ <<"eof">> \in Sent(t) => t \in GoneThreads
  /\ \A t \in GoneThreads :
       (\E h \in DOMAIN contexts : contexts[h] = t) \/ (\E h \in DOMAIN windows : windows[h].by = t)
         => <<"eof">> \in Sent(t)
  /\ dead => GoneThreads = Threads

(* BindingsAgree in the middle of calls: what the guest holds for current  *)
(* exists and is what the host has, unless it has just been given up.      *)
Bound ==
  \A t \in Threads \ loose : thr[t].call.pc # "gone" /\ ~thr[t].call.lost =>
    LET c == thr[t].currentContext IN
    IF c = 0 THEN current[t] = Nothing
    ELSE /\ ctx[c].live /\ ctx[c].draw # 0 /\ surf[ctx[c].draw].live
         /\ current[t] = [ctx |-> ctx[c].rc, draw |-> surf[ctx[c].draw].rc]

(* Before it is allocated nobody knows a buffer; no closing is kept.       *)
BuffersKnown ==
  /\ \A b \in Buffers : slot[b] = "none" =>
       /\ held[b] = {}
       /\ \A t \in Threads : thr[t].call.buffer # b
       /\ \A t \in Conns : <<"close", b>> \notin Sent(t)
  /\ \A t \in Conns, b \in Buffers : <<"close", b>> \notin Kept(t)

Safe == TypeOK /\ CallShape /\ Objects /\ InTables /\ DestroyedAreFreed /\ Ends /\ Bound
Counted == BuffersKnown /\ BuffersCounted

----------------------------------------------------------------------------
(* What a stream holds after it was written, flushed or read. *)

(* The elements of sequences put together. *)
LEMMA RangeConcat == ASSUME NEW S, NEW s \in Seq(S), NEW u \in Seq(S)
                     PROVE Range(s \o u) = Range(s) \cup Range(u)
<1>1. Len(s \o u) = Len(s) + Len(u) /\ Len(s) \in Nat /\ Len(u) \in Nat
  OBVIOUS
<1>2. DOMAIN s = 1 .. Len(s) /\ DOMAIN u = 1 .. Len(u) /\ DOMAIN (s \o u) = 1 .. (Len(s) + Len(u))
  OBVIOUS
<1>3. ASSUME NEW x \in Range(s \o u) PROVE x \in Range(s) \cup Range(u)
  <2>1. PICK i \in DOMAIN (s \o u) : x = (s \o u)[i]
    BY <1>3 DEF Range
  <2>2. CASE i <= Len(s)
    <3>1. i \in DOMAIN s /\ x = s[i]
      BY <1>1, <1>2, <2>1, <2>2
    <3>. QED
      BY <3>1 DEF Range
  <2>3. CASE ~(i <= Len(s))
    <3>1. i - Len(s) \in DOMAIN u /\ x = u[i - Len(s)]
      BY <1>1, <1>2, <2>1, <2>3
    <3>. QED
      BY <3>1 DEF Range
  <2>. QED
    BY <2>2, <2>3
<1>4. ASSUME NEW x \in Range(s) PROVE x \in Range(s \o u)
  <2>1. PICK i \in DOMAIN s : x = s[i]
    BY <1>4 DEF Range
  <2>2. i \in DOMAIN (s \o u) /\ x = (s \o u)[i]
    BY <1>1, <1>2, <2>1
  <2>. QED
    BY <2>2 DEF Range
<1>5. ASSUME NEW x \in Range(u) PROVE x \in Range(s \o u)
  <2>1. PICK i \in DOMAIN u : x = u[i]
    BY <1>5 DEF Range
  <2>2. Len(s) + i \in DOMAIN (s \o u) /\ x = (s \o u)[Len(s) + i]
    BY <1>1, <1>2, <2>1
  <2>. QED
    BY <2>2 DEF Range
<1>. QED
  BY <1>3, <1>4, <1>5

(* The elements of short sequences. *)
LEMMA RangeShort == /\ Range(<<>>) = {}
                    /\ \A x : Range(<<x>>) = {x}
<1>1. Range(<<>>) = {}
  BY DEF Range
<1>2. ASSUME NEW x PROVE Range(<<x>>) = {x}
  <2>1. DOMAIN <<x>> = {1} /\ <<x>>[1] = x
    OBVIOUS
  <2>. QED
    BY <2>1 DEF Range
<1>. QED
  BY <1>1, <1>2

(* The elements of a sequence that grows by one. *)
LEMMA RangeAppend == ASSUME NEW S, NEW s \in Seq(S), NEW x \in S
                     PROVE /\ Append(s, x) \in Seq(S)
                           /\ Range(Append(s, x)) = Range(s) \cup {x}
<1>1. Append(s, x) = s \o <<x>> /\ <<x>> \in Seq(S) /\ Append(s, x) \in Seq(S)
  OBVIOUS
<1>2. Range(s \o <<x>>) = Range(s) \cup Range(<<x>>)
  BY <1>1, RangeConcat
<1>3. Range(<<x>>) = {x}
  BY RangeShort
<1>. QED
  BY <1>1, <1>2, <1>3

(* The first element of a sequence and the others. *)
LEMMA RangeTail == ASSUME NEW S, NEW s \in Seq(S), s # <<>>
                   PROVE /\ Head(s) \in S /\ Tail(s) \in Seq(S)
                         /\ Range(s) = {Head(s)} \cup Range(Tail(s))
<1>1. Head(s) \in S /\ Tail(s) \in Seq(S) /\ s = <<Head(s)>> \o Tail(s) /\ <<Head(s)>> \in Seq(S)
  OBVIOUS
<1>2. Range(<<Head(s)>> \o Tail(s)) = Range(<<Head(s)>>) \cup Range(Tail(s))
  BY <1>1, RangeConcat
<1>. QED
  BY <1>1, <1>2, RangeShort

(* Commands are told apart by their names. *)
LEMMA CommandShapes ==
  /\ \A h \in Nat : rcDestroyContext(h) \in Commands /\ rcDestroyWindowSurface(h) \in Commands
  /\ \A h \in Nat, b \in Buffers : rcSetWindowColorBuffer(h, b) \in Commands
  /\ \A b \in Buffers : <<"close", b>> \in Commands
  /\ <<"eof">> \in Commands
  /\ \A x \in Commands :
       /\ x[1] = "destroyContext" => x[2] \in Nat /\ x = rcDestroyContext(x[2])
       /\ x[1] = "destroyWindow" => x[2] \in Nat /\ x = rcDestroyWindowSurface(x[2])
       /\ x[1] = "setWindow" => x[2] \in Nat /\ x[3] \in Buffers
       /\ x[1] = "close" => x[2] \in Buffers /\ x = <<"close", x[2]>>
       /\ x[1] = "eof" => x = <<"eof">>
BY DEF Commands, rcDestroyContext, rcDestroyWindowSurface, rcSetWindowColorBuffer

(* A flush. *)
LEMMA FlushedEffect ==
  ASSUME TypeOK, NEW t \in Conns, NEW cmds \in Seq(Commands), conn' = Flushed(t, cmds)
  PROVE  /\ conn' \in [Conns -> Stream]
         /\ conn'[t].pipe = (conn[t].pipe \o conn[t].buf) \o cmds
         /\ Kept(t)' = {} /\ Sent(t)' = OnTheWay(t) \cup Range(cmds)
         /\ \A u \in Conns \ {t} : conn'[u] = conn[u]
<1>1. conn \in [Conns -> Stream] /\ conn[t] \in Stream
  BY DEF TypeOK
<1>2. conn[t].buf \in Seq(Commands) /\ conn[t].pipe \in Seq(Commands)
  BY <1>1 DEF Stream
<1>3. PICK p \in Seq(Commands) : p = conn[t].pipe \o conn[t].buf
  <2>1. conn[t].pipe \o conn[t].buf \in Seq(Commands)
    BY <1>2
  <2>. QED
    BY <2>1
<1>4. conn'[t] = [buf |-> <<>>, pipe |-> p \o cmds]
  BY <1>1, <1>3 DEF Flushed
<1>5. \A u \in Conns \ {t} : conn'[u] = conn[u]
  BY <1>1 DEF Flushed
<1>6. p \o cmds \in Seq(Commands)
  BY <1>3
<1>7. conn'[t] \in Stream
  BY <1>4, <1>6 DEF Stream
<1>8. conn' \in [Conns -> Stream]
  BY <1>1, <1>5, <1>7 DEF Flushed
<1>9. conn'[t].buf = <<>> /\ conn'[t].pipe = p \o cmds
  BY <1>4
<1>10. Kept(t)' = {}
  BY <1>9, RangeShort DEF Kept
<1>11. Range(p) = OnTheWay(t)
  BY <1>2, <1>3, RangeConcat DEF OnTheWay, Sent, Kept
<1>12. Range(p \o cmds) = Range(p) \cup Range(cmds)
  BY <1>3, RangeConcat
<1>13. Sent(t)' = OnTheWay(t) \cup Range(cmds)
  BY <1>9, <1>11, <1>12 DEF Sent
<1>. QED
  BY <1>3, <1>5, <1>8, <1>9, <1>10, <1>13

(* A command that waits for the next flush. *)
LEMMA EncodedEffect ==
  ASSUME TypeOK, NEW t \in Conns, NEW cmd \in Commands, conn' = Encoded(t, cmd)
  PROVE  /\ conn' \in [Conns -> Stream]
         /\ conn'[t].pipe = conn[t].pipe
         /\ Kept(t)' = Kept(t) \cup {cmd} /\ Sent(t)' = Sent(t)
         /\ \A u \in Conns \ {t} : conn'[u] = conn[u]
<1>1. conn \in [Conns -> Stream] /\ conn[t] \in Stream
  BY DEF TypeOK
<1>2. conn[t].buf \in Seq(Commands) /\ conn[t].pipe \in Seq(Commands)
  BY <1>1 DEF Stream
<1>3. conn'[t] = [conn[t] EXCEPT !.buf = Append(conn[t].buf, cmd)]
  BY <1>1 DEF Encoded
<1>4. \A u \in Conns \ {t} : conn'[u] = conn[u]
  BY <1>1 DEF Encoded
<1>5. /\ Append(conn[t].buf, cmd) \in Seq(Commands)
      /\ Range(Append(conn[t].buf, cmd)) = Range(conn[t].buf) \cup {cmd}
  BY <1>2, RangeAppend
<1>6. conn'[t].buf = Append(conn[t].buf, cmd) /\ conn'[t].pipe = conn[t].pipe
  BY <1>1, <1>3 DEF Stream
<1>7. conn'[t] \in Stream
  BY <1>1, <1>3, <1>5 DEF Stream
<1>8. conn' \in [Conns -> Stream]
  BY <1>1, <1>4, <1>7 DEF Encoded
<1>. QED
  BY <1>4, <1>5, <1>6, <1>8 DEF Kept, Sent

(* A command that is executed. *)
LEMMA ExecutedEffect ==
  ASSUME TypeOK, NEW t \in Conns, conn[t].pipe # <<>>,
         conn' = [conn EXCEPT ![t].pipe = Tail(@)]
  PROVE  /\ conn' \in [Conns -> Stream]
         /\ conn'[t].pipe = Tail(conn[t].pipe)
         /\ Head(conn[t].pipe) \in Commands
         /\ Kept(t)' = Kept(t) /\ Sent(t) = {Head(conn[t].pipe)} \cup Sent(t)'
         /\ \A u \in Conns \ {t} : conn'[u] = conn[u]
<1>1. conn \in [Conns -> Stream] /\ conn[t] \in Stream
  BY DEF TypeOK
<1>2. conn[t].buf \in Seq(Commands) /\ conn[t].pipe \in Seq(Commands)
  BY <1>1 DEF Stream
<1>3. conn'[t] = [conn[t] EXCEPT !.pipe = Tail(conn[t].pipe)]
  BY <1>1
<1>4. \A u \in Conns \ {t} : conn'[u] = conn[u]
  BY <1>1
<1>5. /\ Head(conn[t].pipe) \in Commands /\ Tail(conn[t].pipe) \in Seq(Commands)
      /\ Range(conn[t].pipe) = {Head(conn[t].pipe)} \cup Range(Tail(conn[t].pipe))
  BY <1>2, RangeTail
<1>6. conn'[t].pipe = Tail(conn[t].pipe) /\ conn'[t].buf = conn[t].buf
  BY <1>1, <1>3 DEF Stream
<1>7. conn'[t] \in Stream
  BY <1>1, <1>3, <1>5 DEF Stream
<1>8. conn' \in [Conns -> Stream]
  BY <1>1, <1>4, <1>7
<1>. QED
  BY <1>4, <1>5, <1>6, <1>8 DEF Kept, Sent

----------------------------------------------------------------------------
(* The calls of the threads. *)

(* A call is described by a record of its own. *)
LEMMA IdleCall == /\ Idle \in Call /\ Shape(Idle)
                  /\ Idle.pc = "idle" /\ Idle.ctx = 0 /\ Idle.surf = 0 /\ Idle.buffer = 0
                  /\ Idle.bind = Nothing /\ Idle.lost = FALSE
BY DEF Idle, Call, Shape, Nothing, Binding

(* A thread that goes on. *)
LEMMA GoesEffect ==
  ASSUME TypeOK, CallShape, NEW t \in Threads, NEW call \in Call, Shape(call), Goes(t, call)
  PROVE  /\ thr' \in [Threads -> ThreadInfo] /\ CallShape'
         /\ thr'[t].call = call
         /\ \A u \in Threads : thr'[u].currentContext = thr[u].currentContext
         /\ \A u \in Threads \ {t} : thr'[u] = thr[u]
         /\ thr[t].call.pc # "gone" /\ call.pc # "gone" => GoneThreads' = GoneThreads
<1>1. thr \in [Threads -> ThreadInfo] /\ thr[t] \in ThreadInfo
  BY DEF TypeOK
<1>2. thr'[t] = [thr[t] EXCEPT !.call = call]
  BY <1>1 DEF Goes
<1>3. \A u \in Threads \ {t} : thr'[u] = thr[u]
  BY <1>1 DEF Goes
<1>4. thr'[t].call = call /\ thr'[t].currentContext = thr[t].currentContext /\ thr'[t] \in ThreadInfo
  BY <1>1, <1>2 DEF ThreadInfo
<1>5. thr' \in [Threads -> ThreadInfo]
  BY <1>1, <1>3, <1>4 DEF Goes
<1>6. CallShape'
  <2>1. ASSUME NEW u \in Threads PROVE Shape(thr'[u].call)
    BY <1>3, <1>4 DEF CallShape
  <2>. QED
    BY <2>1 DEF CallShape, Shape
<1>7. thr[t].call.pc # "gone" /\ call.pc # "gone" => GoneThreads' = GoneThreads
  BY <1>3, <1>4 DEF GoneThreads
<1>. QED
  BY <1>3, <1>4, <1>5, <1>6, <1>7

(* The calls that ask the host for something. *)
LEMMA AskingCalls ==
  /\ [Idle EXCEPT !.pc = "creating context"] \in Call
  /\ Shape([Idle EXCEPT !.pc = "creating context"])
  /\ [Idle EXCEPT !.pc = "creating context"].pc = "creating context"
  /\ [Idle EXCEPT !.pc = "creating context"].lost = FALSE
  /\ [Idle EXCEPT !.pc = "creating context"].buffer = 0
  /\ \A b \in Buffers : /\ [Idle EXCEPT !.buffer = b, !.pc = "registering"] \in Call
                        /\ Shape([Idle EXCEPT !.buffer = b, !.pc = "registering"])
                        /\ [Idle EXCEPT !.buffer = b, !.pc = "registering"].pc = "registering"
                        /\ [Idle EXCEPT !.buffer = b, !.pc = "registering"].lost = FALSE
                        /\ [Idle EXCEPT !.buffer = b, !.pc = "registering"].buffer = b
  /\ \A s \in Surfs : /\ [Idle EXCEPT !.pc = "swapping", !.surf = s] \in Call
                      /\ Shape([Idle EXCEPT !.pc = "swapping", !.surf = s])
                      /\ [Idle EXCEPT !.pc = "swapping", !.surf = s].pc = "swapping"
                      /\ [Idle EXCEPT !.pc = "swapping", !.surf = s].lost = FALSE
                      /\ [Idle EXCEPT !.pc = "swapping", !.surf = s].buffer = 0
BY EglAssumption DEF Idle, Call, Shape, Nothing, Binding

(* The calls that go on to their next question. *)
LEMMA FollowingCalls ==
  ASSUME NEW call \in Call, Shape(call)
  PROVE  /\ call.pc = "registering" =>
              LET next1 == [call EXCEPT !.pc = "creating window"] IN
              /\ next1 \in Call /\ Shape(next1)
              /\ next1.pc = "creating window" /\ next1.lost = FALSE /\ next1.buffer = call.buffer
         /\ call.pc = "swapping" =>
              LET next2 == [call EXCEPT !.pc = "dequeuing"] IN
              /\ next2 \in Call /\ Shape(next2)
              /\ next2.pc = "dequeuing" /\ next2.lost = FALSE /\ next2.buffer = call.buffer
         /\ call.pc = "dequeuing" => \A b \in Buffers :
              LET next3 == [call EXCEPT !.buffer = b, !.pc = "registering"] IN
              /\ next3 \in Call /\ Shape(next3)
              /\ next3.pc = "registering" /\ next3.lost = FALSE /\ next3.buffer = b
BY EglAssumption DEF Call, Shape

----------------------------------------------------------------------------
(* Steps that neither create nor destroy an object. *)

SameObjects ==
  /\ next' = next /\ dead' = dead /\ GoneThreads' = GoneThreads /\ contexts' = contexts
  /\ \A c \in Ctxs : /\ ctx'[c].live = ctx[c].live /\ ctx'[c].rc = ctx[c].rc /\ ctx'[c].by = ctx[c].by
                     /\ ~ctx[c].live => ctx'[c] = ctx[c]
  /\ \A s \in Surfs : /\ surf'[s].live = surf[s].live /\ surf'[s].rc = surf[s].rc
                      /\ surf'[s].by = surf[s].by
                      /\ ~surf[s].live => surf'[s] = surf[s]
  /\ DOMAIN windows' = DOMAIN windows /\ \A h \in DOMAIN windows : windows'[h].by = windows[h].by

Harmless == {x \in Commands : x[1] \in {"close", "setWindow"}}
StreamsGain(cmds) ==
  \A u \in Conns : /\ Kept(u)' \subseteq Kept(u) \cup cmds
                   /\ OnTheWay(u)' \subseteq OnTheWay(u) \cup cmds
                   /\ <<"eof">> \in Sent(u) => <<"eof">> \in Sent(u)'
SameStreams == StreamsGain(Harmless)

(* Whoever is bound after the step was bound before, to the same. *)
SameBindings ==
  \A u \in Threads \ loose' : thr'[u].call.pc # "gone" /\ ~thr'[u].call.lost =>
    /\ u \notin loose /\ thr[u].call.pc # "gone" /\ ~thr[u].call.lost
    /\ current'[u] = current[u] /\ thr'[u].currentContext = thr[u].currentContext
    /\ thr[u].currentContext # 0 /\ ctx[thr[u].currentContext].live =>
         /\ ctx'[thr[u].currentContext].live
         /\ ctx'[thr[u].currentContext].rc = ctx[thr[u].currentContext].rc
         /\ ctx'[thr[u].currentContext].draw = ctx[thr[u].currentContext].draw
         /\ \A s \in Surfs : s = ctx[thr[u].currentContext].draw /\ surf[s].live =>
              surf'[s].live /\ surf'[s].rc = surf[s].rc

(* No harmless command destroys an object or ends a stream. *)
LEMMA HarmlessCommands ==
  /\ <<"eof">> \notin Harmless
  /\ \A h \in Nat : rcDestroyContext(h) \notin Harmless /\ rcDestroyWindowSurface(h) \notin Harmless
BY DEF Harmless, rcDestroyContext, rcDestroyWindowSurface

(* Such a step preserves what is said of objects, tables and streams. *)
LEMMA ObjectsKept ==
  ASSUME Safe, SameObjects, SameStreams
  PROVE  (Objects /\ InTables /\ DestroyedAreFreed /\ Ends)'
<1> USE DEF Safe
<1>1. Objects'
  BY DEF Objects, SameObjects, Handed
<1>2. InTables'
  BY DEF InTables, SameObjects
<1>3. DestroyedAreFreed'
  <2>1. ASSUME NEW t \in Conns, NEW h \in Nat, rcDestroyContext(h) \in OnTheWay(t)'
        PROVE  h < next' /\ \A c \in Ctxs : ctx'[c].live => ctx'[c].rc # h
    <3>1. rcDestroyContext(h) \in OnTheWay(t)
      BY <2>1, HarmlessCommands DEF SameStreams, StreamsGain
    <3>. QED
      BY <3>1 DEF DestroyedAreFreed, SameObjects
  <2>2. ASSUME NEW t \in Conns, NEW h \in Nat, rcDestroyWindowSurface(h) \in OnTheWay(t)'
        PROVE  h < next' /\ \A s \in Surfs : surf'[s].live => surf'[s].rc # h
    <3>1. rcDestroyWindowSurface(h) \in OnTheWay(t)
      BY <2>2, HarmlessCommands DEF SameStreams, StreamsGain
    <3>. QED
      BY <3>1 DEF DestroyedAreFreed, SameObjects
  <2>. QED
    BY <2>1, <2>2 DEF DestroyedAreFreed
<1>4. Ends'
  <2>1. ASSUME NEW t \in Conns PROVE <<"eof">> \notin Kept(t)' /\ (<<"eof">> \in Sent(t)' => t \in GoneThreads')
    <3>1. <<"eof">> \notin Kept(t) /\ (<<"eof">> \in Sent(t) => t \in GoneThreads)
      BY DEF Ends
    <3>2. Kept(t)' \subseteq Kept(t) \cup Harmless /\ OnTheWay(t)' \subseteq OnTheWay(t) \cup Harmless
      BY DEF SameStreams, StreamsGain
    <3>. QED
      BY <3>1, <3>2, HarmlessCommands DEF OnTheWay, SameObjects
  <2>2. ASSUME NEW t \in GoneThreads',
               (\E h \in DOMAIN contexts' : contexts'[h] = t) \/ (\E h \in DOMAIN windows' : windows'[h].by = t)
        PROVE  <<"eof">> \in Sent(t)'
    <3>1. t \in GoneThreads /\ t \in Conns
      BY DEF SameObjects, GoneThreads, Conns
    <3>2. (\E h \in DOMAIN contexts : contexts[h] = t) \/ (\E h \in DOMAIN windows : windows[h].by = t)
      BY <2>2 DEF SameObjects
    <3>3. <<"eof">> \in Sent(t)
      BY <3>1, <3>2 DEF Ends
    <3>. QED
      BY <3>1, <3>3 DEF SameStreams, StreamsGain
  <2>3. dead' => GoneThreads' = Threads'
    BY DEF Ends, SameObjects
  <2>. QED
    BY <2>1, <2>2, <2>3 DEF Ends
<1>. QED
  BY <1>1, <1>2, <1>3, <1>4

(* It also preserves the bindings. *)
LEMMA BindingsKept ==
  ASSUME Safe, SameBindings, TypeOK'
  PROVE  Bound'
<1> USE DEF Safe
<1>1. ASSUME NEW u \in Threads \ loose', thr'[u].call.pc # "gone" /\ ~thr'[u].call.lost
      PROVE  LET c == thr'[u].currentContext IN
             IF c = 0 THEN current'[u] = Nothing
             ELSE /\ ctx'[c].live /\ ctx'[c].draw # 0 /\ surf'[ctx'[c].draw].live
                  /\ current'[u] = [ctx |-> ctx'[c].rc, draw |-> surf'[ctx'[c].draw].rc]
  <2>1. /\ u \notin loose /\ thr[u].call.pc # "gone" /\ ~thr[u].call.lost
        /\ current'[u] = current[u] /\ thr'[u].currentContext = thr[u].currentContext
    BY <1>1 DEF SameBindings
  <2>2. PICK c \in Ctxs \cup {0} : c = thr[u].currentContext
    BY DEF TypeOK, ThreadInfo
  <2>3. CASE c = 0
    BY <2>1, <2>2, <2>3 DEF Bound
  <2>4. CASE c # 0
    <3>1. /\ ctx[c].live /\ ctx[c].draw # 0 /\ surf[ctx[c].draw].live
          /\ current[u] = [ctx |-> ctx[c].rc, draw |-> surf[ctx[c].draw].rc]
      BY <2>1, <2>2, <2>4 DEF Bound
    <3>2. PICK s \in Surfs : s = ctx[c].draw
      BY <2>4, <3>1 DEF TypeOK, Context
    <3>3. /\ ctx'[c].live /\ ctx'[c].rc = ctx[c].rc /\ ctx'[c].draw = s
          /\ surf'[s].live /\ surf'[s].rc = surf[s].rc
      BY <1>1, <2>2, <2>4, <3>1, <3>2 DEF SameBindings
    <3>. QED
      BY <2>1, <2>2, <2>4, <3>1, <3>2, <3>3
  <2>. QED
    BY <2>3, <2>4
<1>. QED
  BY <1>1 DEF Bound

Quiet == SameObjects /\ SameStreams /\ SameBindings

(* Both together. *)
LEMMA QuietSafe == ASSUME Safe, TypeOK', CallShape', Quiet PROVE Safe'
BY ObjectsKept, BindingsKept DEF Safe, Quiet

(* A flush without commands that destroy. *)
LEMMA FlushSame ==
  ASSUME TypeOK, NEW t \in Conns, NEW cmds \in Seq(Commands), Range(cmds) \subseteq Harmless,
         conn' = Flushed(t, cmds)
  PROVE  conn' \in [Conns -> Stream] /\ SameStreams
<1>1. /\ conn' \in [Conns -> Stream] /\ Kept(t)' = {} /\ Sent(t)' = OnTheWay(t) \cup Range(cmds)
      /\ \A u \in Conns \ {t} : conn'[u] = conn[u]
  BY FlushedEffect
<1>2. ASSUME NEW u \in Conns
      PROVE  /\ Kept(u)' \subseteq Kept(u) \cup Harmless
             /\ OnTheWay(u)' \subseteq OnTheWay(u) \cup Harmless
             /\ <<"eof">> \in Sent(u) => <<"eof">> \in Sent(u)'
  <2>1. CASE u = t
    BY <1>1, <2>1 DEF OnTheWay
  <2>2. CASE u # t
    BY <1>1, <2>2 DEF OnTheWay, Kept, Sent
  <2>. QED
    BY <2>1, <2>2
<1>. QED
  BY <1>1, <1>2 DEF SameStreams, StreamsGain

(* A harmless command that is kept. *)
LEMMA EncodeSame ==
  ASSUME TypeOK, NEW t \in Conns, NEW cmd \in Harmless, conn' = Encoded(t, cmd)
  PROVE  conn' \in [Conns -> Stream] /\ SameStreams
<1>1. /\ conn' \in [Conns -> Stream] /\ Kept(t)' = Kept(t) \cup {cmd} /\ Sent(t)' = Sent(t)
      /\ \A u \in Conns \ {t} : conn'[u] = conn[u]
  <2>1. cmd \in Commands
    BY DEF Harmless
  <2>. QED
    BY <2>1, EncodedEffect
<1>2. ASSUME NEW u \in Conns
      PROVE  /\ Kept(u)' \subseteq Kept(u) \cup Harmless
             /\ OnTheWay(u)' \subseteq OnTheWay(u) \cup Harmless
             /\ <<"eof">> \in Sent(u) => <<"eof">> \in Sent(u)'
  <2>1. CASE u = t
    BY <1>1, <2>1 DEF OnTheWay
  <2>2. CASE u # t
    BY <1>1, <2>2 DEF OnTheWay, Kept, Sent
  <2>. QED
    BY <2>1, <2>2
<1>. QED
  BY <1>1, <1>2 DEF SameStreams, StreamsGain

(* A command that is executed, unless it is the end of the stream. *)
LEMMA ExecuteSame ==
  ASSUME TypeOK, NEW t \in Conns, NEW name, name # "eof", Executes(t, name)
  PROVE  conn' \in [Conns -> Stream] /\ SameStreams
<1>1. /\ conn' \in [Conns -> Stream] /\ Head(conn[t].pipe) \in Commands
      /\ Kept(t)' = Kept(t) /\ Sent(t) = {Head(conn[t].pipe)} \cup Sent(t)'
      /\ \A u \in Conns \ {t} : conn'[u] = conn[u]
  BY ExecutedEffect DEF Executes
<1>2. <<"eof">> # Head(conn[t].pipe)
  BY DEF Executes, Arg
<1>3. ASSUME NEW u \in Conns
      PROVE  /\ Kept(u)' \subseteq Kept(u) \cup Harmless
             /\ OnTheWay(u)' \subseteq OnTheWay(u) \cup Harmless
             /\ <<"eof">> \in Sent(u) => <<"eof">> \in Sent(u)'
  <2>1. CASE u = t
    BY <1>1, <1>2, <2>1 DEF OnTheWay
  <2>2. CASE u # t
    BY <1>1, <2>2 DEF OnTheWay, Kept, Sent
  <2>. QED
    BY <2>1, <2>2
<1>. QED
  BY <1>1, <1>3 DEF SameStreams, StreamsGain

(* Streams nobody touches. *)
LEMMA ConnSame == ASSUME conn' = conn PROVE SameStreams
BY DEF SameStreams, StreamsGain, Kept, Sent, OnTheWay

(* A thread that goes on, from anywhere but eglMakeCurrent. *)
LEMMA GoesQuiet ==
  ASSUME Safe, NEW t \in Threads, NEW call \in Call, Shape(call), call.pc # "gone", Goes(t, call),
         thr[t].call.pc \notin {"gone", "binding"},
         loose' = loose, current' = current,
         \A c \in Ctxs : ctx[c].live => ctx'[c] = ctx[c],
         \A s \in Surfs : surf[s].live => surf'[s].live /\ surf'[s].rc = surf[s].rc
  PROVE  /\ thr' \in [Threads -> ThreadInfo] /\ CallShape' /\ GoneThreads' = GoneThreads
         /\ SameBindings
<1>1. TypeOK /\ CallShape
  BY DEF Safe
<1>2. /\ thr' \in [Threads -> ThreadInfo] /\ CallShape' /\ GoneThreads' = GoneThreads
      /\ \A u \in Threads : thr'[u].currentContext = thr[u].currentContext
      /\ \A u \in Threads \ {t} : thr'[u] = thr[u]
  BY <1>1, GoesEffect
<1>3. ~thr[t].call.lost
  BY <1>1 DEF CallShape, Shape
<1>4. SameBindings
  <2>1. ASSUME NEW u \in Threads \ loose', thr'[u].call.pc # "gone" /\ ~thr'[u].call.lost
        PROVE  u \notin loose /\ thr[u].call.pc # "gone" /\ ~thr[u].call.lost
    BY <1>2, <1>3, <2>1
  <2>2. \A u \in Threads : thr[u].currentContext \in Ctxs \cup {0}
    BY <1>1 DEF TypeOK, ThreadInfo
  <2>. QED
    BY <1>2, <2>1, <2>2 DEF SameBindings
<1>. QED
  BY <1>2, <1>4

(* Steps in which the application does nothing. *)
LEMMA GuestQuiet ==
  ASSUME Safe, thr' = thr, ctx' = ctx, surf' = surf, loose' = loose, current' = current
  PROVE  CallShape' /\ GoneThreads' = GoneThreads /\ SameBindings
BY DEF Safe, CallShape, Shape, GoneThreads, SameBindings

----------------------------------------------------------------------------
(* The quiet actions. *)

(* eglCreateContext asks; nothing is there yet. *)
LEMMA CreateContextSafe == ASSUME Safe, NEW t \in Threads, eglCreateContext(t) PROVE Safe'
<1> USE DEF guestVars, bufferVars, hostVars
<1>1. TypeOK /\ t \in Conns
  BY DEF Safe, Conns
<1>2. PICK call \in Call : call = [Idle EXCEPT !.pc = "creating context"]
  BY AskingCalls
<1>3. Shape(call) /\ call.pc = "creating context"
  BY <1>2, AskingCalls
<1>4. Goes(t, call) /\ conn' = Flushed(t, <<>>) /\ thr[t].call.pc = "idle"
  BY <1>2 DEF eglCreateContext, Calls, Goes, Ready, At
<1>5. /\ thr' \in [Threads -> ThreadInfo] /\ CallShape' /\ GoneThreads' = GoneThreads
      /\ SameBindings
  BY <1>3, <1>4, GoesQuiet DEF eglCreateContext
<1>6. conn' \in [Conns -> Stream] /\ SameStreams
  <2>1. <<>> \in Seq(Commands) /\ Range(<<>>) \subseteq Harmless
    BY RangeShort
  <2>. QED
    BY <1>1, <1>4, <2>1, FlushSame
<1>7. TypeOK'
  BY <1>1, <1>5, <1>6 DEF TypeOK, eglCreateContext, Handed
<1>8. SameObjects
  BY <1>5 DEF SameObjects, eglCreateContext
<1>. QED
  BY <1>5, <1>6, <1>7, <1>8, QuietSafe DEF Quiet

(* eglCreateWindowSurface has dequeued a buffer. *)
LEMMA CreateWindowSafe ==
  ASSUME Safe, NEW t \in Threads, NEW b \in Buffers, eglCreateWindowSurface(t, b) PROVE Safe'
<1> USE DEF guestVars, bufferVars, hostVars
<1>1. TypeOK /\ t \in Conns
  BY DEF Safe, Conns
<1>2. PICK call \in Call : call = [Idle EXCEPT !.buffer = b, !.pc = "registering"]
  BY AskingCalls
<1>3. Shape(call) /\ call.pc = "registering"
  BY <1>2, AskingCalls
<1>4. Goes(t, call) /\ conn' = Flushed(t, <<>>) /\ thr[t].call.pc = "idle"
  BY <1>2 DEF eglCreateWindowSurface, Calls, Goes, Ready, At
<1>5. /\ thr' \in [Threads -> ThreadInfo] /\ CallShape' /\ GoneThreads' = GoneThreads
      /\ SameBindings
  BY <1>3, <1>4, GoesQuiet DEF eglCreateWindowSurface
<1>6. conn' \in [Conns -> Stream] /\ SameStreams
  <2>1. <<>> \in Seq(Commands) /\ Range(<<>>) \subseteq Harmless
    BY RangeShort
  <2>. QED
    BY <1>1, <1>4, <2>1, FlushSame
<1>7. TypeOK'
  BY <1>1, <1>5, <1>6 DEF TypeOK, eglCreateWindowSurface, Handed
<1>8. SameObjects
  BY <1>5 DEF SameObjects, eglCreateWindowSurface
<1>. QED
  BY <1>5, <1>6, <1>7, <1>8, QuietSafe DEF Quiet

(* eglSwapBuffers flushes. *)
LEMMA SwapBuffersSafe ==
  ASSUME Safe, NEW t \in Threads, NEW s \in Surfs, eglSwapBuffers(t, s) PROVE Safe'
<1> USE DEF guestVars, bufferVars, hostVars
<1>1. TypeOK /\ t \in Conns
  BY DEF Safe, Conns
<1>2. PICK call \in Call : call = [Idle EXCEPT !.pc = "swapping", !.surf = s]
  BY AskingCalls
<1>3. Shape(call) /\ call.pc = "swapping"
  BY <1>2, AskingCalls
<1>4. Goes(t, call) /\ conn' = Flushed(t, <<>>) /\ thr[t].call.pc = "idle"
  BY <1>2 DEF eglSwapBuffers, Calls, Goes, Ready, At
<1>5. /\ thr' \in [Threads -> ThreadInfo] /\ CallShape' /\ GoneThreads' = GoneThreads
      /\ SameBindings
  BY <1>3, <1>4, GoesQuiet DEF eglSwapBuffers
<1>6. conn' \in [Conns -> Stream] /\ SameStreams
  <2>1. <<>> \in Seq(Commands) /\ Range(<<>>) \subseteq Harmless
    BY RangeShort
  <2>. QED
    BY <1>1, <1>4, <2>1, FlushSame
<1>7. TypeOK'
  BY <1>1, <1>5, <1>6 DEF TypeOK, eglSwapBuffers, Handed
<1>8. SameObjects
  BY <1>5 DEF SameObjects, eglSwapBuffers
<1>. QED
  BY <1>5, <1>6, <1>7, <1>8, QuietSafe DEF Quiet

(* A surface that changes its buffer is the same surface. *)
LEMMA BufferOfSurface ==
  ASSUME TypeOK, NEW s \in Surfs, surf[s].live, NEW b \in Buffers \cup {0},
         surf' = [surf EXCEPT ![s].buffer = b]
  PROVE  /\ surf' \in [Surfs -> Surface]
         /\ \A r \in Surfs : /\ surf'[r].live = surf[r].live /\ surf'[r].rc = surf[r].rc
                             /\ surf'[r].by = surf[r].by
                             /\ ~surf[r].live => surf'[r] = surf[r]
<1>1. surf \in [Surfs -> Surface] /\ surf[s] \in Surface
  BY DEF TypeOK
<1>2. surf'[s] = [surf[s] EXCEPT !.buffer = b]
  BY <1>1
<1>3. /\ surf'[s] \in Surface /\ surf'[s].live = surf[s].live /\ surf'[s].rc = surf[s].rc
      /\ surf'[s].by = surf[s].by
  BY <1>1, <1>2 DEF Surface
<1>4. \A r \in Surfs \ {s} : surf'[r] = surf[r]
  BY <1>1
<1>5. surf' \in [Surfs -> Surface]
  BY <1>1, <1>3, <1>4
<1>. QED
  BY <1>3, <1>4, <1>5

(* The buffer is registered, and the call goes on. *)
LEMMA RegisterSafe == ASSUME Safe, NEW t \in Threads, gralloc_register_buffer(t) PROVE Safe'
<1> USE DEF guestVars, bufferVars, hostVars
<1>1. TypeOK /\ CallShape /\ t \in Conns
  BY DEF Safe, Conns
<1>2. thr[t].call \in Call /\ Shape(thr[t].call) /\ thr[t].call.pc = "registering"
  BY <1>1 DEF TypeOK, ThreadInfo, CallShape, gralloc_register_buffer, Answered, At
<1>3. PICK b \in Buffers : b = thr[t].call.buffer
  BY <1>2 DEF Call, Shape
<1>4. PICK s \in Surfs \cup {0} : s = thr[t].call.surf
  BY <1>2 DEF Call
<1>5. held' \in [Buffers -> SUBSET {"app", "sf"}]
  <2>1. held' = [held EXCEPT ![b] = held[b] \cup {"app"}]
    BY <1>3 DEF gralloc_register_buffer
  <2>. QED
    BY <1>1, <2>1 DEF TypeOK
<1>6. count' \in [Buffers -> Nat] /\ miscounted' \subseteq Buffers
  <2>1. count' = count \/ count' = [count EXCEPT ![b] = count[b] + 1]
    BY <1>3 DEF gralloc_register_buffer
  <2>2. miscounted' = miscounted \/ miscounted' = miscounted \cup {b}
    BY <1>3 DEF gralloc_register_buffer
  <2>. QED
    BY <1>1, <2>1, <2>2 DEF TypeOK
<1>7. CASE s = 0
  <2>1. PICK call \in Call : call = [thr[t].call EXCEPT !.pc = "creating window"]
    BY <1>2, FollowingCalls
  <2>2. Shape(call) /\ call.pc = "creating window"
    BY <1>2, <2>1, FollowingCalls
  <2>3. Goes(t, call) /\ conn' = Flushed(t, <<>>) /\ surf' = surf /\ undefined' = undefined
    BY <1>4, <1>7, <2>1 DEF gralloc_register_buffer, Calls, Goes
  <2>4. /\ thr' \in [Threads -> ThreadInfo] /\ CallShape' /\ GoneThreads' = GoneThreads
        /\ SameBindings
    BY <1>2, <2>2, <2>3, GoesQuiet DEF gralloc_register_buffer
  <2>5. conn' \in [Conns -> Stream] /\ SameStreams
    <3>1. <<>> \in Seq(Commands) /\ Range(<<>>) \subseteq Harmless
      BY RangeShort
    <3>. QED
      BY <1>1, <2>3, <3>1, FlushSame
  <2>6. TypeOK'
    BY <1>1, <1>5, <1>6, <2>3, <2>4, <2>5 DEF TypeOK, gralloc_register_buffer, Handed
  <2>7. SameObjects
    BY <2>3, <2>4 DEF SameObjects, gralloc_register_buffer
  <2>. QED
    BY <2>4, <2>5, <2>6, <2>7, QuietSafe DEF Quiet
<1>8. CASE s # 0 /\ ~surf[s].live
  <2>1. thr' = thr /\ surf' = surf /\ conn' = conn /\ undefined' = TRUE
    BY <1>4, <1>8 DEF gralloc_register_buffer
  <2>2. CallShape' /\ GoneThreads' = GoneThreads /\ SameBindings
    BY <2>1, GuestQuiet DEF gralloc_register_buffer
  <2>3. TypeOK'
    BY <1>1, <1>5, <1>6, <2>1 DEF TypeOK, gralloc_register_buffer, Handed
  <2>4. SameObjects
    BY <2>1, <2>2 DEF SameObjects, gralloc_register_buffer
  <2>. QED
    BY <2>1, <2>2, <2>3, <2>4, ConnSame, QuietSafe DEF Quiet
<1>9. CASE s # 0 /\ surf[s].live
  <2>1. /\ conn' = Flushed(t, <<rcSetWindowColorBuffer(surf[s].rc, b)>>)
        /\ surf' = [surf EXCEPT ![s].buffer = b] /\ Goes(t, Idle) /\ undefined' = undefined
    BY <1>3, <1>4, <1>9 DEF gralloc_register_buffer
  <2>2. /\ surf' \in [Surfs -> Surface]
        /\ \A r \in Surfs : /\ surf'[r].live = surf[r].live /\ surf'[r].rc = surf[r].rc
                            /\ surf'[r].by = surf[r].by
                            /\ ~surf[r].live => surf'[r] = surf[r]
    BY <1>1, <1>9, <2>1, BufferOfSurface
  <2>3. /\ thr' \in [Threads -> ThreadInfo] /\ CallShape' /\ GoneThreads' = GoneThreads
        /\ SameBindings
    BY <1>2, <2>1, <2>2, IdleCall, GoesQuiet DEF gralloc_register_buffer
  <2>4. conn' \in [Conns -> Stream] /\ SameStreams
    <3>1. PICK x \in Commands : x = rcSetWindowColorBuffer(surf[s].rc, b)
      BY <1>1, <1>9, CommandShapes DEF TypeOK, Surface
    <3>2. x \in Harmless
      BY <3>1 DEF Harmless, rcSetWindowColorBuffer
    <3>3. <<x>> \in Seq(Commands) /\ Range(<<x>>) \subseteq Harmless
      BY <3>2, RangeShort
    <3>. QED
      BY <1>1, <2>1, <3>1, <3>3, FlushSame
  <2>5. TypeOK'
    BY <1>1, <1>5, <1>6, <2>1, <2>2, <2>3, <2>4 DEF TypeOK, gralloc_register_buffer, Handed
  <2>6. SameObjects
    BY <2>1, <2>2, <2>3 DEF SameObjects, gralloc_register_buffer
  <2>. QED
    BY <2>3, <2>4, <2>5, <2>6, QuietSafe DEF Quiet
<1>. QED
  BY <1>7, <1>8, <1>9

(* swapBuffers queues the buffer. *)
LEMMA SwappedSafe == ASSUME Safe, NEW t \in Threads, Swapped(t) PROVE Safe'
<1> USE DEF guestVars, bufferVars, hostVars
<1>1. TypeOK /\ CallShape
  BY DEF Safe
<1>2. thr[t].call \in Call /\ Shape(thr[t].call) /\ thr[t].call.pc = "swapping"
  BY <1>1 DEF TypeOK, ThreadInfo, CallShape, Swapped, Answered, At
<1>3. PICK s \in Surfs : s = thr[t].call.surf
  BY <1>2 DEF Call, Shape
<1>4. CASE ~surf[s].live \/ surf[s].buffer = 0
  <2>1. thr' = thr /\ slot' = slot /\ undefined' = TRUE
    BY <1>3, <1>4 DEF Swapped
  <2>2. CallShape' /\ GoneThreads' = GoneThreads /\ SameBindings
    BY <2>1, GuestQuiet DEF Swapped
  <2>3. TypeOK'
    BY <1>1, <2>1 DEF TypeOK, Swapped, Handed
  <2>4. SameObjects
    BY <2>1, <2>2 DEF SameObjects, Swapped
  <2>5. SameStreams
    BY ConnSame DEF Swapped
  <2>. QED
    BY <2>2, <2>3, <2>4, <2>5, QuietSafe DEF Quiet
<1>5. CASE surf[s].live /\ surf[s].buffer # 0
  <2>1. PICK call \in Call : call = [thr[t].call EXCEPT !.pc = "dequeuing"]
    BY <1>2, FollowingCalls
  <2>2. Shape(call) /\ call.pc = "dequeuing"
    BY <1>2, <2>1, FollowingCalls
  <2>3. Goes(t, call) /\ slot' = GivesBack(surf[s].buffer, "queued") /\ undefined' = undefined
    BY <1>3, <1>5, <2>1 DEF Swapped
  <2>4. /\ thr' \in [Threads -> ThreadInfo] /\ CallShape' /\ GoneThreads' = GoneThreads
        /\ SameBindings
    BY <1>2, <2>2, <2>3, GoesQuiet DEF Swapped
  <2>5. SameStreams
    BY ConnSame DEF Swapped
  <2>6. TypeOK'
    <3>1. slot' \in [Buffers -> {"none", "free", "dequeued", "queued", "freed"}]
      BY <1>1, <2>3 DEF TypeOK, GivesBack
    <3>. QED
      BY <1>1, <2>3, <2>4, <3>1 DEF TypeOK, Swapped, Handed
  <2>7. SameObjects
    BY <2>3, <2>4 DEF SameObjects, Swapped
  <2>. QED
    BY <2>4, <2>5, <2>6, <2>7, QuietSafe DEF Quiet
<1>. QED
  BY <1>4, <1>5

(* swapBuffers dequeues the next one, or there is none. *)
LEMMA DequeuedSafe ==
  ASSUME Safe, NEW t \in Threads, NEW b \in Buffers \cup {0}, Dequeued(t, b) PROVE Safe'
<1> USE DEF guestVars, bufferVars, hostVars
<1>1. TypeOK /\ CallShape
  BY DEF Safe
<1>2. thr[t].call \in Call /\ Shape(thr[t].call) /\ thr[t].call.pc = "dequeuing"
  BY <1>1 DEF TypeOK, ThreadInfo, CallShape, Dequeued, At
<1>3. PICK s \in Surfs : s = thr[t].call.surf
  BY <1>2 DEF Call, Shape
<1>4. SameStreams
  BY ConnSame DEF Dequeued
<1>5. CASE ~surf[s].live
  <2>1. thr' = thr /\ slot' = slot /\ surf' = surf /\ undefined' = TRUE
    BY <1>3, <1>5 DEF Dequeued
  <2>2. CallShape' /\ GoneThreads' = GoneThreads /\ SameBindings
    BY <2>1, GuestQuiet DEF Dequeued
  <2>3. TypeOK'
    BY <1>1, <2>1 DEF TypeOK, Dequeued, Handed
  <2>4. SameObjects
    BY <2>1, <2>2 DEF SameObjects, Dequeued
  <2>. QED
    BY <1>4, <2>2, <2>3, <2>4, QuietSafe DEF Quiet
<1>6. CASE surf[s].live /\ b # 0
  <2>1. PICK call \in Call : call = [thr[t].call EXCEPT !.buffer = b, !.pc = "registering"]
    BY <1>2, <1>6, FollowingCalls
  <2>2. Shape(call) /\ call.pc = "registering"
    <3>1. b \in Buffers /\ b # 0
      BY <1>6
    <3>2. call.pc = "registering" /\ call.buffer = b /\ call.lost = thr[t].call.lost
      BY <1>2, <2>1 DEF Call
    <3>. QED
      BY <1>2, <3>1, <3>2 DEF Shape
  <2>3. /\ Goes(t, call) /\ slot' = [slot EXCEPT ![b] = "dequeued"] /\ surf' = surf
        /\ undefined' = undefined
    BY <1>3, <1>6, <2>1 DEF Dequeued
  <2>4. /\ thr' \in [Threads -> ThreadInfo] /\ CallShape' /\ GoneThreads' = GoneThreads
        /\ SameBindings
    BY <1>2, <2>2, <2>3, GoesQuiet DEF Dequeued
  <2>5. TypeOK'
    BY <1>1, <2>3, <2>4 DEF TypeOK, Dequeued, Handed
  <2>6. SameObjects
    BY <2>3, <2>4 DEF SameObjects, Dequeued
  <2>. QED
    BY <1>4, <2>4, <2>5, <2>6, QuietSafe DEF Quiet
<1>7. CASE surf[s].live /\ b = 0
  <2>1. /\ Goes(t, Idle) /\ slot' = slot /\ surf' = [surf EXCEPT ![s].buffer = 0]
        /\ undefined' = undefined
    BY <1>3, <1>7 DEF Dequeued
  <2>2. /\ surf' \in [Surfs -> Surface]
        /\ \A r \in Surfs : /\ surf'[r].live = surf[r].live /\ surf'[r].rc = surf[r].rc
                            /\ surf'[r].by = surf[r].by
                            /\ ~surf[r].live => surf'[r] = surf[r]
    BY <1>1, <1>7, <2>1, BufferOfSurface
  <2>3. /\ thr' \in [Threads -> ThreadInfo] /\ CallShape' /\ GoneThreads' = GoneThreads
        /\ SameBindings
    BY <1>2, <2>1, <2>2, IdleCall, GoesQuiet DEF Dequeued
  <2>4. TypeOK'
    BY <1>1, <2>1, <2>2, <2>3 DEF TypeOK, Dequeued, Handed
  <2>5. SameObjects
    BY <2>1, <2>2, <2>3 DEF SameObjects, Dequeued
  <2>. QED
    BY <1>4, <2>3, <2>4, <2>5, QuietSafe DEF Quiet
<1>. QED
  BY <1>5, <1>6, <1>7

(* The closing of a buffer is harmless. *)
LEMMA CloseSent ==
  ASSUME TypeOK, NEW t \in Conns, NEW b \in Buffers, conn' = rcCloseColorBuffer(t, b)
  PROVE  conn' \in [Conns -> Stream] /\ SameStreams
<1>1. PICK x \in Commands : x = <<"close", b>>
  BY CommandShapes
<1>2. x \in Harmless
  BY <1>1 DEF Harmless
<1>3. <<x>> \in Seq(Commands) /\ Range(<<x>>) \subseteq Harmless
  BY <1>2, RangeShort
<1>. QED
  BY <1>1, <1>3, FlushSame DEF rcCloseColorBuffer

(* gralloc_unregister_buffer and gralloc_free close a colour buffer. *)
LEMMA UnregisterSafe ==
  ASSUME Safe, NEW t \in Threads, NEW b \in Buffers, gralloc_unregister_buffer(t, b) PROVE Safe'
<1> USE DEF guestVars, bufferVars, hostVars
<1>1. TypeOK /\ t \in Conns
  BY DEF Safe, Conns
<1>2. conn' \in [Conns -> Stream] /\ SameStreams
  BY <1>1, CloseSent DEF gralloc_unregister_buffer
<1>3. CallShape' /\ GoneThreads' = GoneThreads /\ SameBindings
  BY GuestQuiet DEF gralloc_unregister_buffer
<1>4. TypeOK'
  BY <1>1, <1>2 DEF TypeOK, gralloc_unregister_buffer, Handed
<1>5. SameObjects
  BY <1>3 DEF SameObjects, gralloc_unregister_buffer
<1>. QED
  BY <1>2, <1>3, <1>4, <1>5, QuietSafe DEF Quiet

(* SurfaceFlinger touches no object of the application. *)
LEMMA SurfaceFlingerSafe ==
  ASSUME Safe, NEW b \in Buffers, gralloc_alloc(b) \/ ConsumerReleases(b) \/ gralloc_free(b)
  PROVE  Safe'
<1> USE DEF guestVars, bufferVars, hostVars
<1>1. TypeOK /\ "sf" \in Conns
  BY DEF Safe, Conns
<1>2. conn' \in [Conns -> Stream] /\ SameStreams
  <2>1. conn' = conn \/ conn' = rcCloseColorBuffer("sf", b)
    BY DEF gralloc_alloc, ConsumerReleases, gralloc_free
  <2>2. conn \in [Conns -> Stream]
    BY <1>1 DEF TypeOK
  <2>. QED
    BY <1>1, <2>1, <2>2, CloseSent, ConnSame
<1>3. CallShape' /\ GoneThreads' = GoneThreads /\ SameBindings
  BY GuestQuiet DEF gralloc_alloc, ConsumerReleases, gralloc_free
<1>4. TypeOK'
  <2>1. held' \in [Buffers -> SUBSET {"app", "sf"}]
    BY <1>1 DEF TypeOK, gralloc_alloc, ConsumerReleases, gralloc_free
  <2>2. slot' \in [Buffers -> {"none", "free", "dequeued", "queued", "freed"}]
    BY <1>1 DEF TypeOK, gralloc_alloc, ConsumerReleases, gralloc_free
  <2>3. count' \in [Buffers -> Nat]
    BY <1>1 DEF TypeOK, gralloc_alloc, ConsumerReleases, gralloc_free
  <2>. QED
    BY <1>1, <1>2, <2>1, <2>2, <2>3 DEF TypeOK, gralloc_alloc, ConsumerReleases, gralloc_free, Handed
<1>5. SameObjects
  BY <1>3 DEF SameObjects, gralloc_alloc, ConsumerReleases, gralloc_free
<1>. QED
  BY <1>2, <1>3, <1>4, <1>5, QuietSafe DEF Quiet

(* The host closes a colour buffer. *)
LEMMA CloseSafe == ASSUME Safe, NEW t \in Conns, closeColorBuffer(t) PROVE Safe'
<1> USE DEF guestVars, bufferVars, hostVars
<1>1. TypeOK /\ Executes(t, "close")
  BY DEF Safe, closeColorBuffer
<1>2. conn' \in [Conns -> Stream] /\ SameStreams
  BY <1>1, ExecuteSame
<1>3. CallShape' /\ GoneThreads' = GoneThreads /\ SameBindings
  BY <1>1, GuestQuiet DEF closeColorBuffer, Executes
<1>4. PICK b \in Buffers : b = Arg(t, 2)
  <2>1. Head(conn[t].pipe) \in Commands
    BY <1>1, ExecutedEffect DEF Executes
  <2>. QED
    BY <1>1, <2>1, CommandShapes DEF Executes, Arg
<1>5. count' \in [Buffers -> Nat]
  <2>1. count' = [count EXCEPT ![b] = IF count[b] > 0 THEN count[b] - 1 ELSE 0]
    BY <1>4 DEF closeColorBuffer
  <2>. QED
    BY <1>1, <2>1 DEF TypeOK
<1>6. TypeOK'
  BY <1>1, <1>2, <1>5 DEF TypeOK, closeColorBuffer, Executes, Handed
<1>7. SameObjects
  BY <1>1, <1>3 DEF SameObjects, closeColorBuffer, Executes
<1>. QED
  BY <1>2, <1>3, <1>6, <1>7, QuietSafe DEF Quiet

(* The host attaches a colour buffer to a surface. *)
LEMMA SetWindowSafe == ASSUME Safe, NEW t \in Threads, setWindowSurfaceColorBuffer(t) PROVE Safe'
<1> USE DEF guestVars, bufferVars, hostVars
<1>1. TypeOK /\ Executes(t, "setWindow") /\ t \in Conns
  BY DEF Safe, setWindowSurfaceColorBuffer, Conns
<1>2. conn' \in [Conns -> Stream] /\ SameStreams
  BY <1>1, ExecuteSame
<1>3. CallShape' /\ GoneThreads' = GoneThreads /\ SameBindings
  BY <1>1, GuestQuiet DEF setWindowSurfaceColorBuffer, Executes
<1>4. Arg(t, 3) \in Buffers
  <2>1. Head(conn[t].pipe) \in Commands
    BY <1>1, ExecutedEffect DEF Executes
  <2>. QED
    BY <1>1, <2>1, CommandShapes DEF Executes, Arg
<1>5. PICK w : w = Arg(t, 2)
  OBVIOUS
<1>6. PICK b \in Buffers : b = Arg(t, 3)
  BY <1>4
<1>7. /\ DOMAIN windows' = DOMAIN windows
      /\ \A h \in DOMAIN windows : windows'[h] \in Window /\ windows'[h].by = windows[h].by
  <2>1. \A h \in DOMAIN windows : windows[h] \in Window
    BY <1>1 DEF TypeOK
  <2>2. CASE windows' = windows
    BY <2>1, <2>2
  <2>3. CASE w \in DOMAIN windows /\ windows' = [windows EXCEPT ![w].buffer = b]
    <3>1. DOMAIN windows' = DOMAIN windows /\ \A h \in DOMAIN windows \ {w} : windows'[h] = windows[h]
      BY <2>3
    <3>2. windows'[w] = [windows[w] EXCEPT !.buffer = b]
      BY <2>3
    <3>3. windows'[w] \in Window /\ windows'[w].by = windows[w].by
      BY <2>1, <2>3, <3>2 DEF Window
    <3>. QED
      BY <2>1, <3>1, <3>3
  <2>. QED
    BY <1>5, <1>6, <2>2, <2>3 DEF setWindowSurfaceColorBuffer
<1>8. TypeOK'
  BY <1>1, <1>2, <1>7 DEF TypeOK, setWindowSurfaceColorBuffer, Executes, Handed
<1>9. SameObjects
  BY <1>1, <1>3, <1>7 DEF SameObjects, setWindowSurfaceColorBuffer, Executes
<1>. QED
  BY <1>2, <1>3, <1>8, <1>9, QuietSafe DEF Quiet

----------------------------------------------------------------------------
(* Objects are created. *)

(* eglCreateContext gets its answer: a handle nobody has seen. *)
LEMMA ContextCreatedSafe ==
  ASSUME Safe, NEW t \in Threads, NEW c \in Ctxs, ContextCreated(t, c) PROVE Safe'
<1> USE DEF guestVars, bufferVars, hostVars
<1>1. TypeOK /\ CallShape /\ Objects /\ InTables /\ DestroyedAreFreed /\ Ends
  BY DEF Safe
<1>2. /\ thr[t].call.pc = "creating context" /\ ~ctx[c].live /\ Goes(t, Idle) /\ conn' = conn
      /\ surf' = surf /\ windows' = windows /\ current' = current /\ loose' = loose /\ dead' = dead
  BY DEF ContextCreated, Answered, At
<1>3. SameStreams
  BY <1>2, ConnSame
<1>4. CASE ctx' = ctx /\ contexts' = contexts /\ next' = next
  <2>1. /\ thr' \in [Threads -> ThreadInfo] /\ CallShape' /\ GoneThreads' = GoneThreads
        /\ SameBindings
    BY <1>2, <1>4, IdleCall, GoesQuiet
  <2>2. TypeOK'
    BY <1>1, <1>4, <2>1 DEF TypeOK, ContextCreated, Handed
  <2>3. SameObjects
    BY <1>2, <1>4, <2>1 DEF SameObjects
  <2>. QED
    BY <1>3, <2>1, <2>2, <2>3, QuietSafe DEF Quiet
<1>5. CASE /\ next' = next + 1 /\ contexts' = With(contexts, next, t)
           /\ ctx' = [ctx EXCEPT ![c] = [NoContext EXCEPT !.live = TRUE, !.rc = next, !.by = t]]
  <2>1. ctx \in [Ctxs -> Context] /\ next \in Nat /\ next # 0
    BY <1>1 DEF TypeOK
  <2>2. PICK new \in Context : new = [NoContext EXCEPT !.live = TRUE, !.rc = next, !.by = t]
    <3>1. [NoContext EXCEPT !.live = TRUE, !.rc = next, !.by = t] \in Context
      BY <2>1 DEF NoContext, Context
    <3>. QED
      BY <3>1
  <2>3. new.live /\ new.rc = next /\ new.by = t
    BY <2>2 DEF NoContext
  <2>4. ctx' \in [Ctxs -> Context] /\ ctx'[c] = new /\ \A d \in Ctxs \ {c} : ctx'[d] = ctx[d]
    BY <1>5, <2>1, <2>2
  <2>5. /\ DOMAIN contexts' = DOMAIN contexts \cup {next} /\ contexts'[next] = t
        /\ \A h \in DOMAIN contexts : h # next => contexts'[h] = contexts[h]
    BY <1>5 DEF With
  <2>6. Handed' = Handed \cup {next} /\ next \notin Handed
    BY <1>5, <2>1 DEF Handed
  <2>7. /\ thr' \in [Threads -> ThreadInfo] /\ CallShape' /\ GoneThreads' = GoneThreads
        /\ SameBindings
    BY <1>2, <2>4, IdleCall, GoesQuiet
  <2>8. TypeOK'
    <3>1. DOMAIN contexts' \subseteq Handed' /\ \A h \in DOMAIN contexts' : contexts'[h] \in Threads
      BY <1>1, <2>5, <2>6 DEF TypeOK
    <3>2. DOMAIN windows' \subseteq Handed' /\ \A h \in DOMAIN windows' : windows'[h] \in Window
      BY <1>1, <1>2, <2>6 DEF TypeOK
    <3>3. next' \in Nat \ {0}
      BY <1>5, <2>1
    <3>. QED
      BY <1>1, <2>4, <2>7, <3>1, <3>2, <3>3 DEF TypeOK, ContextCreated
  <2>9. Objects'
    <3>1. \A d \in Ctxs : IF ctx'[d].live THEN ctx'[d].rc \in Handed' /\ ctx'[d].by \in Threads
                          ELSE ctx'[d] = NoContext
      BY <1>1, <2>3, <2>4, <2>6 DEF Objects
    <3>2. \A d \in Ctxs \ {c} : ctx'[d].live => ctx'[d].rc # next
      BY <1>1, <2>4, <2>6 DEF Objects
    <3>3. \A d, e \in Ctxs : d # e /\ ctx'[d].live /\ ctx'[e].live => ctx'[d].rc # ctx'[e].rc
      BY <1>1, <2>3, <2>4, <3>2 DEF Objects
    <3>. QED
      BY <1>1, <1>2, <2>6, <3>1, <3>3 DEF Objects
  <2>10. InTables'
    <3>1. ASSUME NEW d \in Ctxs, ctx'[d].live, ctx'[d].by \notin GoneThreads'
          PROVE  ctx'[d].rc \in DOMAIN contexts' /\ contexts'[ctx'[d].rc] = ctx'[d].by
      <4>1. CASE d = c
        BY <2>3, <2>4, <2>5, <4>1
      <4>2. CASE d # c
        <5>1. ctx[d].rc \in DOMAIN contexts /\ contexts[ctx[d].rc] = ctx[d].by /\ ctx[d].rc # next
          BY <1>1, <2>4, <2>6, <2>7, <3>1, <4>2 DEF InTables, Objects
        <5>. QED
          BY <2>4, <2>5, <4>2, <5>1
      <4>. QED
        BY <4>1, <4>2
    <3>2. \A s \in Surfs : surf'[s].live /\ surf'[s].by \notin GoneThreads' =>
             surf'[s].rc \in DOMAIN windows' /\ windows'[surf'[s].rc].by = surf'[s].by
      BY <1>1, <1>2, <2>7 DEF InTables
    <3>. QED
      BY <3>1, <3>2 DEF InTables
  <2>11. DestroyedAreFreed'
    <3>1. \A u \in Conns : OnTheWay(u)' = OnTheWay(u)
      BY <1>2 DEF OnTheWay, Kept, Sent
    <3>2. ASSUME NEW u \in Conns, NEW h \in Nat, rcDestroyContext(h) \in OnTheWay(u)'
          PROVE  h < next' /\ \A d \in Ctxs : ctx'[d].live => ctx'[d].rc # h
      <4>1. h < next /\ \A d \in Ctxs : ctx[d].live => ctx[d].rc # h
        BY <1>1, <3>1, <3>2 DEF DestroyedAreFreed
      <4>2. h < next' /\ h # next
        BY <1>5, <2>1, <4>1
      <4>. QED
        BY <2>3, <2>4, <4>1, <4>2
    <3>3. ASSUME NEW u \in Conns, NEW h \in Nat, rcDestroyWindowSurface(h) \in OnTheWay(u)'
          PROVE  h < next' /\ \A s \in Surfs : surf'[s].live => surf'[s].rc # h
      <4>1. h < next /\ \A s \in Surfs : surf[s].live => surf[s].rc # h
        BY <1>1, <3>1, <3>3 DEF DestroyedAreFreed
      <4>2. h < next'
        BY <1>5, <2>1, <4>1
      <4>. QED
        BY <1>2, <4>1, <4>2
    <3>. QED
      BY <3>2, <3>3 DEF DestroyedAreFreed
  <2>12. Ends'
    <3>1. \A u \in Conns : Kept(u)' = Kept(u) /\ Sent(u)' = Sent(u)
      BY <1>2 DEF Kept, Sent
    <3>2. t \notin GoneThreads
      BY <1>2 DEF GoneThreads
    <3>3. ASSUME NEW u \in GoneThreads', NEW h \in DOMAIN contexts', contexts'[h] = u
          PROVE  h \in DOMAIN contexts /\ contexts[h] = u
      BY <2>5, <2>7, <3>2, <3>3
    <3>4. GoneThreads \subseteq Conns
      BY DEF GoneThreads, Conns
    <3>. QED
      BY <1>1, <1>2, <2>7, <3>1, <3>3, <3>4 DEF Ends
  <2>13. Bound'
    BY <2>7, <2>8, BindingsKept
  <2>. QED
    BY <2>7, <2>8, <2>9, <2>10, <2>11, <2>12, <2>13 DEF Safe
<1>. QED
  BY <1>4, <1>5 DEF ContextCreated

(* eglCreateWindowSurface gets its answer. *)
LEMMA WindowCreatedSafe ==
  ASSUME Safe, NEW t \in Threads, NEW s \in Surfs, WindowCreated(t, s) PROVE Safe'
<1> USE DEF guestVars, bufferVars, hostVars
<1>1. TypeOK /\ CallShape /\ Objects /\ InTables /\ DestroyedAreFreed /\ Ends
  BY DEF Safe
<1>2. /\ thr[t].call.pc = "creating window" /\ ~surf[s].live /\ Goes(t, Idle)
      /\ ctx' = ctx /\ contexts' = contexts /\ current' = current /\ loose' = loose /\ dead' = dead
  BY DEF WindowCreated, Answered, At
<1>3. PICK b \in Buffers : b = thr[t].call.buffer
  BY <1>1, <1>2 DEF TypeOK, ThreadInfo, Call, CallShape, Shape
<1>4. CASE slot' = GivesBack(b, "free") /\ surf' = surf /\ conn' = conn /\ windows' = windows /\ next' = next
  <2>1. /\ thr' \in [Threads -> ThreadInfo] /\ CallShape' /\ GoneThreads' = GoneThreads
        /\ SameBindings
    BY <1>2, <1>4, IdleCall, GoesQuiet
  <2>2. TypeOK'
    <3>1. slot' \in [Buffers -> {"none", "free", "dequeued", "queued", "freed"}]
      BY <1>1, <1>4 DEF TypeOK, GivesBack
    <3>. QED
      BY <1>1, <1>4, <2>1, <3>1 DEF TypeOK, WindowCreated, Handed
  <2>3. SameObjects
    BY <1>2, <1>4, <2>1 DEF SameObjects
  <2>4. SameStreams
    BY <1>4, ConnSame
  <2>. QED
    BY <2>1, <2>2, <2>3, <2>4, QuietSafe DEF Quiet
<1>5. CASE /\ next' = next + 1
           /\ windows' = With(windows, next, [by |-> t, buffer |-> 0])
           /\ surf' = [surf EXCEPT ![s] = [live |-> TRUE, rc |-> next, buffer |-> b, by |-> t]]
           /\ conn' = Encoded(t, rcSetWindowColorBuffer(next, b))
           /\ slot' = slot
  <2>1. surf \in [Surfs -> Surface] /\ next \in Nat /\ next # 0
    BY <1>1 DEF TypeOK
  <2>2. PICK new \in Surface : new = [live |-> TRUE, rc |-> next, buffer |-> b, by |-> t]
    <3>1. [live |-> TRUE, rc |-> next, buffer |-> b, by |-> t] \in Surface
      BY <2>1 DEF Surface
    <3>. QED
      BY <3>1
  <2>3. new.live /\ new.rc = next /\ new.by = t
    BY <2>2
  <2>4. surf' \in [Surfs -> Surface] /\ surf'[s] = new /\ \A r \in Surfs \ {s} : surf'[r] = surf[r]
    BY <1>5, <2>1, <2>2
  <2>5. PICK entry \in Window : entry = [by |-> t, buffer |-> 0]
    <3>1. [by |-> t, buffer |-> 0] \in Window
      BY DEF Window
    <3>. QED
      BY <3>1
  <2>6. /\ DOMAIN windows' = DOMAIN windows \cup {next}
        /\ windows'[next] \in Window /\ windows'[next].by = t
        /\ \A h \in DOMAIN windows : h # next => windows'[h] = windows[h]
    <3>1. windows' = With(windows, next, entry) /\ entry.by = t
      BY <1>5, <2>5
    <3>. QED
      BY <3>1 DEF With
  <2>7. Handed' = Handed \cup {next} /\ next \notin Handed
    BY <1>5, <2>1 DEF Handed
  <2>8. /\ thr' \in [Threads -> ThreadInfo] /\ CallShape' /\ GoneThreads' = GoneThreads
        /\ SameBindings
    BY <1>2, <2>4, IdleCall, GoesQuiet
  <2>9. conn' \in [Conns -> Stream] /\ SameStreams
    <3>1. PICK x \in Commands : x = rcSetWindowColorBuffer(next, b)
      BY <2>1, CommandShapes
    <3>2. x \in Harmless
      BY <3>1 DEF Harmless, rcSetWindowColorBuffer
    <3>3. t \in Conns
      BY DEF Conns
    <3>. QED
      BY <1>1, <1>5, <3>1, <3>2, <3>3, EncodeSame
  <2>10. TypeOK'
    <3>1. DOMAIN contexts' \subseteq Handed' /\ \A h \in DOMAIN contexts' : contexts'[h] \in Threads
      BY <1>1, <1>2, <2>7 DEF TypeOK
    <3>2. DOMAIN windows' \subseteq Handed' /\ \A h \in DOMAIN windows' : windows'[h] \in Window
      BY <1>1, <2>6, <2>7 DEF TypeOK
    <3>3. next' \in Nat \ {0}
      BY <1>5, <2>1
    <3>. QED
      BY <1>1, <1>5, <2>4, <2>8, <2>9, <3>1, <3>2, <3>3 DEF TypeOK, WindowCreated
  <2>11. Objects'
    <3>1. \A r \in Surfs : IF surf'[r].live THEN surf'[r].rc \in Handed' /\ surf'[r].by \in Threads
                           ELSE surf'[r] = NoSurface
      BY <1>1, <2>3, <2>4, <2>7 DEF Objects
    <3>2. \A r \in Surfs \ {s} : surf'[r].live => surf'[r].rc # next
      BY <1>1, <2>4, <2>7 DEF Objects
    <3>3. \A q, r \in Surfs : q # r /\ surf'[q].live /\ surf'[r].live => surf'[q].rc # surf'[r].rc
      BY <1>1, <2>3, <2>4, <3>2 DEF Objects
    <3>. QED
      BY <1>1, <1>2, <2>7, <3>1, <3>3 DEF Objects
  <2>12. InTables'
    <3>1. ASSUME NEW r \in Surfs, surf'[r].live, surf'[r].by \notin GoneThreads'
          PROVE  surf'[r].rc \in DOMAIN windows' /\ windows'[surf'[r].rc].by = surf'[r].by
      <4>1. CASE r = s
        BY <2>3, <2>4, <2>6, <4>1
      <4>2. CASE r # s
        <5>1. surf[r].rc \in DOMAIN windows /\ windows[surf[r].rc].by = surf[r].by /\ surf[r].rc # next
          BY <1>1, <2>4, <2>7, <2>8, <3>1, <4>2 DEF InTables, Objects
        <5>. QED
          BY <2>4, <2>6, <4>2, <5>1
      <4>. QED
        BY <4>1, <4>2
    <3>2. \A c \in Ctxs : ctx'[c].live /\ ctx'[c].by \notin GoneThreads' =>
             ctx'[c].rc \in DOMAIN contexts' /\ contexts'[ctx'[c].rc] = ctx'[c].by
      BY <1>1, <1>2, <2>8 DEF InTables
    <3>. QED
      BY <3>1, <3>2 DEF InTables
  <2>13. DestroyedAreFreed'
    <3>1. \A u \in Conns : OnTheWay(u)' \subseteq OnTheWay(u) \cup Harmless
      BY <2>9 DEF SameStreams, StreamsGain
    <3>2. ASSUME NEW u \in Conns, NEW h \in Nat, rcDestroyContext(h) \in OnTheWay(u)'
          PROVE  h < next' /\ \A c \in Ctxs : ctx'[c].live => ctx'[c].rc # h
      <4>1. rcDestroyContext(h) \in OnTheWay(u)
        BY <3>1, <3>2, HarmlessCommands
      <4>2. h < next /\ \A c \in Ctxs : ctx[c].live => ctx[c].rc # h
        BY <1>1, <4>1 DEF DestroyedAreFreed
      <4>3. h < next'
        BY <1>5, <2>1, <4>2
      <4>. QED
        BY <1>2, <4>2, <4>3
    <3>3. ASSUME NEW u \in Conns, NEW h \in Nat, rcDestroyWindowSurface(h) \in OnTheWay(u)'
          PROVE  h < next' /\ \A r \in Surfs : surf'[r].live => surf'[r].rc # h
      <4>1. rcDestroyWindowSurface(h) \in OnTheWay(u)
        BY <3>1, <3>3, HarmlessCommands
      <4>2. h < next /\ \A r \in Surfs : surf[r].live => surf[r].rc # h
        BY <1>1, <4>1 DEF DestroyedAreFreed
      <4>3. h < next' /\ h # next
        BY <1>5, <2>1, <4>2
      <4>. QED
        BY <2>3, <2>4, <4>2, <4>3
    <3>. QED
      BY <3>2, <3>3 DEF DestroyedAreFreed
  <2>14. Ends'
    <3>1. ASSUME NEW u \in Conns
          PROVE  <<"eof">> \notin Kept(u)' /\ (<<"eof">> \in Sent(u)' <=> <<"eof">> \in Sent(u))
      <4>1. <<"eof">> \notin Kept(u)
        BY <1>1 DEF Ends
      <4>. QED
        BY <2>9, <4>1, HarmlessCommands DEF SameStreams, StreamsGain, OnTheWay
    <3>2. t \notin GoneThreads
      BY <1>2 DEF GoneThreads
    <3>3. ASSUME NEW u \in GoneThreads', NEW h \in DOMAIN windows', windows'[h].by = u
          PROVE  h \in DOMAIN windows /\ windows[h].by = u
      BY <2>6, <2>8, <3>2, <3>3
    <3>4. GoneThreads \subseteq Conns
      BY DEF GoneThreads, Conns
    <3>. QED
      BY <1>1, <1>2, <2>8, <3>1, <3>3, <3>4 DEF Ends
  <2>15. Bound'
    BY <2>8, <2>10, BindingsKept
  <2>. QED
    BY <2>8, <2>10, <2>11, <2>12, <2>13, <2>14, <2>15 DEF Safe
<1>. QED
  BY <1>3, <1>4, <1>5 DEF WindowCreated

----------------------------------------------------------------------------
(* Objects are destroyed. *)

(* The guest frees a context: the command that destroys it is on the way,  *)
(* and names no other.                                                     *)
LEMMA ContextFreed ==
  ASSUME Safe, NEW c \in Ctxs, ctx[c].live, ctx' = [ctx EXCEPT ![c] = NoContext],
         next' = next, dead' = dead, GoneThreads' = GoneThreads, contexts' = contexts,
         windows' = windows, surf' = surf, StreamsGain({rcDestroyContext(ctx[c].rc)})
  PROVE  /\ ctx' \in [Ctxs -> Context]
         /\ (Objects /\ InTables /\ DestroyedAreFreed /\ Ends)'
<1>1. TypeOK /\ Objects /\ InTables /\ DestroyedAreFreed /\ Ends
  BY DEF Safe
<1>2. ctx \in [Ctxs -> Context] /\ ctx[c].rc \in Handed /\ next \in Nat
  BY <1>1 DEF TypeOK, Objects
<1>3. NoContext \in Context /\ NoContext.live = FALSE
  BY DEF NoContext, Context
<1>4. ctx' \in [Ctxs -> Context] /\ ctx'[c] = NoContext /\ \A d \in Ctxs \ {c} : ctx'[d] = ctx[d]
  BY <1>2, <1>3
<1>5. Objects'
  <2>1. \A d \in Ctxs : IF ctx'[d].live THEN ctx'[d].rc \in Handed' /\ ctx'[d].by \in Threads
                        ELSE ctx'[d] = NoContext
    BY <1>1, <1>3, <1>4 DEF Objects, Handed
  <2>2. \A d, e \in Ctxs : d # e /\ ctx'[d].live /\ ctx'[e].live => ctx'[d].rc # ctx'[e].rc
    BY <1>1, <1>3, <1>4 DEF Objects
  <2>. QED
    BY <1>1, <2>1, <2>2 DEF Objects, Handed
<1>6. InTables'
  BY <1>1, <1>3, <1>4 DEF InTables
<1>7. DestroyedAreFreed'
  <2>1. \A u \in Conns : OnTheWay(u)' \subseteq OnTheWay(u) \cup {rcDestroyContext(ctx[c].rc)}
    BY DEF StreamsGain
  <2>2. ASSUME NEW u \in Conns, NEW h \in Nat, rcDestroyContext(h) \in OnTheWay(u)'
        PROVE  h < next' /\ \A d \in Ctxs : ctx'[d].live => ctx'[d].rc # h
    <3>1. CASE rcDestroyContext(h) \in OnTheWay(u)
      <4>1. h < next /\ \A d \in Ctxs : ctx[d].live => ctx[d].rc # h
        BY <1>1, <3>1 DEF DestroyedAreFreed
      <4>. QED
        BY <1>3, <1>4, <4>1
    <3>2. CASE rcDestroyContext(h) = rcDestroyContext(ctx[c].rc)
      <4>1. h = ctx[c].rc
        BY <3>2 DEF rcDestroyContext
      <4>2. h < next
        BY <1>2, <4>1 DEF Handed
      <4>3. \A d \in Ctxs \ {c} : ctx[d].live => ctx[d].rc # h
        BY <1>1, <4>1 DEF Objects
      <4>. QED
        BY <1>3, <1>4, <4>2, <4>3
    <3>. QED
      BY <2>1, <2>2, <3>1, <3>2
  <2>3. ASSUME NEW u \in Conns, NEW h \in Nat, rcDestroyWindowSurface(h) \in OnTheWay(u)'
        PROVE  h < next' /\ \A s \in Surfs : surf'[s].live => surf'[s].rc # h
    <3>1. rcDestroyWindowSurface(h) # rcDestroyContext(ctx[c].rc)
      BY DEF rcDestroyContext, rcDestroyWindowSurface
    <3>2. rcDestroyWindowSurface(h) \in OnTheWay(u)
      BY <2>1, <2>3, <3>1
    <3>. QED
      BY <1>1, <3>2 DEF DestroyedAreFreed
  <2>. QED
    BY <2>2, <2>3 DEF DestroyedAreFreed
<1>8. Ends'
  <2>1. ASSUME NEW u \in Conns
        PROVE  <<"eof">> \notin Kept(u)' /\ (<<"eof">> \in Sent(u)' <=> <<"eof">> \in Sent(u))
    <3>1. <<"eof">> \notin Kept(u)
      BY <1>1 DEF Ends
    <3>2. <<"eof">> # rcDestroyContext(ctx[c].rc)
      BY DEF rcDestroyContext
    <3>. QED
      BY <3>1, <3>2 DEF StreamsGain, OnTheWay
  <2>2. GoneThreads \subseteq Conns
    BY DEF GoneThreads, Conns
  <2>. QED
    BY <1>1, <2>1, <2>2 DEF Ends
<1>. QED
  BY <1>4, <1>5, <1>6, <1>7, <1>8

(* The same for surfaces. *)
LEMMA SurfaceFreed ==
  ASSUME Safe, NEW s \in Surfs, surf[s].live, surf' = [surf EXCEPT ![s] = NoSurface],
         next' = next, dead' = dead, GoneThreads' = GoneThreads, contexts' = contexts,
         windows' = windows, ctx' = ctx, StreamsGain({rcDestroyWindowSurface(surf[s].rc)})
  PROVE  /\ surf' \in [Surfs -> Surface]
         /\ (Objects /\ InTables /\ DestroyedAreFreed /\ Ends)'
<1>1. TypeOK /\ Objects /\ InTables /\ DestroyedAreFreed /\ Ends
  BY DEF Safe
<1>2. surf \in [Surfs -> Surface] /\ surf[s].rc \in Handed /\ next \in Nat
  BY <1>1 DEF TypeOK, Objects
<1>3. NoSurface \in Surface /\ NoSurface.live = FALSE
  BY DEF NoSurface, Surface
<1>4. surf' \in [Surfs -> Surface] /\ surf'[s] = NoSurface /\ \A r \in Surfs \ {s} : surf'[r] = surf[r]
  BY <1>2, <1>3
<1>5. Objects'
  <2>1. \A r \in Surfs : IF surf'[r].live THEN surf'[r].rc \in Handed' /\ surf'[r].by \in Threads
                         ELSE surf'[r] = NoSurface
    BY <1>1, <1>3, <1>4 DEF Objects, Handed
  <2>2. \A q, r \in Surfs : q # r /\ surf'[q].live /\ surf'[r].live => surf'[q].rc # surf'[r].rc
    BY <1>1, <1>3, <1>4 DEF Objects
  <2>. QED
    BY <1>1, <2>1, <2>2 DEF Objects, Handed
<1>6. InTables'
  BY <1>1, <1>3, <1>4 DEF InTables
<1>7. DestroyedAreFreed'
  <2>1. \A u \in Conns : OnTheWay(u)' \subseteq OnTheWay(u) \cup {rcDestroyWindowSurface(surf[s].rc)}
    BY DEF StreamsGain
  <2>2. ASSUME NEW u \in Conns, NEW h \in Nat, rcDestroyWindowSurface(h) \in OnTheWay(u)'
        PROVE  h < next' /\ \A r \in Surfs : surf'[r].live => surf'[r].rc # h
    <3>1. CASE rcDestroyWindowSurface(h) \in OnTheWay(u)
      <4>1. h < next /\ \A r \in Surfs : surf[r].live => surf[r].rc # h
        BY <1>1, <3>1 DEF DestroyedAreFreed
      <4>. QED
        BY <1>3, <1>4, <4>1
    <3>2. CASE rcDestroyWindowSurface(h) = rcDestroyWindowSurface(surf[s].rc)
      <4>1. h = surf[s].rc
        BY <3>2 DEF rcDestroyWindowSurface
      <4>2. h < next
        BY <1>2, <4>1 DEF Handed
      <4>3. \A r \in Surfs \ {s} : surf[r].live => surf[r].rc # h
        BY <1>1, <4>1 DEF Objects
      <4>. QED
        BY <1>3, <1>4, <4>2, <4>3
    <3>. QED
      BY <2>1, <2>2, <3>1, <3>2
  <2>3. ASSUME NEW u \in Conns, NEW h \in Nat, rcDestroyContext(h) \in OnTheWay(u)'
        PROVE  h < next' /\ \A c \in Ctxs : ctx'[c].live => ctx'[c].rc # h
    <3>1. rcDestroyContext(h) # rcDestroyWindowSurface(surf[s].rc)
      BY DEF rcDestroyContext, rcDestroyWindowSurface
    <3>2. rcDestroyContext(h) \in OnTheWay(u)
      BY <2>1, <2>3, <3>1
    <3>. QED
      BY <1>1, <3>2 DEF DestroyedAreFreed
  <2>. QED
    BY <2>2, <2>3 DEF DestroyedAreFreed
<1>8. Ends'
  <2>1. ASSUME NEW u \in Conns
        PROVE  <<"eof">> \notin Kept(u)' /\ (<<"eof">> \in Sent(u)' <=> <<"eof">> \in Sent(u))
    <3>1. <<"eof">> \notin Kept(u)
      BY <1>1 DEF Ends
    <3>2. <<"eof">> # rcDestroyWindowSurface(surf[s].rc)
      BY DEF rcDestroyWindowSurface
    <3>. QED
      BY <3>1, <3>2 DEF StreamsGain, OnTheWay
  <2>2. GoneThreads \subseteq Conns
    BY DEF GoneThreads, Conns
  <2>. QED
    BY <1>1, <2>1, <2>2 DEF Ends
<1>. QED
  BY <1>4, <1>5, <1>6, <1>7, <1>8

(* Any command that is kept. *)
LEMMA EncodeGain ==
  ASSUME TypeOK, NEW t \in Conns, NEW cmd \in Commands, conn' = Encoded(t, cmd)
  PROVE  conn' \in [Conns -> Stream] /\ StreamsGain({cmd})
<1>1. /\ conn' \in [Conns -> Stream] /\ Kept(t)' = Kept(t) \cup {cmd} /\ Sent(t)' = Sent(t)
      /\ \A u \in Conns \ {t} : conn'[u] = conn[u]
  BY EncodedEffect
<1>2. ASSUME NEW u \in Conns
      PROVE  /\ Kept(u)' \subseteq Kept(u) \cup {cmd}
             /\ OnTheWay(u)' \subseteq OnTheWay(u) \cup {cmd}
             /\ <<"eof">> \in Sent(u) => <<"eof">> \in Sent(u)'
  <2>1. CASE u = t
    BY <1>1, <2>1 DEF OnTheWay
  <2>2. CASE u # t
    BY <1>1, <2>2 DEF OnTheWay, Kept, Sent
  <2>. QED
    BY <2>1, <2>2
<1>. QED
  BY <1>1, <1>2 DEF StreamsGain

(* eglDestroySurface: whoever draws on the surface is loose from now on.   *)
LEMMA DestroySurfaceSafe ==
  ASSUME Safe, NEW t \in Threads, NEW s \in Surfs, eglDestroySurface(t, s) PROVE Safe'
<1> USE DEF guestVars, bufferVars, hostVars
<1>1. TypeOK /\ t \in Conns /\ CallShape
  BY DEF Safe, Conns
<1>2. CallShape' /\ GoneThreads' = GoneThreads
  BY <1>1 DEF eglDestroySurface, CallShape, Shape, GoneThreads
<1>3. PICK x \in Commands : x = rcDestroyWindowSurface(surf[s].rc)
  BY <1>1, CommandShapes DEF TypeOK, Surface
<1>4. conn' \in [Conns -> Stream] /\ StreamsGain({x})
  BY <1>1, <1>3, EncodeGain DEF eglDestroySurface
<1>5. surf' \in [Surfs -> Surface] /\ (Objects /\ InTables /\ DestroyedAreFreed /\ Ends)'
  BY <1>2, <1>3, <1>4, SurfaceFreed DEF eglDestroySurface
<1>6. TypeOK'
  <2>1. slot' \in [Buffers -> {"none", "free", "dequeued", "queued", "freed"}]
    BY <1>1 DEF TypeOK, GivesBack, eglDestroySurface
  <2>2. loose' \subseteq Threads
    BY <1>1 DEF TypeOK, eglDestroySurface
  <2>. QED
    BY <1>1, <1>4, <1>5, <2>1, <2>2 DEF TypeOK, eglDestroySurface, Handed
<1>7. SameBindings
  <2>1. thr' = thr /\ ctx' = ctx /\ current' = current /\ loose \subseteq loose'
    BY DEF eglDestroySurface
  <2>2. \A r \in Surfs \ {s} : surf'[r] = surf[r]
    BY <1>1 DEF TypeOK, eglDestroySurface
  <2>3. ASSUME NEW u \in Threads \ loose', thr[u].currentContext # 0
        PROVE  ctx[thr[u].currentContext].draw # s
    BY <2>3 DEF eglDestroySurface
  <2>. QED
    BY <2>1, <2>2, <2>3 DEF SameBindings
<1>8. Bound'
  BY <1>6, <1>7, BindingsKept
<1>. QED
  BY <1>2, <1>5, <1>6, <1>8 DEF Safe

(* eglDestroyContext: the own context is only marked; of any other the     *)
(* threads that have it are loose from now on.                             *)
LEMMA DestroyContextSafe ==
  ASSUME Safe, NEW t \in Threads, NEW c \in Ctxs, eglDestroyContext(t, c) PROVE Safe'
<1> USE DEF guestVars, bufferVars, hostVars
<1>1. TypeOK /\ t \in Conns /\ CallShape
  BY DEF Safe, Conns
<1>2. CallShape' /\ GoneThreads' = GoneThreads
  BY <1>1 DEF eglDestroyContext, CallShape, Shape, GoneThreads
<1>3. CASE thr[t].currentContext = c
  <2>1. ctx' = [ctx EXCEPT ![c].deletePending = TRUE] /\ conn' = conn /\ loose' = loose
    BY <1>3 DEF eglDestroyContext
  <2>2. ctx \in [Ctxs -> Context] /\ ctx[c] \in Context /\ ctx[c].live
    BY <1>1 DEF TypeOK, eglDestroyContext
  <2>3. ctx'[c] = [ctx[c] EXCEPT !.deletePending = TRUE] /\ \A d \in Ctxs \ {c} : ctx'[d] = ctx[d]
    BY <2>1, <2>2
  <2>4. /\ ctx'[c] \in Context /\ ctx'[c].live = ctx[c].live /\ ctx'[c].rc = ctx[c].rc
        /\ ctx'[c].by = ctx[c].by /\ ctx'[c].draw = ctx[c].draw
    BY <2>2, <2>3 DEF Context
  <2>5. ctx' \in [Ctxs -> Context]
    BY <2>1, <2>2, <2>3, <2>4
  <2>6. TypeOK'
    BY <1>1, <2>1, <2>5 DEF TypeOK, eglDestroyContext, Handed
  <2>7. SameObjects
    BY <1>2, <2>2, <2>3, <2>4 DEF SameObjects, eglDestroyContext
  <2>8. SameBindings
    <3>1. \A d \in Ctxs : ctx'[d].live = ctx[d].live /\ ctx'[d].rc = ctx[d].rc /\ ctx'[d].draw = ctx[d].draw
      BY <2>3, <2>4
    <3>2. \A u \in Threads : thr[u].currentContext \in Ctxs \cup {0}
      BY <1>1 DEF TypeOK, ThreadInfo
    <3>. QED
      BY <2>1, <3>1, <3>2 DEF SameBindings, eglDestroyContext
  <2>. QED
    BY <1>2, <2>1, <2>6, <2>7, <2>8, ConnSame, QuietSafe DEF Quiet
<1>4. CASE thr[t].currentContext # c
  <2>1. /\ ctx' = [ctx EXCEPT ![c] = NoContext] /\ conn' = Encoded(t, rcDestroyContext(ctx[c].rc))
        /\ loose' = loose \cup {u \in Threads : thr[u].currentContext = c}
    BY <1>4 DEF eglDestroyContext
  <2>2. PICK x \in Commands : x = rcDestroyContext(ctx[c].rc)
    BY <1>1, CommandShapes DEF TypeOK, Context
  <2>3. conn' \in [Conns -> Stream] /\ StreamsGain({x})
    BY <1>1, <2>1, <2>2, EncodeGain
  <2>4. ctx' \in [Ctxs -> Context] /\ (Objects /\ InTables /\ DestroyedAreFreed /\ Ends)'
    BY <1>2, <2>1, <2>2, <2>3, ContextFreed DEF eglDestroyContext
  <2>5. TypeOK'
    BY <1>1, <2>1, <2>3, <2>4 DEF TypeOK, eglDestroyContext, Handed
  <2>6. SameBindings
    <3>1. \A d \in Ctxs \ {c} : ctx'[d] = ctx[d]
      BY <1>1, <2>1 DEF TypeOK
    <3>2. \A u \in Threads : thr[u].currentContext \in Ctxs \cup {0}
      BY <1>1 DEF TypeOK, ThreadInfo
    <3>. QED
      BY <2>1, <3>1, <3>2 DEF SameBindings, eglDestroyContext
  <2>7. Bound'
    BY <2>5, <2>6, BindingsKept
  <2>. QED
    BY <1>2, <2>4, <2>5, <2>7 DEF Safe
<1>. QED
  BY <1>3, <1>4

----------------------------------------------------------------------------
(* eglMakeCurrent. *)

(* Any commands that are flushed. *)
LEMMA FlushGain ==
  ASSUME TypeOK, NEW t \in Conns, NEW cmds \in Seq(Commands), conn' = Flushed(t, cmds)
  PROVE  conn' \in [Conns -> Stream] /\ StreamsGain(Range(cmds))
<1>1. /\ conn' \in [Conns -> Stream] /\ Kept(t)' = {} /\ Sent(t)' = OnTheWay(t) \cup Range(cmds)
      /\ \A u \in Conns \ {t} : conn'[u] = conn[u]
  BY FlushedEffect
<1>2. ASSUME NEW u \in Conns
      PROVE  /\ Kept(u)' \subseteq Kept(u) \cup Range(cmds)
             /\ OnTheWay(u)' \subseteq OnTheWay(u) \cup Range(cmds)
             /\ <<"eof">> \in Sent(u) => <<"eof">> \in Sent(u)'
  <2>1. CASE u = t
    BY <1>1, <2>1 DEF OnTheWay
  <2>2. CASE u # t
    BY <1>1, <2>2 DEF OnTheWay, Kept, Sent
  <2>. QED
    BY <2>1, <2>2
<1>. QED
  BY <1>1, <1>2 DEF StreamsGain

(* Any commands that are kept. *)
LEMMA ConcatGain ==
  ASSUME TypeOK, NEW t \in Conns, NEW cmds \in Seq(Commands),
         conn' = [conn EXCEPT ![t].buf = @ \o cmds]
  PROVE  /\ conn' \in [Conns -> Stream] /\ StreamsGain(Range(cmds))
         /\ \A u \in Conns : conn'[u].pipe = conn[u].pipe
         /\ \A u \in Conns : Kept(u)' \subseteq Kept(u) \cup Range(cmds)
<1>1. conn \in [Conns -> Stream] /\ conn[t] \in Stream
  BY DEF TypeOK
<1>2. conn[t].buf \in Seq(Commands) /\ conn[t].pipe \in Seq(Commands)
  BY <1>1 DEF Stream
<1>3. PICK p \in Seq(Commands) : p = conn[t].buf \o cmds
  <2>1. conn[t].buf \o cmds \in Seq(Commands)
    BY <1>2
  <2>. QED
    BY <2>1
<1>4. conn'[t] = [conn[t] EXCEPT !.buf = p] /\ \A u \in Conns \ {t} : conn'[u] = conn[u]
  BY <1>1, <1>3
<1>5. conn'[t].buf = p /\ conn'[t].pipe = conn[t].pipe /\ conn'[t] \in Stream
  BY <1>1, <1>4 DEF Stream
<1>6. conn' \in [Conns -> Stream]
  BY <1>1, <1>4, <1>5
<1>7. Range(p) = Range(conn[t].buf) \cup Range(cmds)
  BY <1>2, <1>3, RangeConcat
<1>8. Kept(t)' = Kept(t) \cup Range(cmds) /\ Sent(t)' = Sent(t)
  BY <1>5, <1>7 DEF Kept, Sent
<1>9. ASSUME NEW u \in Conns
      PROVE  /\ Kept(u)' \subseteq Kept(u) \cup Range(cmds)
             /\ OnTheWay(u)' \subseteq OnTheWay(u) \cup Range(cmds)
             /\ <<"eof">> \in Sent(u) => <<"eof">> \in Sent(u)'
  <2>1. CASE u = t
    BY <1>8, <2>1 DEF OnTheWay
  <2>2. CASE u # t
    BY <1>4, <2>2 DEF OnTheWay, Kept, Sent
  <2>. QED
    BY <2>1, <2>2
<1>. QED
  BY <1>4, <1>5, <1>6, <1>9 DEF StreamsGain

(* A thread with a new context of its own, or none. *)
LEMMA ThreadEffect ==
  ASSUME TypeOK, CallShape, NEW t \in Threads, NEW info \in ThreadInfo, Shape(info.call),
         thr' = [thr EXCEPT ![t] = info]
  PROVE  /\ thr' \in [Threads -> ThreadInfo] /\ CallShape'
         /\ thr'[t] = info /\ \A u \in Threads \ {t} : thr'[u] = thr[u]
         /\ thr[t].call.pc # "gone" /\ info.call.pc # "gone" => GoneThreads' = GoneThreads
<1>1. thr \in [Threads -> ThreadInfo] /\ thr[t] \in ThreadInfo
  BY DEF TypeOK
<1>2. /\ thr' \in [Threads -> ThreadInfo]
      /\ thr'[t] = info /\ \A u \in Threads \ {t} : thr'[u] = thr[u]
  BY <1>1
<1>3. CallShape'
  <2>1. ASSUME NEW u \in Threads PROVE Shape(thr'[u].call)
    BY <1>2 DEF CallShape
  <2>. QED
    BY <2>1 DEF CallShape, Shape
<1>4. thr[t].call.pc # "gone" /\ info.call.pc # "gone" => GoneThreads' = GoneThreads
  BY <1>2 DEF GoneThreads
<1>. QED
  BY <1>2, <1>3, <1>4

(* Both fields of the record of a thread are written. *)
LEMMA BothFields ==
  ASSUME NEW x \in ThreadInfo, NEW call, NEW now
  PROVE  [[x EXCEPT !.currentContext = now] EXCEPT !.call = call]
           = [call |-> call, currentContext |-> now]
<1>1. PICK y : y = [x EXCEPT !.currentContext = now]
  OBVIOUS
<1>2. y = [call |-> x.call, currentContext |-> now]
  BY <1>1 DEF ThreadInfo
<1>3. [y EXCEPT !.call = call] = [call |-> call, currentContext |-> now]
  BY <1>2
<1>. QED
  BY <1>1, <1>3

(* The first half: a context whose deletion is pending goes, and the       *)
(* question is sent, or the call is refused.                               *)
LEMMA MakeCurrentSafe ==
  ASSUME Safe, NEW t \in Threads, NEW c \in Ctxs \cup {0}, NEW s \in Surfs \cup {0},
         eglMakeCurrent(t, c, s)
  PROVE  Safe'
<1> USE DEF guestVars, bufferVars, hostVars
<1>1. TypeOK /\ CallShape /\ Objects /\ t \in Conns
  BY DEF Safe, Conns
<1>2. PICK old \in Ctxs \cup {0} : old = thr[t].currentContext
  BY <1>1 DEF TypeOK, ThreadInfo
<1>3. /\ thr[t].call.pc = "idle" /\ ~thr[t].call.lost /\ (c = 0 <=> s = 0)
      /\ (c # 0 => ctx[c].live /\ surf[s].live)
  BY <1>1 DEF eglMakeCurrent, Ready, At, CallShape, Shape
<1>4. /\ slot' = slot /\ held' = held /\ contexts' = contexts /\ windows' = windows /\ count' = count
      /\ current' = current /\ next' = next /\ miscounted' = miscounted /\ dead' = dead
  BY DEF eglMakeCurrent
<1>5. CASE old # 0 /\ ~ctx[old].live
  <2>1. /\ thr' = thr /\ ctx' = ctx /\ surf' = surf /\ conn' = conn /\ loose' = loose
        /\ undefined' = TRUE
    BY <1>2, <1>5 DEF eglMakeCurrent
  <2>2. CallShape' /\ GoneThreads' = GoneThreads /\ SameBindings
    BY <1>4, <2>1, GuestQuiet
  <2>3. TypeOK'
    BY <1>1, <1>4, <2>1 DEF TypeOK, Handed
  <2>4. SameObjects
    BY <1>4, <2>1, <2>2 DEF SameObjects
  <2>. QED
    BY <2>1, <2>2, <2>3, <2>4, ConnSame, QuietSafe DEF Quiet
<1>6. CASE ~(old # 0 /\ ~ctx[old].live)
  <2> DEFINE pending == old # 0 /\ ctx[old].deletePending /\ old # c
             now     == IF pending THEN 0 ELSE old
             refused == c # 0 /\ ctx[c].isCurrent /\ c # now
             bind    == IF c = 0 THEN Nothing ELSE [ctx |-> ctx[c].rc, draw |-> surf[s].rc]
             destroy == IF pending THEN <<rcDestroyContext(ctx[old].rc)>> ELSE <<>>
             others  == IF pending THEN {u \in Threads \ {t} : thr[u].currentContext = old} ELSE {}
             asking  == [Idle EXCEPT !.pc = "binding", !.ctx = c, !.surf = s, !.bind = bind,
                                     !.lost = pending]
  <2>1. /\ ctx' = IF pending THEN [ctx EXCEPT ![old] = NoContext] ELSE ctx
        /\ thr' = [thr EXCEPT ![t].currentContext = now,
                              ![t].call = IF refused THEN Idle ELSE asking]
        /\ conn' = IF refused THEN [conn EXCEPT ![t].buf = @ \o destroy] ELSE Flushed(t, destroy)
        /\ loose' = loose \cup others \cup (IF refused /\ pending THEN {t} ELSE {})
        /\ surf' = surf /\ undefined' = undefined
    BY <1>2, <1>6 DEF eglMakeCurrent
  <2>2. bind \in Binding /\ (c # 0 => bind.ctx # 0 /\ bind.draw # 0) /\ (c = 0 => bind = Nothing)
    <3>1. CASE c = 0
      BY <3>1 DEF Nothing, Binding
    <3>2. CASE c # 0
      <4>1. ctx[c].rc \in Nat \ {0} /\ surf[s].rc \in Nat \ {0}
        BY <1>1, <1>3, <3>2 DEF Objects, Handed, TypeOK
      <4>. QED
        BY <3>2, <4>1 DEF Binding
    <3>. QED
      BY <3>1, <3>2
  <2>3. pending \in BOOLEAN /\ now \in Ctxs \cup {0}
    BY <1>1 DEF TypeOK, Context
  <2>4. PICK call \in Call : call = IF refused THEN Idle ELSE asking
    <3>1. asking \in Call
      <4> HIDE DEF bind, pending
      <4>. QED
        BY <2>2, <2>3 DEF Idle, Call
    <3>. QED
      BY <3>1, IdleCall
  <2>5. /\ Shape(call) /\ call.pc # "gone"
        /\ ~refused => call.lost = pending
    <3>1. CASE refused
      BY <2>4, <3>1, IdleCall
    <3>2. CASE ~refused
      <4>1. /\ call.pc = "binding" /\ call.ctx = c /\ call.surf = s /\ call.bind = bind
            /\ call.lost = pending
        <5> HIDE DEF bind, pending, refused
        <5>. QED
          BY <2>4, <3>2 DEF Idle
      <4>. QED
        BY <1>3, <2>2, <3>2, <4>1 DEF Shape
    <3>. QED
      BY <3>1, <3>2
  <2>6. PICK info \in ThreadInfo : info = [call |-> call, currentContext |-> now]
    <3>1. [call |-> call, currentContext |-> now] \in ThreadInfo
      BY <2>3 DEF ThreadInfo
    <3>. QED
      BY <3>1
  <2>7. thr' = [thr EXCEPT ![t] = info]
    <3>1. thr \in [Threads -> ThreadInfo] /\ thr[t] \in ThreadInfo
      BY <1>1 DEF TypeOK
    <3>2. thr' = [thr EXCEPT ![t] = [[thr[t] EXCEPT !.currentContext = now] EXCEPT !.call = call]]
      <4> HIDE DEF now, refused, asking
      <4>. QED
        BY <2>1, <2>4, <3>1
    <3>3. [[thr[t] EXCEPT !.currentContext = now] EXCEPT !.call = call] = info
      <4> HIDE DEF now
      <4>. QED
        BY <2>6, <3>1, BothFields
    <3>. QED
      BY <3>2, <3>3
  <2>8. info.call = call /\ info.currentContext = now
    BY <2>6
  <2>9. /\ thr' \in [Threads -> ThreadInfo] /\ CallShape'
        /\ thr'[t] = info /\ \A u \in Threads \ {t} : thr'[u] = thr[u]
        /\ GoneThreads' = GoneThreads
    BY <1>1, <1>3, <2>5, <2>7, <2>8, ThreadEffect
  <2>10. PICK cmds \in Seq(Commands) : cmds = destroy
    <3>1. pending => rcDestroyContext(ctx[old].rc) \in Commands
      BY <1>1, CommandShapes DEF TypeOK, Context
    <3>2. destroy \in Seq(Commands)
      BY <3>1
    <3>. QED
      BY <3>2
  <2>11. conn' \in [Conns -> Stream] /\ StreamsGain(Range(cmds))
    <3>1. conn' = [conn EXCEPT ![t].buf = @ \o cmds] \/ conn' = Flushed(t, cmds)
      BY <2>1, <2>10
    <3>. QED
      BY <1>1, <3>1, FlushGain, ConcatGain
  <2>12. loose' \subseteq Threads
    BY <1>1, <2>1 DEF TypeOK
  <2>13. SameBindings
    <3>1. \A u \in Threads : thr[u].currentContext \in Ctxs \cup {0}
      BY <1>1 DEF TypeOK, ThreadInfo
    <3>2. ASSUME NEW u \in Threads \ loose', thr'[u].call.pc # "gone" /\ ~thr'[u].call.lost
          PROVE  /\ u \notin loose /\ thr[u].call.pc # "gone" /\ ~thr[u].call.lost
                 /\ thr'[u].currentContext = thr[u].currentContext
                 /\ pending => thr[u].currentContext # old
      <4>1. CASE u = t
        <5>1. ~pending
          BY <2>1, <2>5, <2>8, <2>9, <3>2, <4>1
        <5>. QED
          BY <1>2, <1>3, <2>1, <2>8, <2>9, <3>2, <4>1, <5>1
      <4>2. CASE u # t
        BY <2>1, <2>9, <3>2, <4>2
      <4>. QED
        BY <4>1, <4>2
    <3>3. \A d \in Ctxs : ~pending \/ d # old => ctx'[d] = ctx[d]
      BY <1>1, <2>1 DEF TypeOK
    <3> HIDE DEF pending
    <3>. QED
      BY <1>4, <2>1, <3>1, <3>2, <3>3 DEF SameBindings
  <2>14. CASE ~pending
    <3>1. Range(cmds) = {} /\ ctx' = ctx
      BY <2>1, <2>10, <2>14, RangeShort
    <3>2. SameStreams
      BY <2>11, <3>1 DEF SameStreams, StreamsGain
    <3>3. TypeOK'
      BY <1>1, <1>4, <2>1, <2>9, <2>11, <2>12, <3>1 DEF TypeOK, Handed
    <3>4. SameObjects
      BY <1>4, <2>1, <2>9, <3>1 DEF SameObjects
    <3>. QED
      BY <2>9, <2>13, <3>2, <3>3, <3>4, QuietSafe DEF Quiet
  <2>15. CASE pending
    <3>1. Range(cmds) = {rcDestroyContext(ctx[old].rc)} /\ ctx' = [ctx EXCEPT ![old] = NoContext]
      BY <2>1, <2>10, <2>15, RangeShort
    <3>2. old \in Ctxs /\ ctx[old].live
      BY <1>6, <2>15
    <3>3. ctx' \in [Ctxs -> Context] /\ (Objects /\ InTables /\ DestroyedAreFreed /\ Ends)'
      BY <1>4, <2>1, <2>9, <2>11, <3>1, <3>2, ContextFreed
    <3>4. TypeOK'
      BY <1>1, <1>4, <2>1, <2>9, <2>11, <2>12, <3>3 DEF TypeOK, Handed
    <3>5. Bound'
      BY <2>13, <3>4, BindingsKept
    <3>. QED
      BY <2>9, <3>3, <3>4, <3>5 DEF Safe
  <2>. QED
    BY <2>14, <2>15
<1>. QED
  BY <1>5, <1>6

(* The second half: the host has bound what was asked for, or not. *)
LEMMA MadeCurrentSafe == ASSUME Safe, NEW t \in Threads, MadeCurrent(t) PROVE Safe'
<1> USE DEF guestVars, bufferVars, hostVars
<1>1. TypeOK /\ CallShape /\ Objects /\ Bound
  BY DEF Safe
<1>2. /\ surf' = surf /\ conn' = conn /\ slot' = slot /\ held' = held /\ contexts' = contexts
      /\ windows' = windows /\ count' = count /\ next' = next /\ miscounted' = miscounted /\ dead' = dead
  BY DEF MadeCurrent
<1>3. thr[t].call \in Call /\ Shape(thr[t].call) /\ thr[t].call.pc = "binding" /\ thr[t] \in ThreadInfo
  BY <1>1 DEF TypeOK, ThreadInfo, CallShape, MadeCurrent, Answered, At
<1>4. PICK c \in Ctxs \cup {0} : c = thr[t].call.ctx
  BY <1>3 DEF Call
<1>5. PICK s \in Surfs \cup {0} : s = thr[t].call.surf
  BY <1>3 DEF Call
<1>6. PICK new \in Binding : new = thr[t].call.bind
  BY <1>3 DEF Call
<1>7. PICK old \in Ctxs \cup {0} : old = thr[t].currentContext
  BY <1>3 DEF ThreadInfo
<1>8. IF c = 0 THEN s = 0 /\ new = Nothing ELSE s # 0 /\ new.ctx # 0 /\ new.draw # 0
  BY <1>3, <1>4, <1>5, <1>6 DEF Shape
<1>9. SameStreams
  BY <1>2, ConnSame
<1>10. CASE ~HostBinds(t, new)
  <2>1. /\ Goes(t, Idle) /\ ctx' = ctx /\ current' = current /\ undefined' = undefined
        /\ loose' = IF thr[t].call.lost THEN loose \cup {t} ELSE loose
    BY <1>6, <1>10 DEF MadeCurrent
  <2>2. /\ thr' \in [Threads -> ThreadInfo] /\ CallShape'
        /\ \A u \in Threads : thr'[u].currentContext = thr[u].currentContext
        /\ \A u \in Threads \ {t} : thr'[u] = thr[u]
        /\ GoneThreads' = GoneThreads
    BY <1>1, <1>3, <2>1, IdleCall, GoesEffect
  <2>3. TypeOK'
    BY <1>1, <1>2, <2>1, <2>2 DEF TypeOK, Handed
  <2>4. SameObjects
    BY <1>2, <2>1, <2>2 DEF SameObjects
  <2>5. SameBindings
    <3>1. ASSUME NEW u \in Threads \ loose', thr'[u].call.pc # "gone" /\ ~thr'[u].call.lost
          PROVE  u \notin loose /\ thr[u].call.pc # "gone" /\ ~thr[u].call.lost
      <4>1. CASE u = t
        BY <1>3, <2>1, <3>1, <4>1
      <4>2. CASE u # t
        BY <2>1, <2>2, <3>1, <4>2
      <4>. QED
        BY <4>1, <4>2
    <3>. QED
      BY <1>2, <2>1, <2>2, <3>1 DEF SameBindings
  <2>. QED
    BY <1>9, <2>2, <2>3, <2>4, <2>5, QuietSafe DEF Quiet
<1>11. CASE HostBinds(t, new) /\ \E x \in {c, old} \ {0} : ~ctx[x].live
  <2>1. /\ thr' = thr /\ ctx' = ctx /\ current' = current /\ loose' = loose /\ undefined' = TRUE
    BY <1>4, <1>6, <1>7, <1>11 DEF MadeCurrent
  <2>2. CallShape' /\ GoneThreads' = GoneThreads /\ SameBindings
    BY <1>2, <2>1, GuestQuiet
  <2>3. TypeOK'
    BY <1>1, <1>2, <2>1 DEF TypeOK, Handed
  <2>4. SameObjects
    BY <1>2, <2>1, <2>2 DEF SameObjects
  <2>. QED
    BY <1>9, <2>2, <2>3, <2>4, QuietSafe DEF Quiet
<1>12. CASE HostBinds(t, new) /\ \A x \in {c, old} \ {0} : ctx[x].live
  <2> DEFINE bound == IF c = 0 THEN ctx ELSE [ctx EXCEPT ![c].draw = s, ![c].isCurrent = TRUE]
             matches == c = 0 \/ [ctx |-> ctx[c].rc, draw |-> surf[s].rc] = new
  <2>1. /\ current' = [current EXCEPT ![t] = new]
        /\ thr' = [thr EXCEPT ![t] = [call |-> Idle, currentContext |-> c]]
        /\ ctx' = IF old = 0 THEN bound ELSE [bound EXCEPT ![old].isCurrent = FALSE]
        /\ undefined' = undefined
    BY <1>4, <1>5, <1>6, <1>7, <1>12 DEF MadeCurrent
  <2>2. loose' = IF matches THEN loose \ {t}
                 ELSE loose \cup {t} \cup {u \in Threads : thr[u].currentContext = c}
    BY <1>4, <1>5, <1>6, <1>7, <1>12 DEF MadeCurrent
  <2>3. PICK info \in ThreadInfo : info = [call |-> Idle, currentContext |-> c]
    <3>1. [call |-> Idle, currentContext |-> c] \in ThreadInfo
      BY IdleCall DEF ThreadInfo
    <3>. QED
      BY <3>1
  <2>4. info.call = Idle /\ info.currentContext = c
    BY <2>3
  <2>5. /\ thr' \in [Threads -> ThreadInfo] /\ CallShape'
        /\ thr'[t] = info /\ \A u \in Threads \ {t} : thr'[u] = thr[u]
        /\ GoneThreads' = GoneThreads
    BY <1>1, <1>3, <2>1, <2>3, <2>4, IdleCall, ThreadEffect
  <2>6. /\ bound \in [Ctxs -> Context]
        /\ \A d \in Ctxs \ {c} : bound[d] = ctx[d]
        /\ c # 0 => /\ bound[c].live = ctx[c].live /\ bound[c].rc = ctx[c].rc
                    /\ bound[c].by = ctx[c].by /\ bound[c].draw = s
    <3>1. ctx \in [Ctxs -> Context]
      BY <1>1 DEF TypeOK
    <3>2. CASE c = 0
      BY <3>1, <3>2
    <3>3. CASE c # 0
      <4>1. c \in Ctxs /\ ctx[c] \in Context
        BY <3>1, <3>3
      <4>2. bound = [ctx EXCEPT ![c] = [[ctx[c] EXCEPT !.draw = s] EXCEPT !.isCurrent = TRUE]]
        BY <3>1, <3>3, <4>1
      <4>3. PICK x \in Context : x = [[ctx[c] EXCEPT !.draw = s] EXCEPT !.isCurrent = TRUE]
        BY <4>1 DEF Context
      <4>4. x.live = ctx[c].live /\ x.rc = ctx[c].rc /\ x.by = ctx[c].by /\ x.draw = s
        BY <4>1, <4>3 DEF Context
      <4> HIDE DEF bound
      <4>. QED
        BY <3>1, <4>1, <4>2, <4>3, <4>4
    <3>. QED
      BY <3>2, <3>3
  <2> HIDE DEF bound
  <2>7. /\ ctx' \in [Ctxs -> Context]
        /\ \A d \in Ctxs : /\ ctx'[d].live = bound[d].live /\ ctx'[d].rc = bound[d].rc
                           /\ ctx'[d].by = bound[d].by /\ ctx'[d].draw = bound[d].draw
                           /\ d # old => ctx'[d] = bound[d]
    <3>1. CASE old = 0
      BY <2>1, <2>6, <3>1
    <3>2. CASE old # 0
      <4>1. old \in Ctxs /\ bound[old] \in Context
        BY <2>6, <3>2
      <4>2. PICK x \in Context : x = [bound[old] EXCEPT !.isCurrent = FALSE]
        BY <4>1 DEF Context
      <4>3. /\ x.live = bound[old].live /\ x.rc = bound[old].rc /\ x.by = bound[old].by
            /\ x.draw = bound[old].draw
        BY <4>1, <4>2 DEF Context
      <4>4. ctx' = [bound EXCEPT ![old] = x]
        BY <2>1, <3>2, <4>2
      <4>. QED
        BY <2>6, <4>1, <4>3, <4>4
    <3>. QED
      BY <3>1, <3>2
  <2>8. /\ \A d \in Ctxs : ctx'[d].live = ctx[d].live /\ ctx'[d].rc = ctx[d].rc /\ ctx'[d].by = ctx[d].by
        /\ \A d \in Ctxs \ {c} : ctx'[d].draw = ctx[d].draw
        /\ c # 0 => ctx'[c].draw = s
        /\ \A d \in Ctxs : ~ctx[d].live => ctx'[d] = ctx[d]
    <3>1. \A d \in Ctxs : ~ctx[d].live => d # c /\ d # old
      BY <1>12, EglAssumption
    <3>2. ASSUME NEW d \in Ctxs
          PROVE  /\ ctx'[d].live = ctx[d].live /\ ctx'[d].rc = ctx[d].rc /\ ctx'[d].by = ctx[d].by
                 /\ IF d = c THEN ctx'[d].draw = s ELSE ctx'[d].draw = ctx[d].draw
                 /\ ~ctx[d].live => ctx'[d] = ctx[d]
      <4>1. CASE d = c
        BY <2>6, <2>7, <3>1, <4>1, EglAssumption
      <4>2. CASE d # c
        BY <2>6, <2>7, <3>1, <4>2
      <4>. QED
        BY <4>1, <4>2
    <3>. QED
      BY <3>2
  <2>9. TypeOK'
    <3>1. loose' \subseteq Threads
      BY <1>1, <2>2 DEF TypeOK
    <3>2. current' \in [Threads -> Binding]
      BY <1>1, <2>1 DEF TypeOK
    <3>. QED
      BY <1>1, <1>2, <2>1, <2>5, <2>7, <3>1, <3>2 DEF TypeOK, Handed
  <2>10. SameObjects
    BY <1>2, <2>5, <2>8 DEF SameObjects
  <2>11. Bound'
    <3>1. ASSUME NEW u \in Threads \ loose', thr'[u].call.pc # "gone" /\ ~thr'[u].call.lost
          PROVE  LET d == thr'[u].currentContext IN
                 IF d = 0 THEN current'[u] = Nothing
                 ELSE /\ ctx'[d].live /\ ctx'[d].draw # 0 /\ surf'[ctx'[d].draw].live
                      /\ current'[u] = [ctx |-> ctx'[d].rc, draw |-> surf'[ctx'[d].draw].rc]
      <4>1. CASE u = t
        <5>1. matches /\ thr'[u].currentContext = c /\ current'[u] = new
          BY <1>1, <2>1, <2>2, <2>4, <2>5, <3>1, <4>1 DEF TypeOK
        <5>2. CASE c = 0
          BY <1>8, <5>1, <5>2
        <5>3. CASE c # 0
          <6>1. new = [ctx |-> ctx[c].rc, draw |-> surf[s].rc]
            BY <5>1, <5>3
          <6>2. new.draw = surf[s].rc /\ surf[s].rc # 0 /\ s \in Surfs
            BY <1>8, <5>3, <6>1
          <6>3. surf[s].live
            <7>1. NoSurface.rc = 0
              BY DEF NoSurface
            <7>2. ~surf[s].live => surf[s] = NoSurface
              BY <1>1, <6>2 DEF Objects
            <7>. QED
              BY <6>2, <7>1, <7>2
          <6>4. ctx[c].live /\ c \in Ctxs
            BY <1>12, <5>3
          <6>. QED
            BY <1>2, <1>8, <2>8, <5>1, <5>3, <6>1, <6>3, <6>4
        <5>. QED
          BY <5>2, <5>3
      <4>2. CASE u # t
        <5>1. /\ u \notin loose /\ thr'[u] = thr[u] /\ current'[u] = current[u]
          BY <1>1, <2>1, <2>2, <2>5, <3>1, <4>2 DEF TypeOK
        <5>2. PICK d \in Ctxs \cup {0} : d = thr[u].currentContext
          BY <1>1 DEF TypeOK, ThreadInfo
        <5>3. CASE d = 0
          BY <1>1, <3>1, <5>1, <5>2, <5>3 DEF Bound
        <5>4. CASE d # 0
          <6>1. /\ ctx[d].live /\ ctx[d].draw # 0 /\ surf[ctx[d].draw].live
                /\ current[u] = [ctx |-> ctx[d].rc, draw |-> surf[ctx[d].draw].rc]
            BY <1>1, <3>1, <5>1, <5>2, <5>4 DEF Bound
          <6>2. d # c
            <7>1. SUFFICES ASSUME d = c PROVE FALSE
              OBVIOUS
            <7>2. matches /\ c # 0
              BY <2>2, <3>1, <5>2, <5>4, <7>1
            <7>3. new.ctx = ctx[c].rc /\ new # Nothing
              BY <1>8, <7>2 DEF Nothing
            <7>4. current[u].ctx # new.ctx
              BY <1>12, <4>2, <7>3 DEF HostBinds
            <7>5. current[u].ctx = ctx[c].rc
              BY <6>1, <7>1
            <7>. QED
              BY <7>3, <7>4, <7>5
          <6>. QED
            BY <1>2, <2>8, <5>1, <5>2, <5>4, <6>1, <6>2
        <5>. QED
          BY <5>3, <5>4
      <4>. QED
        BY <4>1, <4>2
    <3>. QED
      BY <3>1 DEF Bound
  <2>12. (Objects /\ InTables /\ DestroyedAreFreed /\ Ends)'
    BY <1>9, <2>10, ObjectsKept
  <2>. QED
    BY <2>5, <2>9, <2>11, <2>12 DEF Safe
<1>. QED
  BY <1>10, <1>11, <1>12

----------------------------------------------------------------------------
(* Threads and the application end. *)

(* The record of a thread that is gone. *)
LEMMA GoneCall == Gone \in ThreadInfo /\ Shape(Gone.call) /\ Gone.call.pc = "gone"
<1>1. /\ [Idle EXCEPT !.pc = "gone"] \in Call /\ Shape([Idle EXCEPT !.pc = "gone"])
      /\ [Idle EXCEPT !.pc = "gone"].pc = "gone"
  BY DEF Idle, Call, Shape, Nothing, Binding
<1>. QED
  BY <1>1 DEF Gone, ThreadInfo

(* A thread ends: the end of its stream follows all it has written. *)
LEMMA ThreadExitsSafe == ASSUME Safe, NEW t \in Threads, ThreadExits(t) PROVE Safe'
<1> USE DEF guestVars, bufferVars, hostVars
<1>1. TypeOK /\ CallShape /\ Objects /\ InTables /\ DestroyedAreFreed /\ Ends /\ t \in Conns
  BY DEF Safe, Conns
<1>2. /\ thr' = [thr EXCEPT ![t] = Gone] /\ loose' = loose \ {t} /\ conn' = Flushed(t, <<<<"eof">>>>)
      /\ ctx' = ctx /\ surf' = surf /\ slot' = slot /\ held' = held /\ contexts' = contexts
      /\ windows' = windows /\ count' = count /\ current' = current /\ next' = next
      /\ miscounted' = miscounted /\ dead' = dead /\ undefined' = undefined
  BY DEF ThreadExits
<1>3. /\ thr' \in [Threads -> ThreadInfo] /\ CallShape'
      /\ thr'[t] = Gone /\ \A u \in Threads \ {t} : thr'[u] = thr[u]
  BY <1>1, <1>2, GoneCall, ThreadEffect
<1>4. GoneThreads' = GoneThreads \cup {t}
  BY <1>3, GoneCall DEF GoneThreads
<1>5. PICK cmds \in Seq(Commands) : cmds = <<<<"eof">>>> /\ Range(cmds) = {<<"eof">>}
  <2>1. <<<<"eof">>>> \in Seq(Commands)
    BY CommandShapes
  <2>2. Range(<<<<"eof">>>>) = {<<"eof">>}
    BY RangeShort
  <2>. QED
    BY <2>1, <2>2
<1>6. /\ conn' \in [Conns -> Stream] /\ Kept(t)' = {} /\ Sent(t)' = OnTheWay(t) \cup {<<"eof">>}
      /\ \A u \in Conns \ {t} : conn'[u] = conn[u]
  BY <1>1, <1>2, <1>5, FlushedEffect
<1>7. \A u \in Conns \ {t} : Kept(u)' = Kept(u) /\ Sent(u)' = Sent(u)
  BY <1>6 DEF Kept, Sent
<1>8. TypeOK'
  BY <1>1, <1>2, <1>3, <1>6 DEF TypeOK, Handed
<1>9. Objects'
  BY <1>1, <1>2 DEF Objects, Handed
<1>10. InTables'
  BY <1>1, <1>2, <1>4 DEF InTables
<1>11. DestroyedAreFreed'
  <2>1. \A h : rcDestroyContext(h) # <<"eof">> /\ rcDestroyWindowSurface(h) # <<"eof">>
    BY DEF rcDestroyContext, rcDestroyWindowSurface
  <2>2. ASSUME NEW u \in Conns PROVE OnTheWay(u)' \subseteq OnTheWay(u) \cup {<<"eof">>}
    BY <1>6, <1>7 DEF OnTheWay
  <2>3. ASSUME NEW u \in Conns, NEW h \in Nat
        PROVE  /\ rcDestroyContext(h) \in OnTheWay(u)' => rcDestroyContext(h) \in OnTheWay(u)
               /\ rcDestroyWindowSurface(h) \in OnTheWay(u)' => rcDestroyWindowSurface(h) \in OnTheWay(u)
    BY <2>1, <2>2
  <2>. QED
    BY <1>1, <1>2, <2>3 DEF DestroyedAreFreed
<1>12. Ends'
  <2>1. ASSUME NEW u \in Conns PROVE <<"eof">> \notin Kept(u)' /\ (<<"eof">> \in Sent(u)' => u \in GoneThreads')
    <3>1. CASE u = t
      BY <1>4, <1>6, <3>1
    <3>2. CASE u # t
      BY <1>1, <1>4, <1>7, <3>2 DEF Ends
    <3>. QED
      BY <3>1, <3>2
  <2>2. ASSUME NEW u \in GoneThreads',
               (\E h \in DOMAIN contexts : contexts[h] = u) \/ (\E h \in DOMAIN windows : windows[h].by = u)
        PROVE  <<"eof">> \in Sent(u)'
    <3>1. CASE u = t
      BY <1>6, <3>1
    <3>2. CASE u # t
      <4>1. u \in GoneThreads /\ u \in Conns
        BY <1>4, <3>2 DEF GoneThreads, Conns
      <4>2. <<"eof">> \in Sent(u)
        BY <1>1, <2>2, <4>1 DEF Ends
      <4>. QED
        BY <1>7, <3>2, <4>1, <4>2
    <3>. QED
      BY <3>1, <3>2
  <2>3. dead' => GoneThreads' = Threads
    BY <1>1, <1>2, <1>4 DEF Ends
  <2>. QED
    BY <1>2, <2>1, <2>2, <2>3 DEF Ends
<1>13. SameBindings
  <2>1. ASSUME NEW u \in Threads \ loose', thr'[u].call.pc # "gone" /\ ~thr'[u].call.lost
        PROVE  u # t
    BY <1>3, <2>1, GoneCall
  <2>. QED
    BY <1>2, <1>3, <2>1 DEF SameBindings
<1>14. Bound'
  BY <1>8, <1>13, BindingsKept
<1>. QED
  BY <1>3, <1>8, <1>9, <1>10, <1>11, <1>12, <1>14 DEF Safe

(* The application is killed. *)
LEMMA DiesSafe == ASSUME Safe, ApplicationDies PROVE Safe'
<1> USE DEF guestVars, bufferVars, hostVars
<1>1. TypeOK /\ Ends /\ DestroyedAreFreed
  BY DEF Safe
<1>2. /\ dead' = TRUE /\ thr' = [t \in Threads |-> Gone]
      /\ ctx' = [c \in Ctxs |-> NoContext] /\ surf' = [s \in Surfs |-> NoSurface] /\ loose' = {}
      /\ conn' = [t \in Conns |-> IF t = "sf" \/ thr[t].call.pc = "gone" THEN conn[t]
                                  ELSE [buf |-> <<>>, pipe |-> Append(conn[t].pipe, <<"eof">>)]]
      /\ held' = [b \in Buffers |-> held[b] \ {"app"}]
      /\ slot' = slot /\ contexts' = contexts /\ windows' = windows /\ count' = count
      /\ current' = current /\ next' = next /\ miscounted' = miscounted /\ undefined' = undefined
  BY DEF ApplicationDies
<1>3. NoContext \in Context /\ ~NoContext.live /\ NoSurface \in Surface /\ ~NoSurface.live
  BY DEF NoContext, Context, NoSurface, Surface
<1>4. GoneThreads' = Threads /\ CallShape'
  <2>1. \A t \in Threads : thr'[t] = Gone
    BY <1>2
  <2>2. GoneThreads' = Threads
    BY <2>1, GoneCall DEF GoneThreads
  <2>3. \A t \in Threads : Shape(thr'[t].call)
    BY <2>1, GoneCall
  <2>. QED
    BY <2>2, <2>3 DEF CallShape, Shape
<1>5. ASSUME NEW t \in Conns
      PROVE  /\ conn'[t] \in Stream
             /\ <<"eof">> \notin Kept(t)'
             /\ OnTheWay(t)' \subseteq OnTheWay(t) \cup {<<"eof">>}
             /\ <<"eof">> \in Sent(t) => <<"eof">> \in Sent(t)'
             /\ t \in Threads /\ t \notin GoneThreads => <<"eof">> \in Sent(t)'
             /\ <<"eof">> \in Sent(t)' => t \in Threads
  <2>1. conn[t] \in Stream /\ <<"eof">> \notin Kept(t) /\ (<<"eof">> \in Sent(t) => t \in GoneThreads)
    BY <1>1 DEF TypeOK, Ends
  <2>2. CASE t = "sf" \/ thr[t].call.pc = "gone"
    <3>1. conn'[t] = conn[t]
      BY <1>2, <2>2
    <3>2. Kept(t)' = Kept(t) /\ Sent(t)' = Sent(t)
      BY <3>1 DEF Kept, Sent
    <3>3. t \in Threads => t \in GoneThreads
      BY <2>2, EglAssumption DEF GoneThreads
    <3>4. GoneThreads \subseteq Threads
      BY DEF GoneThreads
    <3>. QED
      BY <2>1, <3>1, <3>2, <3>3, <3>4 DEF OnTheWay
  <2>3. CASE ~(t = "sf" \/ thr[t].call.pc = "gone")
    <3>1. conn[t].pipe \in Seq(Commands) /\ <<"eof">> \in Commands
      BY <2>1, CommandShapes DEF Stream
    <3>2. PICK p \in Seq(Commands) : p = Append(conn[t].pipe, <<"eof">>) /\ Range(p) = Sent(t) \cup {<<"eof">>}
      BY <3>1, RangeAppend DEF Sent
    <3>3. conn'[t] = [buf |-> <<>>, pipe |-> p]
      BY <1>2, <2>3, <3>2
    <3>4. conn'[t] \in Stream /\ conn'[t].buf = <<>> /\ conn'[t].pipe = p
      BY <3>3 DEF Stream
    <3>5. Kept(t)' = {} /\ Sent(t)' = Sent(t) \cup {<<"eof">>}
      BY <3>2, <3>4, RangeShort DEF Kept, Sent
    <3>6. t \in Threads
      BY <2>3 DEF Conns
    <3>. QED
      BY <3>4, <3>5, <3>6 DEF OnTheWay
  <2>. QED
    BY <2>2, <2>3
<1>6. TypeOK'
  <2>1. conn' \in [Conns -> Stream]
    BY <1>2, <1>5
  <2>2. thr' \in [Threads -> ThreadInfo]
    BY <1>2, GoneCall
  <2>3. held' \in [Buffers -> SUBSET {"app", "sf"}]
    BY <1>1, <1>2 DEF TypeOK
  <2>. QED
    BY <1>1, <1>2, <1>3, <2>1, <2>2, <2>3 DEF TypeOK, Handed
<1>7. Objects' /\ InTables'
  BY <1>2, <1>3 DEF Objects, InTables
<1>8. DestroyedAreFreed'
  <2>1. \A h : rcDestroyContext(h) # <<"eof">> /\ rcDestroyWindowSurface(h) # <<"eof">>
    BY DEF rcDestroyContext, rcDestroyWindowSurface
  <2>2. ASSUME NEW u \in Conns, NEW h \in Nat
        PROVE  /\ rcDestroyContext(h) \in OnTheWay(u)' => h < next
               /\ rcDestroyWindowSurface(h) \in OnTheWay(u)' => h < next
    BY <1>1, <1>5, <2>1 DEF DestroyedAreFreed
  <2>3. (\A c \in Ctxs : ~ctx'[c].live) /\ (\A s \in Surfs : ~surf'[s].live)
    BY <1>2, <1>3
  <2>. QED
    BY <1>2, <2>2, <2>3 DEF DestroyedAreFreed
<1>9. Ends'
  <2>1. ASSUME NEW u \in Threads,
               (\E h \in DOMAIN contexts : contexts[h] = u) \/ (\E h \in DOMAIN windows : windows[h].by = u)
        PROVE  <<"eof">> \in Sent(u)'
    <3>1. u \in Conns
      BY DEF Conns
    <3>2. u \in GoneThreads => <<"eof">> \in Sent(u)
      BY <1>1, <2>1 DEF Ends
    <3>. QED
      BY <1>5, <3>1, <3>2
  <2>. QED
    BY <1>2, <1>4, <1>5, <2>1 DEF Ends
<1>10. Bound'
  <2>1. \A u \in Threads : thr'[u].call.pc = "gone"
    BY <1>2, GoneCall
  <2>. QED
    BY <2>1 DEF Bound
<1>. QED
  BY <1>4, <1>6, <1>7, <1>8, <1>9, <1>10 DEF Safe

----------------------------------------------------------------------------
(* The render threads of the host. *)

(* A context is destroyed that no guest holds any more. *)
LEMMA DestroyRenderContextSafe ==
  ASSUME Safe, NEW t \in Threads, DestroyRenderContext(t) PROVE Safe'
<1> USE DEF guestVars, bufferVars, hostVars
<1>1. /\ TypeOK /\ Objects /\ InTables /\ DestroyedAreFreed /\ Ends /\ t \in Conns
      /\ Executes(t, "destroyContext")
  BY DEF Safe, Conns, DestroyRenderContext
<1>2. conn' \in [Conns -> Stream] /\ SameStreams
  BY <1>1, ExecuteSame
<1>3. /\ thr' = thr /\ ctx' = ctx /\ surf' = surf /\ loose' = loose /\ current' = current
      /\ slot' = slot /\ held' = held /\ windows' = windows /\ count' = count /\ next' = next
      /\ miscounted' = miscounted /\ dead' = dead /\ undefined' = undefined
  BY <1>1 DEF DestroyRenderContext, Executes
<1>4. CallShape' /\ GoneThreads' = GoneThreads /\ SameBindings
  BY <1>3, GuestQuiet
<1>5. PICK x \in Commands : x = Head(conn[t].pipe) /\ x \in Sent(t) /\ x[1] = "destroyContext"
  BY <1>1, ExecutedEffect DEF Executes, Arg
<1>6. PICK h \in Nat : h = x[2] /\ x = rcDestroyContext(h)
  BY <1>5, CommandShapes
<1>7. \A c \in Ctxs : ctx[c].live => ctx[c].rc # h
  BY <1>1, <1>5, <1>6 DEF DestroyedAreFreed, OnTheWay
<1>8. DOMAIN contexts' = DOMAIN contexts \ {h} /\ \A i \in DOMAIN contexts' : contexts'[i] = contexts[i]
  <2>1. contexts' = Without(contexts, {h})
    BY <1>5, <1>6 DEF DestroyRenderContext, Arg
  <2>. QED
    BY <2>1 DEF Without
<1>9. TypeOK'
  BY <1>1, <1>2, <1>3, <1>8 DEF TypeOK, Handed
<1>10. Objects'
  BY <1>1, <1>3 DEF Objects, Handed
<1>11. InTables'
  BY <1>1, <1>3, <1>4, <1>7, <1>8 DEF InTables
<1>12. DestroyedAreFreed'
  <2>1. ASSUME NEW u \in Conns, NEW i \in Nat
        PROVE  /\ rcDestroyContext(i) \in OnTheWay(u)' => rcDestroyContext(i) \in OnTheWay(u)
               /\ rcDestroyWindowSurface(i) \in OnTheWay(u)' => rcDestroyWindowSurface(i) \in OnTheWay(u)
    BY <1>2, HarmlessCommands DEF SameStreams, StreamsGain
  <2>. QED
    BY <1>1, <1>3, <2>1 DEF DestroyedAreFreed
<1>13. Ends'
  <2>1. ASSUME NEW u \in Conns
        PROVE  <<"eof">> \notin Kept(u)' /\ (<<"eof">> \in Sent(u)' <=> <<"eof">> \in Sent(u))
    <3>1. <<"eof">> \notin Kept(u)
      BY <1>1 DEF Ends
    <3>. QED
      BY <1>2, <3>1, HarmlessCommands DEF SameStreams, StreamsGain, OnTheWay
  <2>2. GoneThreads \subseteq Conns
    BY DEF GoneThreads, Conns
  <2>3. ASSUME NEW u, \E i \in DOMAIN contexts' : contexts'[i] = u
        PROVE  \E i \in DOMAIN contexts : contexts[i] = u
    BY <1>8, <2>3
  <2>. QED
    BY <1>1, <1>3, <1>4, <2>1, <2>2, <2>3 DEF Ends
<1>14. Bound'
  BY <1>4, <1>9, BindingsKept
<1>. QED
  BY <1>4, <1>9, <1>10, <1>11, <1>12, <1>13, <1>14 DEF Safe

(* The same for a surface. *)
LEMMA DestroyWindowSafe ==
  ASSUME Safe, NEW t \in Threads, DestroyWindowSurface(t) PROVE Safe'
<1> USE DEF guestVars, bufferVars, hostVars
<1>1. /\ TypeOK /\ Objects /\ InTables /\ DestroyedAreFreed /\ Ends /\ t \in Conns
      /\ Executes(t, "destroyWindow")
  BY DEF Safe, Conns, DestroyWindowSurface
<1>2. conn' \in [Conns -> Stream] /\ SameStreams
  BY <1>1, ExecuteSame
<1>3. /\ thr' = thr /\ ctx' = ctx /\ surf' = surf /\ loose' = loose /\ current' = current
      /\ slot' = slot /\ held' = held /\ contexts' = contexts /\ count' = count /\ next' = next
      /\ miscounted' = miscounted /\ dead' = dead /\ undefined' = undefined
  BY <1>1 DEF DestroyWindowSurface, Executes
<1>4. CallShape' /\ GoneThreads' = GoneThreads /\ SameBindings
  BY <1>3, GuestQuiet
<1>5. PICK x \in Commands : x = Head(conn[t].pipe) /\ x \in Sent(t) /\ x[1] = "destroyWindow"
  BY <1>1, ExecutedEffect DEF Executes, Arg
<1>6. PICK h \in Nat : h = x[2] /\ x = rcDestroyWindowSurface(h)
  BY <1>5, CommandShapes
<1>7. \A s \in Surfs : surf[s].live => surf[s].rc # h
  BY <1>1, <1>5, <1>6 DEF DestroyedAreFreed, OnTheWay
<1>8. DOMAIN windows' = DOMAIN windows \ {h} /\ \A i \in DOMAIN windows' : windows'[i] = windows[i]
  <2>1. windows' = Without(windows, {h})
    BY <1>5, <1>6 DEF DestroyWindowSurface, Arg
  <2>. QED
    BY <2>1 DEF Without
<1>9. TypeOK'
  BY <1>1, <1>2, <1>3, <1>8 DEF TypeOK, Handed
<1>10. Objects'
  BY <1>1, <1>3 DEF Objects, Handed
<1>11. InTables'
  BY <1>1, <1>3, <1>4, <1>7, <1>8 DEF InTables
<1>12. DestroyedAreFreed'
  <2>1. ASSUME NEW u \in Conns, NEW i \in Nat
        PROVE  /\ rcDestroyContext(i) \in OnTheWay(u)' => rcDestroyContext(i) \in OnTheWay(u)
               /\ rcDestroyWindowSurface(i) \in OnTheWay(u)' => rcDestroyWindowSurface(i) \in OnTheWay(u)
    BY <1>2, HarmlessCommands DEF SameStreams, StreamsGain
  <2>. QED
    BY <1>1, <1>3, <2>1 DEF DestroyedAreFreed
<1>13. Ends'
  <2>1. ASSUME NEW u \in Conns
        PROVE  <<"eof">> \notin Kept(u)' /\ (<<"eof">> \in Sent(u)' <=> <<"eof">> \in Sent(u))
    <3>1. <<"eof">> \notin Kept(u)
      BY <1>1 DEF Ends
    <3>. QED
      BY <1>2, <3>1, HarmlessCommands DEF SameStreams, StreamsGain, OnTheWay
  <2>2. GoneThreads \subseteq Conns
    BY DEF GoneThreads, Conns
  <2>3. ASSUME NEW u, \E i \in DOMAIN windows' : windows'[i].by = u
        PROVE  \E i \in DOMAIN windows : windows[i].by = u
    BY <1>8, <2>3
  <2>. QED
    BY <1>1, <1>3, <1>4, <2>1, <2>2, <2>3 DEF Ends
<1>14. Bound'
  BY <1>4, <1>9, BindingsKept
<1>. QED
  BY <1>4, <1>9, <1>10, <1>11, <1>12, <1>13, <1>14 DEF Safe

(* The smaller of two numbers. *)
LEMMA MinOfTwo == ASSUME NEW m \in Nat, NEW n \in Nat
                  PROVE Min({m, n}) \in Nat /\ Min({m, n}) <= m /\ Min({m, n}) <= n
<1>1. \E x \in {m, n} : \A y \in {m, n} : x <= y
  <2>1. CASE m <= n
    BY <2>1
  <2>2. CASE n <= m
    BY <2>2
  <2>. QED
    BY <2>1, <2>2
<1>2. Min({m, n}) \in {m, n} /\ \A y \in {m, n} : Min({m, n}) <= y
  BY <1>1 DEF Min
<1>. QED
  BY <1>2

(* What the end of a render thread takes from the count of a buffer. *)
Mine(t) == {w \in DOMAIN windows : windows[w].by = t}
Drops(t, b) == Min({count[b], Cardinality({w \in Mine(t) : windows[w].buffer = b})})

(* It takes no more than there is. *)
LEMMA DropsNat == ASSUME TypeOK, NEW t, NEW b \in Buffers
                  PROVE Drops(t, b) \in Nat /\ Drops(t, b) <= count[b]
<1>1. next \in Nat /\ count[b] \in Nat /\ DOMAIN windows \subseteq 1 .. (next - 1)
  BY DEF TypeOK, Handed
<1>2. IsFiniteSet(1 .. (next - 1))
  <2>1. 1 \in Int /\ next - 1 \in Int
    BY <1>1
  <2>. QED
    BY <2>1, FS_Interval
<1>3. PICK W : W = {w \in Mine(t) : windows[w].buffer = b}
  OBVIOUS
<1>4. W \subseteq 1 .. (next - 1)
  BY <1>1, <1>3 DEF Mine
<1>5. IsFiniteSet(W)
  BY <1>2, <1>4, FS_Subset, Zenon
<1>6. Cardinality(W) \in Nat
  BY <1>5, FS_CardinalityType
<1>7. PICK n \in Nat : n = Cardinality(W)
  BY <1>6
<1>8. PICK m \in Nat : m = count[b]
  BY <1>1
<1>9. Min({m, n}) \in Nat /\ Min({m, n}) <= m
  BY MinOfTwo
<1>. QED
  BY <1>3, <1>7, <1>8, <1>9 DEF Drops

(* The end of a stream is met: the host forgets what the thread had. *)
LEMMA RenderThreadEndsSafe ==
  ASSUME Safe, NEW t \in Threads, RenderThreadEnds(t) PROVE Safe'
<1> USE DEF guestVars, bufferVars, hostVars
<1>1. /\ TypeOK /\ CallShape /\ Objects /\ InTables /\ DestroyedAreFreed /\ Ends /\ Bound /\ t \in Conns
      /\ Executes(t, "eof")
  BY DEF Safe, Conns, RenderThreadEnds
<1>2. /\ thr' = thr /\ ctx' = ctx /\ surf' = surf /\ loose' = loose /\ slot' = slot /\ held' = held
      /\ next' = next /\ dead' = dead /\ undefined' = undefined
      /\ current' = [current EXCEPT ![t] = Nothing]
      /\ contexts' = Without(contexts, {c \in DOMAIN contexts : contexts[c] = t})
      /\ windows' = Without(windows, Mine(t))
      /\ count' = [b \in Buffers |-> count[b] - Drops(t, b)]
      /\ miscounted' = miscounted \cup {b \in Buffers : Drops(t, b) > 0}
  BY <1>1 DEF RenderThreadEnds, Executes, Mine, Drops
<1>3. /\ conn' \in [Conns -> Stream] /\ Kept(t)' = Kept(t) /\ Sent(t) = {Head(conn[t].pipe)} \cup Sent(t)'
      /\ \A u \in Conns \ {t} : conn'[u] = conn[u]
      /\ Head(conn[t].pipe) \in Commands
  BY <1>1, ExecutedEffect DEF Executes
<1>4. Head(conn[t].pipe) = <<"eof">>
  BY <1>1, <1>3, CommandShapes DEF Executes, Arg
<1>5. t \in GoneThreads
  BY <1>1, <1>3, <1>4 DEF Ends
<1>6. GoneThreads' = GoneThreads /\ CallShape'
  BY <1>1, <1>2 DEF GoneThreads, CallShape, Shape
<1>7. /\ DOMAIN contexts' = {c \in DOMAIN contexts : contexts[c] # t}
      /\ \A h \in DOMAIN contexts' : contexts'[h] = contexts[h]
  BY <1>2 DEF Without
<1>8. /\ DOMAIN windows' = {w \in DOMAIN windows : windows[w].by # t}
      /\ \A h \in DOMAIN windows' : windows'[h] = windows[h]
  BY <1>2 DEF Without, Mine
<1>9. TypeOK'
  <2>1. count' \in [Buffers -> Nat]
    <3>1. ASSUME NEW b \in Buffers PROVE count[b] - Drops(t, b) \in Nat
      <4>1. count[b] \in Nat /\ Drops(t, b) \in Nat /\ Drops(t, b) <= count[b]
        BY <1>1, DropsNat DEF TypeOK
      <4>. QED
        BY <4>1
    <3>. QED
      BY <1>2, <3>1
  <2>2. miscounted' \subseteq Buffers
    BY <1>1, <1>2 DEF TypeOK
  <2>3. current' \in [Threads -> Binding]
    BY <1>1, <1>2 DEF TypeOK, Nothing, Binding
  <2>. QED
    BY <1>1, <1>2, <1>3, <1>7, <1>8, <2>1, <2>2, <2>3 DEF TypeOK, Handed
<1>10. Objects'
  BY <1>1, <1>2 DEF Objects, Handed
<1>11. InTables'
  <2>1. \A c \in Ctxs : ctx[c].live /\ ctx[c].by \notin GoneThreads =>
           ctx[c].rc \in DOMAIN contexts' /\ contexts'[ctx[c].rc] = ctx[c].by
    BY <1>1, <1>5, <1>7 DEF InTables
  <2>2. \A s \in Surfs : surf[s].live /\ surf[s].by \notin GoneThreads =>
           surf[s].rc \in DOMAIN windows' /\ windows'[surf[s].rc].by = surf[s].by
    BY <1>1, <1>5, <1>8 DEF InTables
  <2>. QED
    BY <1>2, <1>6, <2>1, <2>2 DEF InTables
<1>12. \A u \in Conns : Kept(u)' = Kept(u) /\ Sent(u)' \subseteq Sent(u)
  <2>1. \A u \in Conns \ {t} : Kept(u)' = Kept(u) /\ Sent(u)' = Sent(u)
    BY <1>3 DEF Kept, Sent
  <2>. QED
    BY <1>3, <2>1
<1>13. DestroyedAreFreed'
  <2>1. \A u \in Conns : OnTheWay(u)' \subseteq OnTheWay(u)
    BY <1>12 DEF OnTheWay
  <2>. QED
    BY <1>1, <1>2, <2>1 DEF DestroyedAreFreed
<1>14. Ends'
  <2>1. ASSUME NEW u \in GoneThreads,
               (\E h \in DOMAIN contexts' : contexts'[h] = u) \/ (\E h \in DOMAIN windows' : windows'[h].by = u)
        PROVE  <<"eof">> \in Sent(u)'
    <3>1. u # t
      BY <1>7, <1>8, <2>1
    <3>2. (\E h \in DOMAIN contexts : contexts[h] = u) \/ (\E h \in DOMAIN windows : windows[h].by = u)
      BY <1>7, <1>8, <2>1
    <3>3. <<"eof">> \in Sent(u) /\ u \in Conns
      BY <1>1, <3>2 DEF Ends, GoneThreads, Conns
    <3>. QED
      BY <1>3, <3>1, <3>3 DEF Sent
  <2>2. \A u \in Conns : /\ <<"eof">> \notin Kept(u)'
                         /\ <<"eof">> \in Sent(u)' => u \in GoneThreads'
    BY <1>1, <1>6, <1>12 DEF Ends
  <2>. QED
    BY <1>1, <1>2, <1>6, <2>1, <2>2 DEF Ends
<1>15. SameBindings
  <2>1. \A u \in Threads : thr[u].call.pc # "gone" => u # t
    BY <1>5 DEF GoneThreads
  <2>2. \A u \in Threads \ {t} : current'[u] = current[u]
    BY <1>1, <1>2 DEF TypeOK
  <2>. QED
    BY <1>2, <2>1, <2>2 DEF SameBindings
<1>16. Bound'
  BY <1>9, <1>15, BindingsKept
<1>. QED
  BY <1>6, <1>9, <1>10, <1>11, <1>13, <1>14, <1>16 DEF Safe

----------------------------------------------------------------------------
(* Every behaviour. *)

(* Nothing exists at first. *)
LEMMA InitSafe == Init => Safe
<1> SUFFICES ASSUME Init PROVE Safe
  OBVIOUS
<1>1. /\ thr = [t \in Threads |-> [call |-> Idle, currentContext |-> 0]]
      /\ ctx = [c \in Ctxs |-> NoContext] /\ surf = [s \in Surfs |-> NoSurface]
      /\ conn = [t \in Conns |-> [buf |-> <<>>, pipe |-> <<>>]]
      /\ slot = [b \in Buffers |-> "none"] /\ held = [b \in Buffers |-> {}]
      /\ contexts = <<>> /\ windows = <<>> /\ count = [b \in Buffers |-> 0]
      /\ current = [t \in Threads |-> Nothing] /\ next = 1
      /\ loose = {} /\ miscounted = {} /\ dead = FALSE /\ undefined = FALSE
  BY DEF Init
<1>2. NoContext \in Context /\ ~NoContext.live /\ NoSurface \in Surface /\ ~NoSurface.live
  BY DEF NoContext, Context, NoSurface, Surface
<1>3. DOMAIN contexts = {} /\ DOMAIN windows = {}
  BY <1>1
<1>4. \A t \in Threads : thr[t].call = Idle /\ thr[t].currentContext = 0
  BY <1>1
<1>5. GoneThreads = {}
  BY <1>4, IdleCall DEF GoneThreads
<1>6. \A t \in Conns : conn[t].buf = <<>> /\ conn[t].pipe = <<>>
  BY <1>1
<1>7. \A t \in Conns : Kept(t) = {} /\ Sent(t) = {}
  BY <1>6, RangeShort DEF Kept, Sent
<1>8. TypeOK
  <2>1. thr \in [Threads -> ThreadInfo]
    BY <1>1, IdleCall DEF ThreadInfo
  <2>2. conn \in [Conns -> Stream]
    BY <1>1 DEF Stream
  <2>3. current \in [Threads -> Binding]
    BY <1>1 DEF Nothing, Binding
  <2>4. ctx \in [Ctxs -> Context] /\ surf \in [Surfs -> Surface]
    BY <1>1, <1>2
  <2>5. /\ slot \in [Buffers -> {"none", "free", "dequeued", "queued", "freed"}]
        /\ held \in [Buffers -> SUBSET {"app", "sf"}] /\ count \in [Buffers -> Nat]
    BY <1>1
  <2>6. next \in Nat \ {0} /\ loose \subseteq Threads /\ miscounted \subseteq Buffers
    BY <1>1
  <2>7. dead \in BOOLEAN /\ undefined \in BOOLEAN
    BY <1>1
  <2>8. DOMAIN contexts \subseteq Handed /\ \A h \in DOMAIN contexts : contexts[h] \in Threads
    BY <1>3
  <2>9. DOMAIN windows \subseteq Handed /\ \A h \in DOMAIN windows : windows[h] \in Window
    BY <1>3
  <2>. QED
    BY <2>1, <2>2, <2>3, <2>4, <2>5, <2>6, <2>7, <2>8, <2>9 DEF TypeOK
<1>9. CallShape
  BY <1>4, IdleCall DEF CallShape
<1>10. Objects /\ InTables
  BY <1>1, <1>2 DEF Objects, InTables
<1>11. DestroyedAreFreed /\ Ends
  BY <1>1, <1>5, <1>7 DEF DestroyedAreFreed, Ends, OnTheWay
<1>12. Bound
  BY <1>1, <1>4 DEF Bound
<1>. QED
  BY <1>8, <1>9, <1>10, <1>11, <1>12 DEF Safe

(* Every step of the guest and of the host preserves the invariant. *)
LEMMA NextSafe == Safe /\ [Next]_vars => Safe'
<1> SUFFICES ASSUME Safe, [Next]_vars PROVE Safe'
  OBVIOUS
<1>1. CASE SurfaceFlinger
  BY <1>1, SurfaceFlingerSafe DEF SurfaceFlinger
<1>2. CASE ApplicationDies
  BY <1>2, DiesSafe
<1>3. ASSUME NEW t \in Threads, Application(t) PROVE Safe'
  BY <1>3, CreateContextSafe, MadeCurrentSafe, RegisterSafe, SwappedSafe, ThreadExitsSafe,
     ContextCreatedSafe, DestroyContextSafe, MakeCurrentSafe, CreateWindowSafe, UnregisterSafe,
     WindowCreatedSafe, DestroySurfaceSafe, SwapBuffersSafe, DequeuedSafe DEF Application
<1>4. ASSUME NEW t \in Conns, Host(t) PROVE Safe'
  BY <1>4, CloseSafe, DestroyRenderContextSafe, DestroyWindowSafe, SetWindowSafe,
     RenderThreadEndsSafe DEF Host
<1>5. CASE UNCHANGED vars
  <2> USE <1>5 DEF vars, guestVars, bufferVars, hostVars
  <2>1. TypeOK'
    BY DEF Safe, TypeOK, Handed
  <2>2. CallShape' /\ GoneThreads' = GoneThreads /\ SameBindings
    BY GuestQuiet
  <2>3. SameObjects
    BY <2>2 DEF SameObjects
  <2>. QED
    BY <2>1, <2>2, <2>3, ConnSame, QuietSafe DEF Quiet
<1>. QED
  BY <1>1, <1>2, <1>3, <1>4, <1>5 DEF Next

(* The invariant holds in every behaviour. *)
LEMMA AlwaysSafe == Spec => []Safe
BY InitSafe, NextSafe, PTL DEF Spec

(* What a thread takes for current is what its render thread draws with,   *)
(* as long as eglDestroyContext and eglDestroySurface leave alone what is  *)
(* bound and no eglMakeCurrent fails after a pending deletion.             *)
THEOREM BoundAlike == Spec => []BindingsAgree
<1>1. Safe => BindingsAgree
  <2> SUFFICES ASSUME Safe, NEW t \in Threads \ loose, thr[t].call.pc = "idle"
               PROVE  LET c == thr[t].currentContext IN
                      IF c = 0 THEN current[t] = Nothing
                      ELSE current[t] = [ctx |-> ctx[c].rc, draw |-> surf[ctx[c].draw].rc]
    BY DEF BindingsAgree
  <2>1. ~thr[t].call.lost
    BY DEF Safe, CallShape, Shape
  <2>. QED
    BY <2>1 DEF Safe, Bound
<1>. QED
  BY <1>1, AlwaysSafe, PTL

(* The tables of the Renderer hold every object of which a live thread's   *)
(* guest has the handle, whatever destroy commands are still in streams;   *)
(* and nothing of an application whose streams have been read to the end.  *)
THEOREM HandlesHeld == Spec => []HostKeepsWhatGuestHolds
<1>1. Safe => HostKeepsWhatGuestHolds
  <2> SUFFICES ASSUME Safe PROVE HostKeepsWhatGuestHolds
    OBVIOUS
  <2>1. TypeOK /\ Objects /\ InTables /\ Ends
    BY DEF Safe
  <2>2. CASE dead
    <3>1. SUFFICES ASSUME \A t \in Threads : conn[t].pipe = <<>>
                   PROVE  DOMAIN contexts \cup DOMAIN windows = {}
      BY <2>2 DEF HostKeepsWhatGuestHolds
    <3>2. \A t \in Threads : Sent(t) = {}
      BY <3>1, RangeShort DEF Sent
    <3>3. ASSUME NEW h \in DOMAIN contexts PROVE FALSE
      <4>1. contexts[h] \in GoneThreads
        BY <2>1, <2>2 DEF TypeOK, Ends
      <4>2. <<"eof">> \in Sent(contexts[h])
        BY <2>1, <4>1 DEF Ends
      <4>. QED
        BY <3>2, <4>1, <4>2 DEF GoneThreads
    <3>4. ASSUME NEW h \in DOMAIN windows PROVE FALSE
      <4>1. windows[h].by \in GoneThreads
        BY <2>1, <2>2 DEF TypeOK, Ends, Window
      <4>2. <<"eof">> \in Sent(windows[h].by)
        BY <2>1, <4>1 DEF Ends
      <4>. QED
        BY <3>2, <4>1, <4>2 DEF GoneThreads
    <3>. QED
      BY <3>3, <3>4
  <2>3. CASE ~dead
    <3>1. \A c \in Ctxs : ctx[c].live => ctx[c].rc \in DOMAIN contexts \/ thr[ctx[c].by].call.pc = "gone"
      BY <2>1 DEF Objects, InTables, GoneThreads
    <3>2. \A s \in Surfs : surf[s].live => surf[s].rc \in DOMAIN windows \/ thr[surf[s].by].call.pc = "gone"
      BY <2>1 DEF Objects, InTables, GoneThreads
    <3>. QED
      BY <2>3, <3>1, <3>2 DEF HostKeepsWhatGuestHolds
  <2>. QED
    BY <2>2, <2>3
<1>. QED
  BY <1>1, AlwaysSafe, PTL

----------------------------------------------------------------------------
(* The references on their way to be closed. *)

ClosingIn(cn, b) ==
  UNION {{t} \X {i \in DOMAIN cn[t].pipe : cn[t].pipe[i] = <<"close", b>>} : t \in Conns}

(* A place in a pipe that closes the buffer. *)
LEMMA ClosingPlaces ==
  ASSUME NEW cn, NEW b
  PROVE  \A p : p \in ClosingIn(cn, b) <=>
                  \E t \in Conns : \E i \in DOMAIN cn[t].pipe :
                     p = <<t, i>> /\ cn[t].pipe[i] = <<"close", b>>
<1>1. ASSUME NEW p, p \in ClosingIn(cn, b)
      PROVE  \E t \in Conns : \E i \in DOMAIN cn[t].pipe :
               p = <<t, i>> /\ cn[t].pipe[i] = <<"close", b>>
  <2>1. PICK t \in Conns : p \in {t} \X {i \in DOMAIN cn[t].pipe : cn[t].pipe[i] = <<"close", b>>}
    BY <1>1 DEF ClosingIn
  <2>. QED
    BY <2>1
<1>2. ASSUME NEW p, NEW t \in Conns, NEW i \in DOMAIN cn[t].pipe,
             p = <<t, i>>, cn[t].pipe[i] = <<"close", b>>
      PROVE  p \in ClosingIn(cn, b)
  <2>1. p \in {t} \X {j \in DOMAIN cn[t].pipe : cn[t].pipe[j] = <<"close", b>>}
    BY <1>2
  <2>. QED
    BY <2>1 DEF ClosingIn
<1>. QED
  BY <1>1, <1>2

(* There are finitely many, as there are finitely many threads. *)
LEMMA ClosingFinite ==
  ASSUME NEW cn \in [Conns -> Stream], NEW b
  PROVE  IsFiniteSet(ClosingIn(cn, b)) /\ Cardinality(ClosingIn(cn, b)) \in Nat
<1>1. PICK f : f = [t \in Conns |-> {t} \X {i \in DOMAIN cn[t].pipe : cn[t].pipe[i] = <<"close", b>>}]
  OBVIOUS
<1>2. PICK F : F = {{t} \X {i \in DOMAIN cn[t].pipe : cn[t].pipe[i] = <<"close", b>>} : t \in Conns}
  OBVIOUS
<1>3. f \in Surjection(Conns, F)
  <2>1. f \in [Conns -> F]
    BY <1>1, <1>2
  <2>2. ASSUME NEW X \in F PROVE \E t \in Conns : f[t] = X
    BY <1>1, <1>2
  <2>. QED
    BY <2>1, <2>2 DEF Surjection
<1>4. IsFiniteSet(Conns)
  <2>1. IsFiniteSet(Threads)
    BY EglAssumption
  <2>2. IsFiniteSet(Threads \cup {"sf"})
    BY <2>1, FS_AddElement
  <2>. QED
    BY <2>2 DEF Conns
<1>5. IsFiniteSet(F)
  BY <1>3, <1>4, FS_Surjection
<1>6. ASSUME NEW X \in F PROVE IsFiniteSet(X)
  <2>1. PICK t \in Conns : X = {t} \X {i \in DOMAIN cn[t].pipe : cn[t].pipe[i] = <<"close", b>>}
    BY <1>2
  <2>2. cn[t].pipe \in Seq(Commands)
    BY DEF Stream
  <2>3. PICK n \in Nat : DOMAIN cn[t].pipe = 1 .. n
    BY <2>2
  <2>4. IsFiniteSet(1 .. n)
    <3>1. 1 \in Int /\ n \in Int
      BY <2>3
    <3>. QED
      BY <3>1, FS_Interval
  <2>5. PICK I : I = {i \in DOMAIN cn[t].pipe : cn[t].pipe[i] = <<"close", b>>}
    OBVIOUS
  <2>6. I \subseteq 1 .. n
    BY <2>3, <2>5
  <2>7. IsFiniteSet(I)
    BY <2>4, <2>6, FS_Subset, Zenon
  <2>8. IsFiniteSet({t})
    BY FS_Singleton
  <2>9. IsFiniteSet({t} \X I)
    BY <2>7, <2>8, FS_Product
  <2>. QED
    BY <2>1, <2>5, <2>9
<1>7. IsFiniteSet(UNION F)
  BY <1>5, <1>6, FS_UNION
<1>8. IsFiniteSet(ClosingIn(cn, b))
  BY <1>2, <1>7 DEF ClosingIn
<1>. QED
  BY <1>8, FS_CardinalityType

(* Their number. *)
LEMMA ClosingNat == ASSUME TypeOK, NEW b PROVE Cardinality(Closing(b)) \in Nat
<1>1. PICK cn \in [Conns -> Stream] : cn = conn
  BY DEF TypeOK
<1>2. Cardinality(ClosingIn(cn, b)) \in Nat
  BY ClosingFinite
<1>. QED
  BY <1>1, <1>2 DEF Closing, ClosingIn

SentMore(cn, dn, t, more) ==
  dn[t].pipe = cn[t].pipe \o more /\ \A u \in Conns \ {t} : dn[u] = cn[u]

(* What is sent behind, and closes something else, changes nothing. *)
LEMMA ClosingSent ==
  ASSUME NEW cn \in [Conns -> Stream], NEW dn \in [Conns -> Stream], NEW t \in Conns, NEW b,
         NEW more \in Seq(Commands), <<"close", b>> \notin Range(more),
         SentMore(cn, dn, t, more)
  PROVE  ClosingIn(dn, b) = ClosingIn(cn, b)
<1> USE DEF SentMore
<1>1. cn[t].pipe \in Seq(Commands)
  BY DEF Stream
<1>2. PICK p \in Seq(Commands) : p = cn[t].pipe
  BY <1>1
<1>3. ASSUME NEW i PROVE (i \in DOMAIN p /\ p[i] = <<"close", b>>)
                         <=> (i \in DOMAIN (p \o more) /\ (p \o more)[i] = <<"close", b>>)
  <2>1. /\ Len(p) \in Nat /\ Len(more) \in Nat /\ DOMAIN p = 1 .. Len(p) /\ DOMAIN more = 1 .. Len(more)
        /\ DOMAIN (p \o more) = 1 .. (Len(p) + Len(more))
    BY <1>2
  <2>2. CASE i \in DOMAIN p
    <3>1. i \in DOMAIN (p \o more) /\ (p \o more)[i] = p[i]
      BY <2>1, <2>2
    <3>. QED
      BY <2>2, <3>1
  <2>3. CASE i \in DOMAIN (p \o more) /\ i \notin DOMAIN p
    <3>1. i - Len(p) \in DOMAIN more /\ (p \o more)[i] = more[i - Len(p)]
      BY <2>1, <2>3
    <3>2. (p \o more)[i] # <<"close", b>>
      BY <3>1 DEF Range
    <3>. QED
      BY <2>3, <3>2
  <2>4. CASE i \notin DOMAIN (p \o more) /\ i \notin DOMAIN p
    BY <2>4
  <2>. QED
    BY <2>2, <2>3, <2>4
<1>4. dn[t].pipe = p \o more
  BY <1>2
<1>5. ASSUME NEW u \in Conns, NEW i PROVE (i \in DOMAIN cn[u].pipe /\ cn[u].pipe[i] = <<"close", b>>)
                                  <=> (i \in DOMAIN dn[u].pipe /\ dn[u].pipe[i] = <<"close", b>>)
  <2>1. CASE u = t
    BY <1>2, <1>3, <1>4, <2>1
  <2>2. CASE u # t
    BY <2>2
  <2>. QED
    BY <2>1, <2>2
<1>6. ASSUME NEW q PROVE q \in ClosingIn(cn, b) <=> q \in ClosingIn(dn, b)
  <2>1. ASSUME q \in ClosingIn(cn, b) PROVE q \in ClosingIn(dn, b)
    <3>1. PICK u \in Conns : \E i \in DOMAIN cn[u].pipe : q = <<u, i>> /\ cn[u].pipe[i] = <<"close", b>>
      BY <2>1, ClosingPlaces
    <3>2. PICK i \in DOMAIN cn[u].pipe : q = <<u, i>> /\ cn[u].pipe[i] = <<"close", b>>
      BY <3>1
    <3>3. i \in DOMAIN dn[u].pipe /\ dn[u].pipe[i] = <<"close", b>>
      BY <1>5, <3>2
    <3>4. \E v \in Conns : \E j \in DOMAIN dn[v].pipe : q = <<v, j>> /\ dn[v].pipe[j] = <<"close", b>>
      BY <3>2, <3>3
    <3>. QED
      BY <3>4, ClosingPlaces
  <2>2. ASSUME q \in ClosingIn(dn, b) PROVE q \in ClosingIn(cn, b)
    <3>1. PICK u \in Conns : \E i \in DOMAIN dn[u].pipe : q = <<u, i>> /\ dn[u].pipe[i] = <<"close", b>>
      BY <2>2, ClosingPlaces
    <3>2. PICK i \in DOMAIN dn[u].pipe : q = <<u, i>> /\ dn[u].pipe[i] = <<"close", b>>
      BY <3>1
    <3>3. i \in DOMAIN cn[u].pipe /\ cn[u].pipe[i] = <<"close", b>>
      BY <1>5, <3>2
    <3>4. \E v \in Conns : \E j \in DOMAIN cn[v].pipe : q = <<v, j>> /\ cn[v].pipe[j] = <<"close", b>>
      BY <3>2, <3>3
    <3>. QED
      BY <3>4, ClosingPlaces
  <2>. QED
    BY <2>1, <2>2
<1>. QED
  BY <1>6

(* A closing that is sent is one more. *)
LEMMA ClosingAdded ==
  ASSUME NEW cn \in [Conns -> Stream], NEW dn \in [Conns -> Stream], NEW t \in Conns, NEW b,
         SentMore(cn, dn, t, <<<<"close", b>>>>)
  PROVE  Cardinality(ClosingIn(dn, b)) = Cardinality(ClosingIn(cn, b)) + 1
<1>1. cn[t].pipe \in Seq(Commands)
  BY DEF Stream
<1>2. PICK p \in Seq(Commands) : p = cn[t].pipe
  BY <1>1
<1>3. dn[t].pipe = Append(cn[t].pipe, <<"close", b>>) /\ \A u \in Conns \ {t} : dn[u] = cn[u]
  BY <1>1 DEF SentMore
<1>4. PICK n \in Nat : n = Len(p) + 1
  BY <1>2
<1>5. PICK r : r = Append(p, <<"close", b>>)
  OBVIOUS
<1>6. DOMAIN r = 1 .. n /\ DOMAIN p = 1 .. (n - 1) /\ r[n] = <<"close", b>> /\ \A i \in 1 .. (n - 1) : r[i] = p[i]
  BY <1>2, <1>4, <1>5
<1>7. dn[t].pipe = r /\ n \in DOMAIN r /\ n \notin DOMAIN p
  BY <1>2, <1>4, <1>5, <1>6, <1>3
<1>8. <<t, n>> \notin ClosingIn(cn, b)
  <2>1. SUFFICES ASSUME <<t, n>> \in ClosingIn(cn, b) PROVE FALSE
    OBVIOUS
  <2>2. PICK u \in Conns : \E i \in DOMAIN cn[u].pipe : <<t, n>> = <<u, i>> /\ cn[u].pipe[i] = <<"close", b>>
    BY <2>1, ClosingPlaces
  <2>3. n \in DOMAIN cn[t].pipe
    BY <2>2
  <2>. QED
    BY <1>2, <1>7, <2>3
<1>9. ASSUME NEW q \in ClosingIn(dn, b) PROVE q \in ClosingIn(cn, b) \cup {<<t, n>>}
  <2>1. PICK u \in Conns : \E i \in DOMAIN dn[u].pipe : q = <<u, i>> /\ dn[u].pipe[i] = <<"close", b>>
    BY ClosingPlaces
  <2>2. PICK i \in DOMAIN dn[u].pipe : q = <<u, i>> /\ dn[u].pipe[i] = <<"close", b>>
    BY <2>1
  <2>3. CASE u = t /\ i = n
    BY <2>2, <2>3
  <2>4. CASE u = t /\ i # n
    <3>1. i \in DOMAIN p /\ p[i] = <<"close", b>>
      BY <1>6, <1>7, <2>2, <2>4
    <3>. QED
      BY <1>2, <2>2, <2>4, <3>1, ClosingPlaces
  <2>5. CASE u # t
    <3>1. i \in DOMAIN cn[u].pipe /\ cn[u].pipe[i] = <<"close", b>>
      BY <1>3, <2>2, <2>5
    <3>. QED
      BY <2>2, <3>1, ClosingPlaces
  <2>. QED
    BY <2>3, <2>4, <2>5
<1>10. ASSUME NEW q \in ClosingIn(cn, b) PROVE q \in ClosingIn(dn, b)
  <2>1. PICK u \in Conns : \E i \in DOMAIN cn[u].pipe : q = <<u, i>> /\ cn[u].pipe[i] = <<"close", b>>
    BY ClosingPlaces
  <2>2. PICK i \in DOMAIN cn[u].pipe : q = <<u, i>> /\ cn[u].pipe[i] = <<"close", b>>
    BY <2>1
  <2>3. CASE u = t
    <3>1. i \in 1 .. (n - 1) /\ p[i] = <<"close", b>>
      BY <1>2, <1>6, <2>2, <2>3
    <3>2. i \in DOMAIN r /\ r[i] = <<"close", b>>
      BY <1>6, <3>1
    <3>3. \E v \in Conns : \E j \in DOMAIN dn[v].pipe : q = <<v, j>> /\ dn[v].pipe[j] = <<"close", b>>
      BY <1>7, <2>2, <2>3, <3>2
    <3>. QED
      BY <3>3, ClosingPlaces
  <2>4. CASE u # t
    <3>1. i \in DOMAIN dn[u].pipe /\ dn[u].pipe[i] = <<"close", b>>
      BY <1>3, <2>2, <2>4
    <3>. QED
      BY <2>2, <3>1, ClosingPlaces
  <2>. QED
    BY <2>3, <2>4
<1>11. <<t, n>> \in ClosingIn(dn, b)
  BY <1>6, <1>7, ClosingPlaces
<1>12. ClosingIn(dn, b) = ClosingIn(cn, b) \cup {<<t, n>>}
  BY <1>9, <1>10, <1>11
<1>13. IsFiniteSet(ClosingIn(cn, b))
  BY ClosingFinite
<1>. QED
  BY <1>8, <1>12, <1>13, FS_AddElement

(* A command that is executed moves the others to the front. *)
LEMMA ClosingExecuted ==
  ASSUME NEW cn \in [Conns -> Stream], NEW dn \in [Conns -> Stream], NEW t \in Conns, NEW b,
         cn[t].pipe # <<>>, dn[t].pipe = Tail(cn[t].pipe), \A u \in Conns \ {t} : dn[u] = cn[u]
  PROVE  Cardinality(ClosingIn(cn, b)) =
           IF Head(cn[t].pipe) = <<"close", b>> THEN Cardinality(ClosingIn(dn, b)) + 1
           ELSE Cardinality(ClosingIn(dn, b))
<1>1. cn[t].pipe \in Seq(Commands)
  BY DEF Stream
<1>2. PICK p \in Seq(Commands) : p = cn[t].pipe
  BY <1>1
<1>3. PICK n \in Nat : Len(p) = n + 1
  <2>1. Len(p) \in Nat /\ Len(p) # 0
    BY <1>2
  <2>2. Len(p) - 1 \in Nat /\ Len(p) = (Len(p) - 1) + 1
    BY <2>1
  <2>. QED
    BY <2>2
<1>4. PICK r : r = Tail(p)
  OBVIOUS
<1>5. DOMAIN r = 1 .. n /\ DOMAIN p = 1 .. (n + 1) /\ p[1] = Head(p) /\ \A i \in 1 .. n : r[i] = p[i + 1]
  <2>1. p # <<>> /\ Len(r) = n /\ r \in Seq(Commands)
    BY <1>2, <1>3, <1>4
  <2>2. DOMAIN r = 1 .. n /\ DOMAIN p = 1 .. (n + 1) /\ p[1] = Head(p)
    BY <1>2, <1>3, <2>1
  <2>3. \A i \in 1 .. n : r[i] = p[i + 1]
    BY <1>2, <1>3, <1>4, <2>1
  <2>. QED
    BY <2>2, <2>3
<1>6. dn[t].pipe = r
  BY <1>2, <1>4
<1>7. PICK C : C = ClosingIn(cn, b)
  OBVIOUS
<1>8. PICK D : D = ClosingIn(dn, b)
  OBVIOUS
<1>9. PICK f : f = [q \in D |-> IF q[1] = t THEN <<t, q[2] + 1>> ELSE q]
  OBVIOUS
<1>10. ASSUME NEW q \in D
       PROVE  \E u \in Conns : \E i \in DOMAIN dn[u].pipe :
                q = <<u, i>> /\ dn[u].pipe[i] = <<"close", b>> /\ i \in Nat \ {0}
  <2>1. PICK u \in Conns : \E i \in DOMAIN dn[u].pipe : q = <<u, i>> /\ dn[u].pipe[i] = <<"close", b>>
    BY <1>8, ClosingPlaces
  <2>2. dn[u].pipe \in Seq(Commands)
    BY DEF Stream
  <2>3. DOMAIN dn[u].pipe \subseteq Nat \ {0}
    BY <2>2
  <2>. QED
    BY <2>1, <2>3
<1>11. ASSUME NEW q \in D PROVE f[q] \in C \ {<<t, 1>>}
  <2>1. PICK u \in Conns : \E i \in DOMAIN dn[u].pipe :
                q = <<u, i>> /\ dn[u].pipe[i] = <<"close", b>> /\ i \in Nat \ {0}
    BY <1>10
  <2>2. PICK i \in DOMAIN dn[u].pipe : q = <<u, i>> /\ dn[u].pipe[i] = <<"close", b>> /\ i \in Nat \ {0}
    BY <2>1
  <2>3. CASE u = t
    <3>1. f[q] = <<t, i + 1>>
      BY <1>9, <2>2, <2>3
    <3>2. i + 1 \in DOMAIN p /\ p[i + 1] = <<"close", b>> /\ i + 1 # 1
      BY <1>5, <1>6, <2>2, <2>3
    <3>3. <<t, i + 1>> \in C
      BY <1>2, <1>7, <3>2, ClosingPlaces
    <3>. QED
      BY <3>1, <3>2, <3>3
  <2>4. CASE u # t
    <3>1. f[q] = q /\ q # <<t, 1>>
      BY <1>9, <2>2, <2>4
    <3>2. i \in DOMAIN cn[u].pipe /\ cn[u].pipe[i] = <<"close", b>>
      BY <2>2, <2>4
    <3>3. q \in C
      BY <1>7, <2>2, <3>2, ClosingPlaces
    <3>. QED
      BY <3>1, <3>3
  <2>. QED
    BY <2>3, <2>4
<1>12. ASSUME NEW q \in D, NEW s \in D, f[q] = f[s] PROVE q = s
  <2>1. PICK u \in Conns, i \in Nat : q = <<u, i>>
    BY <1>10
  <2>2. PICK v \in Conns, j \in Nat : s = <<v, j>>
    BY <1>10
  <2>3. f[q] = IF u = t THEN <<t, i + 1>> ELSE <<u, i>>
    BY <1>9, <2>1
  <2>4. f[s] = IF v = t THEN <<t, j + 1>> ELSE <<v, j>>
    BY <1>9, <2>2
  <2>5. u = v /\ i = j
    <3>1. CASE u = t /\ v = t
      <4>1. <<t, i + 1>> = <<t, j + 1>>
        BY <1>12, <2>3, <2>4, <3>1
      <4>2. i + 1 = j + 1
        BY <4>1
      <4>. QED
        BY <2>1, <2>2, <3>1, <4>2
    <3>2. CASE u # t /\ v # t
      <4>1. <<u, i>> = <<v, j>>
        BY <1>12, <2>3, <2>4, <3>2
      <4>. QED
        BY <4>1
    <3>3. CASE u = t /\ v # t
      <4>1. <<t, i + 1>> = <<v, j>>
        BY <1>12, <2>3, <2>4, <3>3
      <4>. QED
        BY <3>3, <4>1
    <3>4. CASE u # t /\ v = t
      <4>1. <<t, j + 1>> = <<u, i>>
        BY <1>12, <2>3, <2>4, <3>4
      <4>. QED
        BY <3>4, <4>1
    <3>. QED
      BY <3>1, <3>2, <3>3, <3>4
  <2>. QED
    BY <2>1, <2>2, <2>5
<1>13. ASSUME NEW q \in C \ {<<t, 1>>} PROVE \E s \in D : f[s] = q
  <2>1. PICK u \in Conns : \E i \in DOMAIN cn[u].pipe : q = <<u, i>> /\ cn[u].pipe[i] = <<"close", b>>
    BY <1>7, ClosingPlaces
  <2>2. PICK i \in DOMAIN cn[u].pipe : q = <<u, i>> /\ cn[u].pipe[i] = <<"close", b>>
    BY <2>1
  <2>3. CASE u = t
    <3>1. i \in 1 .. (n + 1) /\ i # 1
      BY <1>2, <1>5, <2>2, <2>3
    <3>2. PICK j \in 1 .. n : i = j + 1
      BY <3>1
    <3>3. j \in DOMAIN r /\ r[j] = <<"close", b>>
      BY <1>2, <1>5, <2>2, <2>3, <3>2
    <3>4. <<t, j>> \in D
      BY <1>6, <1>8, <3>3, ClosingPlaces
    <3>5. f[<<t, j>>] = <<t, j + 1>>
      BY <1>9, <3>4
    <3>. QED
      BY <2>2, <2>3, <3>2, <3>4, <3>5
  <2>4. CASE u # t
    <3>1. i \in DOMAIN dn[u].pipe /\ dn[u].pipe[i] = <<"close", b>>
      BY <2>2, <2>4
    <3>2. q \in D
      BY <1>8, <2>2, <3>1, ClosingPlaces
    <3>3. f[q] = q
      BY <1>9, <2>2, <2>4, <3>2
    <3>. QED
      BY <3>2, <3>3
  <2>. QED
    BY <2>3, <2>4
<1>14. ExistsBijection(D, C \ {<<t, 1>>})
  <2>1. f \in [D -> C \ {<<t, 1>>}]
    BY <1>9, <1>11
  <2>2. f \in Bijection(D, C \ {<<t, 1>>})
    BY <1>12, <1>13, <2>1 DEF Bijection, Injection, Surjection, IsInjective
  <2>. QED
    BY <2>2 DEF ExistsBijection
<1>15. IsFiniteSet(C) /\ IsFiniteSet(D) /\ Cardinality(C) \in Nat
  BY <1>7, <1>8, ClosingFinite
<1>16. Cardinality(C \ {<<t, 1>>}) = Cardinality(D)
  BY <1>14, <1>15, FS_Bijection
<1>17. Cardinality(C \ {<<t, 1>>}) = IF <<t, 1>> \in C THEN Cardinality(C) - 1 ELSE Cardinality(C)
  BY <1>15, FS_RemoveElement
<1>18. <<t, 1>> \in C <=> Head(p) = <<"close", b>>
  <2>1. <<t, 1>> \in C <=> \E u \in Conns : \E i \in DOMAIN cn[u].pipe :
                             <<t, 1>> = <<u, i>> /\ cn[u].pipe[i] = <<"close", b>>
    BY <1>7, ClosingPlaces
  <2>2. (\E u \in Conns : \E i \in DOMAIN cn[u].pipe : <<t, 1>> = <<u, i>> /\ cn[u].pipe[i] = <<"close", b>>)
          <=> (1 \in DOMAIN cn[t].pipe /\ cn[t].pipe[1] = <<"close", b>>)
    OBVIOUS
  <2>. QED
    BY <1>2, <1>5, <2>1, <2>2
<1>. QED
  BY <1>2, <1>7, <1>8, <1>15, <1>16, <1>17, <1>18

(* Steps that neither send nor execute a closing. *)
ClosingsStay ==
  /\ \A u \in Conns, b \in Buffers : /\ <<"close", b>> \notin Kept(u)'
                                     /\ <<"close", b>> \in Sent(u)' => <<"close", b>> \in Sent(u)
  /\ \A b \in Buffers : Cardinality(Closing(b)') = Cardinality(Closing(b))

(* Whoever knows a buffer after the step knew it before, or it is allocated. *)
CallsKnown ==
  \A b \in Buffers : slot'[b] = "none" =>
    /\ slot[b] = "none"
    /\ \A u \in Threads : thr'[u].call.buffer = b => thr[u].call.buffer = b

(* Both together preserve the counts. *)
LEMMA CountsStay ==
  ASSUME Counted, ClosingsStay, CallsKnown,
         held' = held, count' = count, miscounted' = miscounted, dead' = dead
  PROVE  Counted'
<1>1. BuffersKnown'
  BY DEF Counted, BuffersKnown, ClosingsStay, CallsKnown
<1>2. BuffersCounted'
  BY DEF Counted, BuffersCounted, ClosingsStay
<1>. QED
  BY <1>1, <1>2 DEF Counted

(* A flush that closes nothing. *)
LEMMA FlushStays ==
  ASSUME TypeOK, BuffersKnown, NEW t \in Conns, NEW cmds \in Seq(Commands),
         \A b \in Buffers : <<"close", b>> \notin Range(cmds), conn' = Flushed(t, cmds)
  PROVE  ClosingsStay
<1>1. /\ conn' \in [Conns -> Stream] /\ conn'[t].pipe = (conn[t].pipe \o conn[t].buf) \o cmds
      /\ Kept(t)' = {} /\ Sent(t)' = OnTheWay(t) \cup Range(cmds)
      /\ \A u \in Conns \ {t} : conn'[u] = conn[u]
  BY FlushedEffect
<1>2. conn \in [Conns -> Stream] /\ conn[t].buf \in Seq(Commands) /\ conn[t].pipe \in Seq(Commands)
  BY DEF TypeOK, Stream
<1>3. PICK more \in Seq(Commands) : more = conn[t].buf \o cmds
  <2>1. conn[t].buf \o cmds \in Seq(Commands)
    BY <1>2
  <2>. QED
    BY <2>1
<1>4. conn'[t].pipe = conn[t].pipe \o more
  <2>1. PICK p \in Seq(Commands), q \in Seq(Commands) : p = conn[t].pipe /\ q = conn[t].buf
    BY <1>2
  <2>2. (p \o q) \o cmds = p \o (q \o cmds)
    BY ConcatAssociative
  <2>. QED
    BY <1>1, <1>3, <2>1, <2>2
<1>5. Range(more) = Kept(t) \cup Range(cmds)
  BY <1>2, <1>3, RangeConcat DEF Kept
<1>6. ASSUME NEW b \in Buffers PROVE Cardinality(Closing(b)') = Cardinality(Closing(b))
  <2>1. <<"close", b>> \notin Range(more)
    BY <1>5 DEF BuffersKnown
  <2>2. PICK cn \in [Conns -> Stream], dn \in [Conns -> Stream] : cn = conn /\ dn = conn'
    BY <1>1, <1>2
  <2>3. SentMore(cn, dn, t, more)
    BY <1>1, <1>4, <2>2 DEF SentMore
  <2>4. ClosingIn(dn, b) = ClosingIn(cn, b)
    BY <2>1, <2>3, ClosingSent
  <2>5. Closing(b) = ClosingIn(conn, b) /\ Closing(b)' = ClosingIn(conn', b)
    BY DEF Closing, ClosingIn
  <2>. QED
    BY <2>2, <2>4, <2>5
<1>7. ASSUME NEW u \in Conns, NEW b \in Buffers
      PROVE  /\ <<"close", b>> \notin Kept(u)'
             /\ <<"close", b>> \in Sent(u)' => <<"close", b>> \in Sent(u)
  <2>1. <<"close", b>> \notin Kept(u)
    BY DEF BuffersKnown
  <2>2. CASE u = t
    BY <1>1, <2>1, <2>2 DEF OnTheWay
  <2>3. CASE u # t
    BY <1>1, <2>1, <2>3 DEF Kept, Sent
  <2>. QED
    BY <2>2, <2>3
<1>. QED
  BY <1>6, <1>7 DEF ClosingsStay

(* Streams whose pipes are left alone. *)
LEMMA KeptStays ==
  ASSUME BuffersKnown, NEW X, \A b \in Buffers : <<"close", b>> \notin X,
         \A u \in Conns : conn'[u].pipe = conn[u].pipe /\ Kept(u)' \subseteq Kept(u) \cup X
  PROVE  ClosingsStay
<1>1. ASSUME NEW u \in Conns, NEW b \in Buffers
      PROVE  /\ <<"close", b>> \notin Kept(u)'
             /\ <<"close", b>> \in Sent(u)' => <<"close", b>> \in Sent(u)
  BY DEF BuffersKnown, Sent
<1>2. ASSUME NEW b \in Buffers PROVE Closing(b)' = Closing(b)
  BY DEF Closing
<1>. QED
  BY <1>1, <1>2 DEF ClosingsStay

(* A command that waits for the next flush. *)
LEMMA EncodeStays ==
  ASSUME TypeOK, BuffersKnown, NEW t \in Conns, NEW cmd \in Commands, cmd[1] # "close",
         conn' = Encoded(t, cmd)
  PROVE  ClosingsStay
<1>1. /\ conn'[t].pipe = conn[t].pipe /\ Kept(t)' = Kept(t) \cup {cmd}
      /\ \A u \in Conns \ {t} : conn'[u] = conn[u]
  BY EncodedEffect
<1>2. \A b \in Buffers : <<"close", b>> \notin {cmd}
  OBVIOUS
<1>3. \A u \in Conns : conn'[u].pipe = conn[u].pipe /\ Kept(u)' \subseteq Kept(u) \cup {cmd}
  BY <1>1 DEF Kept
<1>. QED
  BY <1>2, <1>3, KeptStays

(* Streams nobody touches. *)
LEMMA ConnStays == ASSUME BuffersKnown, conn' = conn PROVE ClosingsStay
<1>1. \A u \in Conns : conn'[u].pipe = conn[u].pipe /\ Kept(u)' = Kept(u)
  BY DEF Kept
<1>2. PICK X : X = {}
  OBVIOUS
<1>3. \A u \in Conns : conn'[u].pipe = conn[u].pipe /\ Kept(u)' \subseteq Kept(u) \cup X
  BY <1>1
<1>4. \A b \in Buffers : <<"close", b>> \notin X
  BY <1>2
<1>. QED
  BY <1>3, <1>4, KeptStays

(* A command of another name that is executed. *)
LEMMA ExecuteStays ==
  ASSUME TypeOK, BuffersKnown, NEW t \in Conns, NEW name, name # "close", Executes(t, name)
  PROVE  ClosingsStay
<1>1. /\ conn' \in [Conns -> Stream] /\ conn'[t].pipe = Tail(conn[t].pipe)
      /\ Kept(t)' = Kept(t) /\ Sent(t) = {Head(conn[t].pipe)} \cup Sent(t)'
      /\ \A u \in Conns \ {t} : conn'[u] = conn[u]
  BY ExecutedEffect DEF Executes
<1>2. conn[t].pipe # <<>> /\ conn \in [Conns -> Stream] /\ Head(conn[t].pipe)[1] # "close"
  BY DEF Executes, Arg, TypeOK
<1>3. ASSUME NEW b \in Buffers PROVE Cardinality(Closing(b)') = Cardinality(Closing(b))
  <2>1. Head(conn[t].pipe) # <<"close", b>>
    BY <1>2
  <2>2. Cardinality(ClosingIn(conn, b)) = Cardinality(ClosingIn(conn', b))
    BY <1>1, <1>2, <2>1, ClosingExecuted
  <2>. QED
    BY <2>2 DEF Closing, ClosingIn
<1>4. ASSUME NEW u \in Conns, NEW b \in Buffers
      PROVE  /\ <<"close", b>> \notin Kept(u)'
             /\ <<"close", b>> \in Sent(u)' => <<"close", b>> \in Sent(u)
  <2>1. <<"close", b>> \notin Kept(u)
    BY DEF BuffersKnown
  <2>2. CASE u = t
    BY <1>1, <2>1, <2>2
  <2>3. CASE u # t
    BY <1>1, <2>1, <2>3 DEF Kept, Sent
  <2>. QED
    BY <2>2, <2>3
<1>. QED
  BY <1>3, <1>4 DEF ClosingsStay

(* The call that is written is that of one thread. *)
LEMMA CallWritten ==
  ASSUME TypeOK, NEW t \in Threads, NEW call, Goes(t, call)
  PROVE  thr'[t].call = call /\ \A u \in Threads \ {t} : thr'[u] = thr[u]
<1>1. thr \in [Threads -> ThreadInfo] /\ thr[t] \in ThreadInfo
  BY DEF TypeOK
<1>2. thr'[t] = [thr[t] EXCEPT !.call = call] /\ \A u \in Threads \ {t} : thr'[u] = thr[u]
  BY <1>1 DEF Goes
<1>. QED
  BY <1>1, <1>2 DEF ThreadInfo

(* A call without a buffer, or with one that was known. *)
LEMMA CallKnown ==
  ASSUME TypeOK, NEW t \in Threads, NEW call, Goes(t, call),
         call.buffer = 0 \/ call.buffer = thr[t].call.buffer,
         \A b \in Buffers : slot'[b] = "none" => slot[b] = "none"
  PROVE  CallsKnown
<1>1. thr'[t].call = call /\ \A u \in Threads \ {t} : thr'[u] = thr[u]
  BY CallWritten
<1>2. 0 \notin Buffers
  BY EglAssumption
<1>. QED
  BY <1>1, <1>2 DEF CallsKnown

(* A buffer that is given back has been allocated. *)
LEMMA GivenBack ==
  ASSUME TypeOK, NEW a \in Buffers, NEW how \in {"free", "queued"}, slot' = GivesBack(a, how)
  PROVE  \A b \in Buffers : slot'[b] = "none" => slot[b] = "none"
<1>1. slot \in [Buffers -> {"none", "free", "dequeued", "queued", "freed"}]
  BY DEF TypeOK
<1>. QED
  BY <1>1 DEF GivesBack

(* The commands that are not closings. *)
LEMMA OtherCommands ==
  /\ \A h \in Nat : rcDestroyContext(h)[1] # "close" /\ rcDestroyWindowSurface(h)[1] # "close"
  /\ \A h \in Nat, b \in Buffers : rcSetWindowColorBuffer(h, b)[1] # "close"
BY DEF rcDestroyContext, rcDestroyWindowSurface, rcSetWindowColorBuffer

(* Nothing is sent with the flush. *)
LEMMA PlainFlushStays ==
  ASSUME TypeOK, BuffersKnown, NEW t \in Conns, conn' = Flushed(t, <<>>)
  PROVE  ClosingsStay
<1>1. <<>> \in Seq(Commands) /\ \A b \in Buffers : <<"close", b>> \notin Range(<<>>)
  BY RangeShort
<1>. QED
  BY <1>1, FlushStays

(* One command is sent that closes nothing. *)
LEMMA OneFlushStays ==
  ASSUME TypeOK, BuffersKnown, NEW t \in Conns, NEW cmd \in Commands, cmd[1] # "close",
         conn' = Flushed(t, <<cmd>>)
  PROVE  ClosingsStay
<1>1. <<cmd>> \in Seq(Commands) /\ Range(<<cmd>>) = {cmd}
  BY RangeShort
<1>2. \A b \in Buffers : <<"close", b>> \notin Range(<<cmd>>)
  BY <1>1
<1>. QED
  BY <1>1, <1>2, FlushStays

(* The calls of EGL that leave the buffers alone. *)
LEMMA ContextsCount ==
  ASSUME Safe, Counted, NEW t \in Threads,
         \/ eglCreateContext(t) \/ MadeCurrent(t)
         \/ \E c \in Ctxs : ContextCreated(t, c) \/ eglDestroyContext(t, c)
         \/ \E s \in Surfs : eglSwapBuffers(t, s)
  PROVE  Counted'
<1> USE DEF guestVars, bufferVars, hostVars
<1>1. TypeOK /\ Objects /\ CallShape /\ BuffersKnown /\ t \in Conns
  BY DEF Safe, Counted, Conns
<1>2. /\ held' = held /\ count' = count /\ miscounted' = miscounted /\ dead' = dead /\ slot' = slot
  BY DEF eglCreateContext, MadeCurrent, ContextCreated, eglDestroyContext, eglSwapBuffers
<1>3. ClosingsStay
  <2>1. CASE eglCreateContext(t) \/ \E s \in Surfs : eglSwapBuffers(t, s)
    <3>1. conn' = Flushed(t, <<>>)
      BY <2>1 DEF eglCreateContext, eglSwapBuffers, Calls
    <3>. QED
      BY <1>1, <3>1, PlainFlushStays
  <2>2. CASE conn' = conn
    BY <1>1, <2>2, ConnStays
  <2>3. ASSUME NEW c \in Ctxs, eglDestroyContext(t, c) PROVE ClosingsStay
    <3>1. conn' = conn \/ conn' = Encoded(t, rcDestroyContext(ctx[c].rc))
      BY <2>3 DEF eglDestroyContext
    <3>2. ctx[c].rc \in Nat
      BY <1>1 DEF TypeOK, Context
    <3>3. PICK cmd \in Commands : cmd = rcDestroyContext(ctx[c].rc) /\ cmd[1] # "close"
      BY <3>2, CommandShapes, OtherCommands
    <3>. QED
      BY <1>1, <3>1, <3>3, ConnStays, EncodeStays
  <2>4. MadeCurrent(t) => conn' = conn
    BY DEF MadeCurrent
  <2>5. \A c \in Ctxs : ContextCreated(t, c) => conn' = conn
    BY DEF ContextCreated
  <2>. QED
    BY <2>1, <2>2, <2>3, <2>4, <2>5
<1>4. CallsKnown
  <2>1. CASE thr' = thr
    BY <1>2, <2>1 DEF CallsKnown
  <2>2. ASSUME NEW call, Goes(t, call), call.buffer = 0 PROVE CallsKnown
    BY <1>1, <1>2, <2>2, CallKnown
  <2>3. CASE eglCreateContext(t)
    <3>1. Goes(t, [Idle EXCEPT !.pc = "creating context"])
      BY <2>3 DEF eglCreateContext, Calls, Goes
    <3>2. [Idle EXCEPT !.pc = "creating context"].buffer = 0
      BY DEF Idle
    <3>. QED
      BY <2>2, <3>1, <3>2
  <2>4. ASSUME NEW s \in Surfs, eglSwapBuffers(t, s) PROVE CallsKnown
    <3>1. Goes(t, [Idle EXCEPT !.pc = "swapping", !.surf = s])
      BY <2>4 DEF eglSwapBuffers, Calls, Goes
    <3>2. [Idle EXCEPT !.pc = "swapping", !.surf = s].buffer = 0
      BY DEF Idle
    <3>. QED
      BY <2>2, <3>1, <3>2
  <2>5. ASSUME NEW c \in Ctxs, ContextCreated(t, c) PROVE CallsKnown
    <3>1. Goes(t, Idle)
      BY <2>5 DEF ContextCreated
    <3>. QED
      BY <2>2, <3>1, IdleCall
  <2>6. ASSUME NEW c \in Ctxs, eglDestroyContext(t, c) PROVE CallsKnown
    BY <2>1, <2>6 DEF eglDestroyContext
  <2>7. CASE MadeCurrent(t)
    <3>1. \/ thr' = thr \/ Goes(t, Idle)
          \/ thr' = [thr EXCEPT ![t] = [call |-> Idle, currentContext |-> thr[t].call.ctx]]
      BY <2>7 DEF MadeCurrent
    <3>2. CASE thr' = [thr EXCEPT ![t] = [call |-> Idle, currentContext |-> thr[t].call.ctx]]
      <4>1. thr'[t].call = Idle /\ \A u \in Threads \ {t} : thr'[u] = thr[u]
        BY <1>1, <3>2 DEF TypeOK
      <4>2. 0 \notin Buffers
        BY EglAssumption
      <4>. QED
        BY <1>2, <4>1, <4>2, IdleCall DEF CallsKnown
    <3>. QED
      BY <2>1, <2>2, <3>1, <3>2, IdleCall
  <2>. QED
    BY <2>3, <2>4, <2>5, <2>6, <2>7
<1>. QED
  BY <1>2, <1>3, <1>4, CountsStay

(* eglMakeCurrent sends no more than the command for a pending deletion. *)
LEMMA MakeCurrentCounts ==
  ASSUME Safe, Counted, NEW t \in Threads, NEW c \in Ctxs \cup {0}, NEW s \in Surfs \cup {0},
         eglMakeCurrent(t, c, s)
  PROVE  Counted'
<1> USE DEF guestVars, bufferVars, hostVars
<1>1. TypeOK /\ BuffersKnown /\ t \in Conns
  BY DEF Safe, Counted, Conns
<1>2. /\ held' = held /\ count' = count /\ miscounted' = miscounted /\ dead' = dead /\ slot' = slot
  BY DEF eglMakeCurrent
<1>3. PICK old \in Ctxs \cup {0} : old = thr[t].currentContext
  BY <1>1 DEF TypeOK, ThreadInfo
<1>4. CASE thr' = thr /\ conn' = conn
  <2>1. CallsKnown
    BY <1>2, <1>4 DEF CallsKnown
  <2>. QED
    BY <1>1, <1>2, <1>4, <2>1, ConnStays, CountsStay
<1>5. CASE ~(thr' = thr /\ conn' = conn)
  <2> DEFINE pending == old # 0 /\ ctx[old].deletePending /\ old # c
             now     == IF pending THEN 0 ELSE old
             refused == c # 0 /\ ctx[c].isCurrent /\ c # now
             bind    == IF c = 0 THEN Nothing ELSE [ctx |-> ctx[c].rc, draw |-> surf[s].rc]
             destroy == IF pending THEN <<rcDestroyContext(ctx[old].rc)>> ELSE <<>>
             asking  == [Idle EXCEPT !.pc = "binding", !.ctx = c, !.surf = s, !.bind = bind,
                                     !.lost = pending]
  <2>1. /\ thr' = [thr EXCEPT ![t].currentContext = now,
                              ![t].call = IF refused THEN Idle ELSE asking]
        /\ conn' = IF refused THEN [conn EXCEPT ![t].buf = @ \o destroy] ELSE Flushed(t, destroy)
    BY <1>3, <1>5 DEF eglMakeCurrent
  <2>2. PICK cmds \in Seq(Commands) : cmds = destroy /\ \A b \in Buffers : <<"close", b>> \notin Range(cmds)
    <3>1. CASE ~pending
      <4>1. <<>> \in Seq(Commands) /\ \A b \in Buffers : <<"close", b>> \notin Range(<<>>)
        BY RangeShort
      <4>2. destroy = <<>>
        BY <3>1
      <4>. QED
        BY <4>1, <4>2
    <3>2. CASE pending
      <4>1. ctx[old].rc \in Nat
        BY <1>1, <3>2 DEF TypeOK, Context
      <4>2. PICK cmd \in Commands : cmd = rcDestroyContext(ctx[old].rc) /\ cmd[1] # "close"
        BY <4>1, CommandShapes, OtherCommands
      <4>3. <<cmd>> \in Seq(Commands) /\ Range(<<cmd>>) = {cmd} /\ <<cmd>> = destroy
        BY <3>2, <4>2, RangeShort
      <4>4. \A b \in Buffers : <<"close", b>> \notin Range(<<cmd>>)
        BY <4>2, <4>3
      <4>. QED
        BY <4>3, <4>4
    <3>. QED
      BY <3>1, <3>2
  <2>3. ClosingsStay
    <3>1. CASE refused
      <4>1. conn' = [conn EXCEPT ![t].buf = @ \o cmds]
        BY <2>1, <2>2, <3>1
      <4>2. \A u \in Conns : conn'[u].pipe = conn[u].pipe /\ Kept(u)' \subseteq Kept(u) \cup Range(cmds)
        BY <1>1, <4>1, ConcatGain
      <4>. QED
        BY <1>1, <2>2, <4>2, KeptStays
    <3>2. CASE ~refused
      <4>1. conn' = Flushed(t, cmds)
        BY <2>1, <2>2, <3>2
      <4>. QED
        BY <1>1, <2>2, <4>1, FlushStays
    <3>. QED
      BY <3>1, <3>2
  <2>4. PICK call : call = IF refused THEN Idle ELSE asking
    OBVIOUS
  <2>5. call.buffer = 0
    <3>1. asking.buffer = 0
      BY DEF Idle
    <3>. QED
      BY <2>4, <3>1, IdleCall
  <2>6. thr'[t].call = call /\ \A u \in Threads \ {t} : thr'[u] = thr[u]
    <3>1. thr \in [Threads -> ThreadInfo] /\ thr[t] \in ThreadInfo
      BY <1>1 DEF TypeOK
    <3>2. thr' = [thr EXCEPT ![t] = [[thr[t] EXCEPT !.currentContext = now] EXCEPT !.call = call]]
      <4> HIDE DEF now, refused, asking
      <4>. QED
        BY <2>1, <2>4, <3>1
    <3>3. [[thr[t] EXCEPT !.currentContext = now] EXCEPT !.call = call]
            = [call |-> call, currentContext |-> now]
      <4> HIDE DEF now
      <4>. QED
        BY <3>1, BothFields
    <3>. QED
      BY <3>1, <3>2, <3>3
  <2>7. CallsKnown
    <3>1. 0 \notin Buffers
      BY EglAssumption
    <3>. QED
      BY <1>2, <2>5, <2>6, <3>1 DEF CallsKnown
  <2>. QED
    BY <1>2, <2>3, <2>7, CountsStay
<1>. QED
  BY <1>4, <1>5

(* A surface is created or swapped: its buffers were allocated. *)
LEMMA SurfacesCount ==
  ASSUME Safe, Counted, NEW t \in Threads,
         \/ Swapped(t)
         \/ \E b \in Buffers : eglCreateWindowSurface(t, b)
         \/ \E s \in Surfs : WindowCreated(t, s) \/ eglDestroySurface(t, s)
         \/ \E b \in Buffers \cup {0} : Dequeued(t, b)
  PROVE  Counted'
<1> USE DEF guestVars, bufferVars, hostVars
<1>1. TypeOK /\ CallShape /\ BuffersKnown /\ t \in Conns /\ thr[t].call \in Call /\ Shape(thr[t].call)
  BY DEF Safe, Counted, Conns, TypeOK, ThreadInfo, CallShape
<1>2. /\ held' = held /\ count' = count /\ miscounted' = miscounted /\ dead' = dead
  BY DEF Swapped, eglCreateWindowSurface, WindowCreated, eglDestroySurface, Dequeued
<1>3. slot \in [Buffers -> {"none", "free", "dequeued", "queued", "freed"}] /\ 0 \notin Buffers
  BY <1>1, EglAssumption DEF TypeOK
<1>4. CASE Swapped(t)
  <2>1. PICK s \in Surfs : s = thr[t].call.surf
    BY <1>1, <1>4 DEF Swapped, Answered, At, Call, Shape
  <2>2. conn' = conn
    BY <1>4 DEF Swapped
  <2>3. CASE thr' = thr /\ slot' = slot
    BY <1>1, <1>2, <2>2, <2>3, ConnStays, CountsStay DEF CallsKnown
  <2>4. CASE ~(thr' = thr /\ slot' = slot)
    <3>1. PICK b \in Buffers : b = surf[s].buffer /\ slot' = GivesBack(b, "queued")
      BY <1>1, <1>4, <2>1, <2>4 DEF Swapped, TypeOK, Surface
    <3>2. \A a \in Buffers : slot'[a] = "none" => slot[a] = "none"
      BY <1>1, <3>1, GivenBack
    <3>3. PICK call : call = [thr[t].call EXCEPT !.pc = "dequeuing"]
      OBVIOUS
    <3>4. Goes(t, call) /\ call.buffer = thr[t].call.buffer
      BY <1>1, <1>4, <2>1, <2>4, <3>3 DEF Swapped, Call
    <3>5. CallsKnown
      BY <1>1, <3>2, <3>4, CallKnown
    <3>. QED
      BY <1>1, <1>2, <2>2, <3>5, ConnStays, CountsStay
  <2>. QED
    BY <2>3, <2>4
<1>5. ASSUME NEW b \in Buffers, eglCreateWindowSurface(t, b) PROVE Counted'
  <2>1. PICK call : call = [Idle EXCEPT !.buffer = b, !.pc = "registering"]
    OBVIOUS
  <2>2. Goes(t, call) /\ conn' = Flushed(t, <<>>) /\ slot' = [slot EXCEPT ![b] = "dequeued"]
    BY <1>5, <2>1 DEF eglCreateWindowSurface, Calls, Goes
  <2>3. call.buffer = b
    BY <2>1 DEF Idle
  <2>4. thr'[t].call = call /\ \A u \in Threads \ {t} : thr'[u] = thr[u]
    BY <1>1, <2>2, CallWritten
  <2>5. slot'[b] = "dequeued" /\ \A a \in Buffers \ {b} : slot'[a] = slot[a]
    BY <1>3, <2>2
  <2>6. CallsKnown
    BY <2>3, <2>4, <2>5 DEF CallsKnown
  <2>. QED
    BY <1>1, <1>2, <2>2, <2>6, PlainFlushStays, CountsStay
<1>6. ASSUME NEW s \in Surfs, WindowCreated(t, s) PROVE Counted'
  <2>1. PICK b \in Buffers : b = thr[t].call.buffer
    BY <1>1, <1>6 DEF WindowCreated, Answered, At, Call, Shape
  <2>2. Goes(t, Idle)
    BY <1>6 DEF WindowCreated
  <2>3. CASE slot' = GivesBack(b, "free") /\ conn' = conn
    <3>1. CallsKnown
      BY <1>1, <2>2, <2>3, GivenBack, CallKnown, IdleCall
    <3>. QED
      BY <1>1, <1>2, <2>3, <3>1, ConnStays, CountsStay
  <2>4. CASE slot' = slot /\ conn' = Encoded(t, rcSetWindowColorBuffer(next, b))
    <3>1. PICK cmd \in Commands : cmd = rcSetWindowColorBuffer(next, b) /\ cmd[1] # "close"
      <4>1. next \in Nat
        BY <1>1 DEF TypeOK
      <4>. QED
        BY <4>1, CommandShapes, OtherCommands
    <3>2. CallsKnown
      BY <1>1, <2>2, <2>4, CallKnown, IdleCall
    <3>. QED
      BY <1>1, <1>2, <2>4, <3>1, <3>2, EncodeStays, CountsStay
  <2>. QED
    BY <1>6, <2>1, <2>3, <2>4 DEF WindowCreated
<1>7. ASSUME NEW s \in Surfs, eglDestroySurface(t, s) PROVE Counted'
  <2>1. thr' = thr /\ conn' = Encoded(t, rcDestroyWindowSurface(surf[s].rc))
    BY <1>7 DEF eglDestroySurface
  <2>2. surf[s].rc \in Nat /\ surf[s].buffer \in Buffers \cup {0}
    BY <1>1 DEF TypeOK, Surface
  <2>3. PICK cmd \in Commands : cmd = rcDestroyWindowSurface(surf[s].rc) /\ cmd[1] # "close"
    BY <2>2, CommandShapes, OtherCommands
  <2>4. \A a \in Buffers : slot'[a] = "none" => slot[a] = "none"
    <3>1. CASE surf[s].buffer = 0
      BY <1>7, <3>1 DEF eglDestroySurface
    <3>2. CASE surf[s].buffer # 0
      <4>1. PICK b \in Buffers : b = surf[s].buffer
        BY <2>2, <3>2
      <4>2. slot' = GivesBack(b, "free")
        BY <1>7, <3>2, <4>1 DEF eglDestroySurface
      <4>. QED
        BY <1>1, <4>2, GivenBack
    <3>. QED
      BY <3>1, <3>2
  <2>5. CallsKnown
    BY <2>1, <2>4 DEF CallsKnown
  <2>. QED
    BY <1>1, <1>2, <2>1, <2>3, <2>5, EncodeStays, CountsStay
<1>8. ASSUME NEW b \in Buffers \cup {0}, Dequeued(t, b) PROVE Counted'
  <2>1. conn' = conn
    BY <1>8 DEF Dequeued
  <2>2. CASE thr' = thr /\ slot' = slot
    BY <1>1, <1>2, <2>1, <2>2, ConnStays, CountsStay DEF CallsKnown
  <2>3. CASE Goes(t, Idle) /\ slot' = slot
    <3>1. CallsKnown
      BY <1>1, <2>3, CallKnown, IdleCall
    <3>. QED
      BY <1>1, <1>2, <2>1, <3>1, ConnStays, CountsStay
  <2>4. CASE /\ b # 0 /\ slot' = [slot EXCEPT ![b] = "dequeued"]
             /\ Goes(t, [thr[t].call EXCEPT !.buffer = b, !.pc = "registering"])
    <3>1. PICK call : call = [thr[t].call EXCEPT !.buffer = b, !.pc = "registering"]
      OBVIOUS
    <3>2. call.buffer = b
      BY <1>1, <3>1 DEF Call
    <3>3. thr'[t].call = call /\ \A u \in Threads \ {t} : thr'[u] = thr[u]
      BY <1>1, <2>4, <3>1, CallWritten
    <3>4. slot'[b] = "dequeued" /\ \A a \in Buffers \ {b} : slot'[a] = slot[a]
      BY <1>3, <2>4
    <3>5. CallsKnown
      BY <3>2, <3>3, <3>4 DEF CallsKnown
    <3>. QED
      BY <1>1, <1>2, <2>1, <3>5, ConnStays, CountsStay
  <2>. QED
    BY <1>8, <2>2, <2>3, <2>4 DEF Dequeued
<1>. QED
  BY <1>4, <1>5, <1>6, <1>7, <1>8

(* The end of a thread is sent; the death of the application ends the count. *)
LEMMA EndsCount ==
  ASSUME Safe, Counted, ApplicationDies \/ \E t \in Threads : ThreadExits(t)
  PROVE  Counted'
<1> USE DEF guestVars, bufferVars, hostVars
<1>1. TypeOK /\ BuffersKnown /\ 0 \notin Buffers
  BY EglAssumption DEF Safe, Counted
<1>2. Gone.call.buffer = 0
  BY DEF Gone, Idle
<1>3. ASSUME NEW t \in Threads, ThreadExits(t) PROVE Counted'
  <2>1. /\ held' = held /\ count' = count /\ miscounted' = miscounted /\ dead' = dead /\ slot' = slot
        /\ thr' = [thr EXCEPT ![t] = Gone] /\ conn' = Flushed(t, <<<<"eof">>>>) /\ t \in Conns
    BY <1>3 DEF ThreadExits, Conns
  <2>2. thr'[t] = Gone /\ \A u \in Threads \ {t} : thr'[u] = thr[u]
    BY <1>1, <2>1 DEF TypeOK
  <2>3. CallsKnown
    BY <1>1, <1>2, <2>1, <2>2 DEF CallsKnown
  <2>4. PICK cmd \in Commands : cmd = <<"eof">> /\ cmd[1] # "close"
    BY CommandShapes
  <2>. QED
    BY <1>1, <2>1, <2>3, <2>4, OneFlushStays, CountsStay
<1>4. CASE ApplicationDies
  <2>1. /\ slot' = slot /\ dead' = TRUE /\ held' = [b \in Buffers |-> held[b] \ {"app"}]
        /\ thr' = [t \in Threads |-> Gone]
        /\ conn' = [t \in Conns |-> IF t = "sf" \/ thr[t].call.pc = "gone" THEN conn[t]
                                    ELSE [buf |-> <<>>, pipe |-> Append(conn[t].pipe, <<"eof">>)]]
    BY <1>4 DEF ApplicationDies
  <2>2. ASSUME NEW u \in Conns, NEW b \in Buffers
        PROVE  /\ <<"close", b>> \notin Kept(u)'
               /\ <<"close", b>> \in Sent(u)' => <<"close", b>> \in Sent(u)
    <3>1. <<"close", b>> \notin Kept(u)
      BY <1>1 DEF BuffersKnown
    <3>2. CASE conn'[u] = conn[u]
      BY <3>1, <3>2 DEF Kept, Sent
    <3>3. CASE conn'[u] = [buf |-> <<>>, pipe |-> Append(conn[u].pipe, <<"eof">>)]
      <4>1. conn'[u].buf = <<>> /\ conn'[u].pipe = Append(conn[u].pipe, <<"eof">>)
        BY <3>3
      <4>2. conn[u].pipe \in Seq(Commands) /\ <<"eof">> \in Commands
        BY <1>1, CommandShapes DEF TypeOK, Stream
      <4>3. Range(Append(conn[u].pipe, <<"eof">>)) = Range(conn[u].pipe) \cup {<<"eof">>}
        BY <4>2, RangeAppend
      <4>4. <<"close", b>> # <<"eof">>
        OBVIOUS
      <4>. QED
        BY <4>1, <4>3, <4>4, RangeShort DEF Kept, Sent
    <3>. QED
      BY <2>1, <3>2, <3>3
  <2>3. \A u \in Threads : thr'[u].call.buffer = 0
    BY <1>2, <2>1
  <2>4. BuffersKnown'
    BY <1>1, <2>1, <2>2, <2>3 DEF BuffersKnown
  <2>5. BuffersCounted'
    BY <2>1 DEF BuffersCounted
  <2>. QED
    BY <2>4, <2>5 DEF Counted
<1>. QED
  BY <1>3, <1>4

(* A closing is sent, behind what was kept. *)
LEMMA CloseSentCounts ==
  ASSUME TypeOK, BuffersKnown, NEW t \in Conns, NEW b \in Buffers, conn' = rcCloseColorBuffer(t, b)
  PROVE  /\ Cardinality(Closing(b)') = Cardinality(Closing(b)) + 1
         /\ \A a \in Buffers \ {b} : Cardinality(Closing(a)') = Cardinality(Closing(a))
         /\ \A u \in Conns, a \in Buffers :
              /\ <<"close", a>> \notin Kept(u)'
              /\ <<"close", a>> \in Sent(u)' => <<"close", a>> \in Sent(u) \/ a = b
<1>1. PICK x \in Commands : x = <<"close", b>>
  BY CommandShapes
<1>2. <<x>> \in Seq(Commands) /\ Range(<<x>>) = {x}
  BY RangeShort
<1>3. /\ conn' \in [Conns -> Stream] /\ conn'[t].pipe = (conn[t].pipe \o conn[t].buf) \o <<x>>
      /\ Kept(t)' = {} /\ Sent(t)' = OnTheWay(t) \cup {x}
      /\ \A u \in Conns \ {t} : conn'[u] = conn[u]
  BY <1>1, <1>2, FlushedEffect DEF rcCloseColorBuffer
<1>4. PICK cn \in [Conns -> Stream] : cn = conn
  BY DEF TypeOK
<1>5. PICK dn \in [Conns -> Stream] : dn = conn'
  BY <1>3
<1>6. PICK p \in Seq(Commands) : p = cn[t].pipe
  BY DEF Stream
<1>7. PICK q \in Seq(Commands) : q = cn[t].buf
  BY DEF Stream
<1>8. dn[t].pipe = (p \o q) \o <<x>> /\ \A u \in Conns \ {t} : dn[u] = cn[u]
  BY <1>3, <1>4, <1>5, <1>6, <1>7
<1>9. \A a \in Buffers : <<"close", a>> \notin Range(q)
  BY <1>4, <1>7 DEF BuffersKnown, Kept
<1>10. \A a \in Buffers : Closing(a) = ClosingIn(cn, a) /\ Closing(a)' = ClosingIn(dn, a)
  BY <1>4, <1>5 DEF Closing, ClosingIn
<1>11. Cardinality(ClosingIn(dn, b)) = Cardinality(ClosingIn(cn, b)) + 1
  <2>1. p \o q \in Seq(Commands)
    BY <1>6
  <2>2. PICK m \in Stream : m = [buf |-> <<>>, pipe |-> p \o q]
    <3>1. [buf |-> <<>>, pipe |-> p \o q] \in Stream
      BY <2>1 DEF Stream
    <3>. QED
      BY <3>1
  <2>3. PICK mn \in [Conns -> Stream] : mn = [cn EXCEPT ![t] = m]
    OBVIOUS
  <2>4. mn[t].pipe = p \o q /\ \A u \in Conns \ {t} : mn[u] = cn[u]
    BY <2>2, <2>3
  <2>5. ClosingIn(mn, b) = ClosingIn(cn, b)
    <3>1. <<"close", b>> \notin Range(q)
      BY <1>9
    <3>2. SentMore(cn, mn, t, q)
      BY <1>6, <2>4 DEF SentMore
    <3>. QED
      BY <3>1, <3>2, ClosingSent
  <2>6. SentMore(mn, dn, t, <<<<"close", b>>>>)
    BY <1>1, <1>8, <2>4 DEF SentMore
  <2>7. Cardinality(ClosingIn(dn, b)) = Cardinality(ClosingIn(mn, b)) + 1
    BY <2>6, ClosingAdded
  <2>. QED
    BY <2>5, <2>7
<1>12. ASSUME NEW a \in Buffers \ {b} PROVE ClosingIn(dn, a) = ClosingIn(cn, a)
  <2>1. PICK more \in Seq(Commands) : more = q \o <<x>>
    <3>1. q \o <<x>> \in Seq(Commands)
      BY <1>2
    <3>. QED
      BY <3>1
  <2>2. Range(more) = Range(q) \cup {x}
    <3>1. PICK z \in Seq(Commands) : z = <<x>>
      BY <1>2
    <3>2. Range(q \o z) = Range(q) \cup Range(z)
      BY RangeConcat
    <3>. QED
      BY <1>2, <2>1, <3>1, <3>2
  <2>3. <<"close", a>> \notin Range(more)
    BY <1>1, <1>9, <2>2
  <2>4. dn[t].pipe = p \o more
    <3>1. (p \o q) \o <<x>> = p \o (q \o <<x>>)
      BY <1>2, ConcatAssociative
    <3>. QED
      BY <1>8, <2>1, <3>1
  <2>5. SentMore(cn, dn, t, more)
    BY <1>6, <1>8, <2>4 DEF SentMore
  <2>. QED
    BY <2>3, <2>5, ClosingSent
<1>13. ASSUME NEW u \in Conns, NEW a \in Buffers
       PROVE  /\ <<"close", a>> \notin Kept(u)'
              /\ <<"close", a>> \in Sent(u)' => <<"close", a>> \in Sent(u) \/ a = b
  <2>1. <<"close", a>> \notin Kept(u)
    BY DEF BuffersKnown
  <2>2. CASE u = t
    BY <1>1, <1>3, <2>1, <2>2 DEF OnTheWay
  <2>3. CASE u # t
    BY <1>3, <2>1, <2>3 DEF Kept, Sent
  <2>. QED
    BY <2>2, <2>3
<1>. QED
  BY <1>10, <1>11, <1>12, <1>13

(* Who holds a buffer: two processes at most. *)
LEMMA Holders ==
  ASSUME NEW H \in SUBSET {"app", "sf"}, NEW x
  PROVE  /\ Cardinality(H) \in Nat
         /\ x \notin H => Cardinality(H \cup {x}) = Cardinality(H) + 1
         /\ x \in H => Cardinality(H \ {x}) + 1 = Cardinality(H)
<1>1. IsFiniteSet({"app"})
  BY FS_Singleton
<1>2. IsFiniteSet({"app"} \cup {"sf"})
  BY <1>1, FS_AddElement
<1>3. H \subseteq {"app"} \cup {"sf"}
  OBVIOUS
<1>4. IsFiniteSet(H)
  BY <1>2, <1>3, FS_Subset, Zenon
<1>5. Cardinality(H) \in Nat
  BY <1>4, FS_CardinalityType
<1>6. Cardinality(H \cup {x}) = IF x \in H THEN Cardinality(H) ELSE Cardinality(H) + 1
  BY <1>4, FS_AddElement
<1>7. Cardinality(H \ {x}) = IF x \in H THEN Cardinality(H) - 1 ELSE Cardinality(H)
  BY <1>4, FS_RemoveElement
<1>. QED
  BY <1>5, <1>6, <1>7

(* A process lets go of a buffer: its reference goes to the stream. *)
LEMMA ReferenceSent ==
  ASSUME Safe, Counted, NEW t \in Conns, NEW b \in Buffers, NEW x \in held[b],
         held' = [held EXCEPT ![b] = @ \ {x}], conn' = rcCloseColorBuffer(t, b),
         thr' = thr, count' = count, miscounted' = miscounted, dead' = dead,
         slot' = slot \/ slot' = [slot EXCEPT ![b] = "freed"]
  PROVE  Counted'
<1>1. TypeOK /\ BuffersKnown
  BY DEF Safe, Counted
<1>2. slot[b] # "none" /\ held[b] \in SUBSET {"app", "sf"}
  BY <1>1 DEF BuffersKnown, TypeOK
<1>3. \A a \in Buffers : (slot'[a] = "none" => slot[a] = "none" /\ a # b)
  BY <1>1, <1>2 DEF TypeOK
<1>4. held'[b] = held[b] \ {x} /\ \A a \in Buffers \ {b} : held'[a] = held[a]
  BY <1>1 DEF TypeOK
<1>5. /\ Cardinality(Closing(b)') = Cardinality(Closing(b)) + 1
      /\ \A a \in Buffers \ {b} : Cardinality(Closing(a)') = Cardinality(Closing(a))
      /\ \A u \in Conns, a \in Buffers :
           /\ <<"close", a>> \notin Kept(u)'
           /\ <<"close", a>> \in Sent(u)' => <<"close", a>> \in Sent(u) \/ a = b
  BY <1>1, CloseSentCounts
<1>6. BuffersKnown'
  BY <1>1, <1>3, <1>4, <1>5 DEF BuffersKnown
<1>7. Cardinality(held[b] \ {x}) + 1 = Cardinality(held[b]) /\ Cardinality(held[b] \ {x}) \in Nat
  BY <1>2, Holders
<1>8. Cardinality(Closing(b)) \in Nat
  BY <1>1, ClosingNat
<1>9. Cardinality(held'[b]) + Cardinality(Closing(b)') = Cardinality(held[b]) + Cardinality(Closing(b))
  BY <1>4, <1>5, <1>7, <1>8
<1>10. ASSUME ~dead', NEW a \in Buffers \ miscounted'
       PROVE  count'[a] = Cardinality(held'[a]) + Cardinality(Closing(a)')
  <2>1. count[a] = Cardinality(held[a]) + Cardinality(Closing(a))
    BY <1>10 DEF Counted, BuffersCounted
  <2>2. CASE a = b
    BY <1>9, <2>1, <2>2
  <2>3. CASE a # b
    BY <1>4, <1>5, <2>1, <2>3
  <2>. QED
    BY <2>2, <2>3
<1>11. BuffersCounted'
  BY <1>10 DEF BuffersCounted
<1>. QED
  BY <1>6, <1>11 DEF Counted

(* The application unregisters a buffer; SurfaceFlinger allocates, reuses  *)
(* and frees it.                                                           *)
LEMMA LetGoCounts ==
  ASSUME Safe, Counted, NEW b \in Buffers,
         SurfaceFlinger \/ \E t \in Threads : gralloc_unregister_buffer(t, b)
  PROVE  Counted'
<1> USE DEF guestVars, bufferVars, hostVars
<1>1. TypeOK /\ BuffersKnown /\ "sf" \in Conns /\ Threads \subseteq Conns
  BY DEF Safe, Counted, Conns
<1>2. ASSUME NEW t \in Threads, gralloc_unregister_buffer(t, b) PROVE Counted'
  <2>1. PICK x : x = "app"
    OBVIOUS
  <2>2. /\ x \in held[b] /\ held' = [held EXCEPT ![b] = @ \ {x}] /\ conn' = rcCloseColorBuffer(t, b)
        /\ thr' = thr /\ count' = count /\ miscounted' = miscounted /\ dead' = dead /\ slot' = slot
    BY <1>2, <2>1 DEF gralloc_unregister_buffer
  <2>. QED
    BY <1>1, <2>2, ReferenceSent
<1>3. ASSUME NEW a \in Buffers, gralloc_free(a) PROVE Counted'
  <2>1. PICK x : x = "sf"
    OBVIOUS
  <2>2. /\ x \in held[a] /\ held' = [held EXCEPT ![a] = @ \ {x}] /\ conn' = rcCloseColorBuffer("sf", a)
        /\ thr' = thr /\ count' = count /\ miscounted' = miscounted /\ dead' = dead
        /\ slot' = [slot EXCEPT ![a] = "freed"]
    BY <1>3, <2>1 DEF gralloc_free
  <2>. QED
    BY <1>1, <2>2, ReferenceSent
<1>4. ASSUME NEW a \in Buffers, ConsumerReleases(a) PROVE Counted'
  <2>1. /\ held' = held /\ count' = count /\ miscounted' = miscounted /\ dead' = dead /\ thr' = thr
        /\ conn' = conn /\ slot' = [slot EXCEPT ![a] = "free"]
    BY <1>4 DEF ConsumerReleases
  <2>2. CallsKnown
    BY <1>1, <2>1 DEF CallsKnown, TypeOK
  <2>. QED
    BY <1>1, <2>1, <2>2, ConnStays, CountsStay
<1>5. ASSUME NEW a \in Buffers, gralloc_alloc(a) PROVE Counted'
  <2>1. /\ slot' = [slot EXCEPT ![a] = "free"] /\ held' = [held EXCEPT ![a] = {"sf"}]
        /\ count' = [count EXCEPT ![a] = 1] /\ thr' = thr /\ conn' = conn /\ miscounted' = miscounted
        /\ dead' = dead /\ slot[a] = "none"
    BY <1>5 DEF gralloc_alloc
  <2>2. ClosingsStay
    BY <1>1, <2>1, ConnStays
  <2>3. /\ slot'[a] = "free" /\ held'[a] = {"sf"} /\ count'[a] = 1
        /\ \A d \in Buffers \ {a} : slot'[d] = slot[d] /\ held'[d] = held[d] /\ count'[d] = count[d]
    BY <1>1, <2>1 DEF TypeOK
  <2>4. BuffersKnown'
    BY <1>1, <2>1, <2>2, <2>3 DEF BuffersKnown, ClosingsStay
  <2>5. Cardinality(Closing(a)) = 0
    <3>1. \A u \in Conns : <<"close", a>> \notin Sent(u)
      BY <1>1, <2>1 DEF BuffersKnown
    <3>2. \A q : q \notin ClosingIn(conn, a)
      BY <3>1, ClosingPlaces DEF Sent, Range
    <3>3. Closing(a) = {}
      BY <3>2 DEF Closing, ClosingIn
    <3>. QED
      BY <3>3, FS_EmptySet
  <2>6. Cardinality({"sf"}) = 1
    BY FS_Singleton
  <2>7. ASSUME ~dead', NEW d \in Buffers \ miscounted'
        PROVE  count'[d] = Cardinality(held'[d]) + Cardinality(Closing(d)')
    <3>1. Cardinality(Closing(d)') = Cardinality(Closing(d))
      BY <2>2 DEF ClosingsStay
    <3>2. CASE d = a
      BY <2>3, <2>5, <2>6, <3>1, <3>2
    <3>3. CASE d # a
      BY <2>1, <2>3, <2>7, <3>1, <3>3 DEF Counted, BuffersCounted
    <3>. QED
      BY <3>2, <3>3
  <2>8. BuffersCounted'
    BY <2>7 DEF BuffersCounted
  <2>. QED
    BY <2>4, <2>8 DEF Counted
<1>. QED
  BY <1>2, <1>3, <1>4, <1>5 DEF SurfaceFlinger

(* A buffer is registered: the host counts it, or it is miscounted. *)
LEMMA RegisterCounts ==
  ASSUME Safe, Counted, NEW t \in Threads, gralloc_register_buffer(t) PROVE Counted'
<1> USE DEF guestVars, bufferVars, hostVars
<1>1. TypeOK /\ CallShape /\ BuffersKnown /\ t \in Conns
  BY DEF Safe, Counted, Conns
<1>2. thr[t].call \in Call /\ Shape(thr[t].call) /\ thr[t].call.pc = "registering"
  BY <1>1 DEF TypeOK, ThreadInfo, CallShape, gralloc_register_buffer, Answered, At
<1>3. PICK b \in Buffers : b = thr[t].call.buffer
  BY <1>2 DEF Call, Shape
<1>4. PICK s \in Surfs \cup {0} : s = thr[t].call.surf
  BY <1>2 DEF Call
<1>5. /\ slot' = slot /\ dead' = dead /\ held' = [held EXCEPT ![b] = held[b] \cup {"app"}]
      /\ count' = IF "app" \notin held[b] /\ count[b] > 0 THEN [count EXCEPT ![b] = count[b] + 1] ELSE count
      /\ miscounted' = IF "app" \notin held[b] /\ count[b] = 0 THEN miscounted \cup {b} ELSE miscounted
  BY <1>3 DEF gralloc_register_buffer
<1>6. slot[b] # "none"
  BY <1>1, <1>3 DEF BuffersKnown
<1>7. ClosingsStay /\ CallsKnown
  <2>1. CASE s = 0
    <3>1. PICK call : call = [thr[t].call EXCEPT !.pc = "creating window"]
      OBVIOUS
    <3>2. Goes(t, call) /\ conn' = Flushed(t, <<>>)
      BY <1>4, <2>1, <3>1 DEF gralloc_register_buffer, Calls, Goes
    <3>3. call.buffer = thr[t].call.buffer
      BY <1>2, <3>1 DEF Call
    <3>. QED
      BY <1>1, <1>5, <3>2, <3>3, PlainFlushStays, CallKnown
  <2>2. CASE s # 0 /\ ~surf[s].live
    <3>1. thr' = thr /\ conn' = conn
      BY <1>4, <2>2 DEF gralloc_register_buffer
    <3>. QED
      BY <1>1, <1>5, <3>1, ConnStays DEF CallsKnown
  <2>3. CASE s # 0 /\ surf[s].live
    <3>1. Goes(t, Idle) /\ conn' = Flushed(t, <<rcSetWindowColorBuffer(surf[s].rc, b)>>)
      BY <1>3, <1>4, <2>3 DEF gralloc_register_buffer
    <3>2. surf[s].rc \in Nat
      BY <1>1, <2>3 DEF TypeOK, Surface
    <3>3. PICK cmd \in Commands : cmd = rcSetWindowColorBuffer(surf[s].rc, b) /\ cmd[1] # "close"
      BY <3>2, CommandShapes, OtherCommands
    <3>. QED
      BY <1>1, <1>5, <3>1, <3>3, IdleCall, OneFlushStays, CallKnown
  <2>. QED
    BY <2>1, <2>2, <2>3
<1>8. held'[b] = held[b] \cup {"app"} /\ \A a \in Buffers \ {b} : held'[a] = held[a] /\ count'[a] = count[a]
  BY <1>1, <1>5 DEF TypeOK
<1>9. BuffersKnown'
  BY <1>1, <1>5, <1>6, <1>7, <1>8 DEF BuffersKnown, ClosingsStay, CallsKnown
<1>10. ASSUME ~dead', NEW a \in Buffers \ miscounted'
       PROVE  count'[a] = Cardinality(held'[a]) + Cardinality(Closing(a)')
  <2>1. a \notin miscounted
    BY <1>5, <1>10
  <2>2. /\ count[a] = Cardinality(held[a]) + Cardinality(Closing(a))
        /\ Cardinality(Closing(a)') = Cardinality(Closing(a))
    BY <1>5, <1>7, <1>10, <2>1 DEF Counted, BuffersCounted, ClosingsStay
  <2>3. CASE a # b
    BY <1>8, <2>2, <2>3
  <2>4. CASE a = b /\ "app" \in held[b]
    <3>1. held'[b] = held[b] /\ count'[b] = count[b]
      BY <1>5, <1>8, <2>4
    <3>. QED
      BY <2>2, <2>4, <3>1
  <2>5. CASE a = b /\ "app" \notin held[b]
    <3>1. count[b] \in Nat /\ count[b] # 0
      BY <1>1, <1>5, <1>10, <2>5 DEF TypeOK
    <3>2. count'[b] = count[b] + 1
      BY <1>1, <1>5, <2>5, <3>1 DEF TypeOK
    <3>3. held[b] \in SUBSET {"app", "sf"}
      BY <1>1 DEF TypeOK
    <3>4. Cardinality(held'[b]) = Cardinality(held[b]) + 1 /\ Cardinality(held[b]) \in Nat
      BY <1>8, <2>5, <3>3, Holders
    <3>5. Cardinality(Closing(b)) \in Nat
      BY <1>1, ClosingNat
    <3>. QED
      BY <2>2, <2>5, <3>1, <3>2, <3>4, <3>5
  <2>. QED
    BY <2>3, <2>4, <2>5
<1>11. BuffersCounted'
  BY <1>10 DEF BuffersCounted
<1>. QED
  BY <1>9, <1>11 DEF Counted

(* The host executes a closing: the reference on the way is the one that   *)
(* the count loses.                                                        *)
LEMMA CloseCounts == ASSUME Safe, Counted, NEW t \in Conns, closeColorBuffer(t) PROVE Counted'
<1> USE DEF guestVars, bufferVars, hostVars
<1>1. TypeOK /\ BuffersKnown /\ Executes(t, "close")
  BY DEF Safe, Counted, closeColorBuffer
<1>2. /\ conn' \in [Conns -> Stream] /\ conn'[t].pipe = Tail(conn[t].pipe)
      /\ Kept(t)' = Kept(t) /\ Sent(t) = {Head(conn[t].pipe)} \cup Sent(t)'
      /\ \A u \in Conns \ {t} : conn'[u] = conn[u]
      /\ Head(conn[t].pipe) \in Commands
  BY <1>1, ExecutedEffect DEF Executes
<1>3. PICK b \in Buffers : b = Arg(t, 2) /\ Head(conn[t].pipe) = <<"close", b>>
  BY <1>1, <1>2, CommandShapes DEF Executes, Arg
<1>4. /\ thr' = thr /\ slot' = slot /\ held' = held /\ dead' = dead /\ miscounted' = miscounted
      /\ count' = [count EXCEPT ![b] = IF count[b] > 0 THEN count[b] - 1 ELSE 0]
  BY <1>1, <1>3 DEF closeColorBuffer, Executes
<1>5. ASSUME NEW u \in Conns, NEW a \in Buffers
      PROVE  /\ <<"close", a>> \notin Kept(u)'
             /\ <<"close", a>> \in Sent(u)' => <<"close", a>> \in Sent(u)
  <2>1. <<"close", a>> \notin Kept(u)
    BY <1>1 DEF BuffersKnown
  <2>2. CASE u = t
    BY <1>2, <2>1, <2>2
  <2>3. CASE u # t
    BY <1>2, <2>1, <2>3 DEF Kept, Sent
  <2>. QED
    BY <2>2, <2>3
<1>6. BuffersKnown'
  BY <1>1, <1>4, <1>5 DEF BuffersKnown
<1>7. \A a \in Buffers : Cardinality(Closing(a)) =
        IF Head(conn[t].pipe) = <<"close", a>> THEN Cardinality(Closing(a)') + 1
        ELSE Cardinality(Closing(a)')
  <2>1. PICK cn \in [Conns -> Stream] : cn = conn
    BY <1>1 DEF TypeOK
  <2>2. PICK dn \in [Conns -> Stream] : dn = conn'
    BY <1>2
  <2>3. cn[t].pipe # <<>> /\ dn[t].pipe = Tail(cn[t].pipe) /\ \A u \in Conns \ {t} : dn[u] = cn[u]
    BY <1>1, <1>2, <2>1, <2>2 DEF Executes
  <2>4. ASSUME NEW a \in Buffers
        PROVE  Cardinality(ClosingIn(cn, a)) =
                 IF Head(cn[t].pipe) = <<"close", a>> THEN Cardinality(ClosingIn(dn, a)) + 1
                 ELSE Cardinality(ClosingIn(dn, a))
    BY <2>3, ClosingExecuted
  <2>5. \A a \in Buffers : Closing(a) = ClosingIn(cn, a) /\ Closing(a)' = ClosingIn(dn, a)
    BY <2>1, <2>2 DEF Closing, ClosingIn
  <2>. QED
    BY <2>1, <2>4, <2>5
<1>8. \A a \in Buffers : Cardinality(Closing(a)) \in Nat /\ Cardinality(Closing(a)') \in Nat
  <2>1. PICK dn \in [Conns -> Stream] : dn = conn'
    BY <1>2
  <2>2. \A a \in Buffers : Cardinality(ClosingIn(dn, a)) \in Nat
    BY ClosingFinite
  <2>3. \A a \in Buffers : Closing(a)' = ClosingIn(dn, a)
    BY <2>1 DEF Closing, ClosingIn
  <2>. QED
    BY <1>1, <2>2, <2>3, ClosingNat
<1>9. ASSUME ~dead', NEW a \in Buffers \ miscounted'
      PROVE  count'[a] = Cardinality(held'[a]) + Cardinality(Closing(a)')
  <2>1. count[a] = Cardinality(held[a]) + Cardinality(Closing(a))
    BY <1>4, <1>9 DEF Counted, BuffersCounted
  <2>2. CASE a # b
    <3>1. Cardinality(Closing(a)) = Cardinality(Closing(a)')
      BY <1>3, <1>7, <2>2
    <3>2. count'[a] = count[a]
      BY <1>1, <1>4, <2>2 DEF TypeOK
    <3>. QED
      BY <1>4, <2>1, <3>1, <3>2
  <2>3. CASE a = b
    <3>1. Cardinality(Closing(b)) = Cardinality(Closing(b)') + 1
      BY <1>3, <1>7
    <3>2. Cardinality(held[b]) \in Nat
      <4>1. held[b] \in SUBSET {"app", "sf"}
        BY <1>1 DEF TypeOK
      <4>. QED
        BY <4>1, Holders
    <3>3. count[b] = Cardinality(held[b]) + Cardinality(Closing(b)') + 1 /\ count[b] > 0
      BY <1>8, <2>1, <2>3, <3>1, <3>2
    <3>4. count'[b] = count[b] - 1
      BY <1>1, <1>4, <3>3 DEF TypeOK
    <3>. QED
      BY <1>4, <1>8, <2>3, <3>2, <3>3, <3>4
  <2>. QED
    BY <2>2, <2>3
<1>10. BuffersCounted'
  BY <1>9 DEF BuffersCounted
<1>. QED
  BY <1>6, <1>10 DEF Counted

(* The other commands of the host; the end of a render thread takes no     *)
(* reference but of a buffer that is then miscounted.                      *)
LEMMA HostCounts == ASSUME Safe, Counted, NEW t \in Conns, Host(t) PROVE Counted'
<1> USE DEF guestVars, bufferVars, hostVars
<1>1. TypeOK /\ BuffersKnown
  BY DEF Safe, Counted
<1>2. CASE closeColorBuffer(t)
  BY <1>2, CloseCounts
<1>3. ASSUME NEW name, name # "close", Executes(t, name)
      PROVE  ClosingsStay /\ CallsKnown /\ held' = held /\ dead' = dead
  <2>1. thr' = thr /\ slot' = slot /\ held' = held /\ dead' = dead
    BY <1>3 DEF Executes
  <2>2. CallsKnown
    BY <2>1 DEF CallsKnown
  <2>. QED
    BY <1>1, <1>3, <2>1, <2>2, ExecuteStays
<1>4. CASE DestroyRenderContext(t) \/ DestroyWindowSurface(t) \/ setWindowSurfaceColorBuffer(t)
  <2>1. PICK name : name # "close" /\ Executes(t, name)
    BY <1>4 DEF DestroyRenderContext, DestroyWindowSurface, setWindowSurfaceColorBuffer
  <2>2. count' = count /\ miscounted' = miscounted
    BY <1>4 DEF DestroyRenderContext, DestroyWindowSurface, setWindowSurfaceColorBuffer
  <2>. QED
    BY <1>3, <2>1, <2>2, CountsStay
<1>5. CASE RenderThreadEnds(t)
  <2>1. /\ Executes(t, "eof")
        /\ count' = [b \in Buffers |-> count[b] - Drops(t, b)]
        /\ miscounted' = miscounted \cup {b \in Buffers : Drops(t, b) > 0}
    BY <1>5 DEF RenderThreadEnds, Mine, Drops
  <2>2. ClosingsStay /\ CallsKnown /\ held' = held /\ dead' = dead
    BY <1>3, <2>1
  <2>3. BuffersKnown'
    BY <1>1, <2>2 DEF BuffersKnown, ClosingsStay, CallsKnown
  <2>4. ASSUME ~dead', NEW a \in Buffers \ miscounted'
        PROVE  count'[a] = Cardinality(held'[a]) + Cardinality(Closing(a)')
    <3>1. Drops(t, a) \in Nat /\ count[a] \in Nat
      BY <1>1, DropsNat DEF TypeOK
    <3>2. ~(Drops(t, a) > 0) /\ a \notin miscounted
      BY <2>1, <2>4
    <3>3. count'[a] = count[a]
      BY <2>1, <3>1, <3>2
    <3>. QED
      BY <2>2, <2>4, <3>2, <3>3 DEF Counted, BuffersCounted, ClosingsStay
  <2>5. BuffersCounted'
    BY <2>4 DEF BuffersCounted
  <2>. QED
    BY <2>3, <2>5 DEF Counted
<1>. QED
  BY <1>2, <1>4, <1>5 DEF Host

(* Nothing is counted, held or closed at first. *)
LEMMA InitCounted == Init => Counted
<1> SUFFICES ASSUME Init PROVE Counted
  OBVIOUS
<1>1. /\ thr = [t \in Threads |-> [call |-> Idle, currentContext |-> 0]]
      /\ conn = [t \in Conns |-> [buf |-> <<>>, pipe |-> <<>>]]
      /\ held = [b \in Buffers |-> {}] /\ count = [b \in Buffers |-> 0]
  BY DEF Init
<1>2. \A t \in Threads : thr[t].call.buffer = 0
  BY <1>1, IdleCall
<1>3. \A t \in Conns : conn[t].buf = <<>> /\ conn[t].pipe = <<>>
  BY <1>1
<1>4. \A t \in Conns : Kept(t) = {} /\ Sent(t) = {}
  BY <1>3, RangeShort DEF Kept, Sent
<1>5. 0 \notin Buffers
  BY EglAssumption
<1>6. BuffersKnown
  BY <1>1, <1>2, <1>4, <1>5 DEF BuffersKnown
<1>7. ASSUME NEW b \in Buffers PROVE count[b] = Cardinality(held[b]) + Cardinality(Closing(b))
  <2>1. \A q : q \notin ClosingIn(conn, b)
    BY <1>4, ClosingPlaces DEF Sent, Range
  <2>2. Closing(b) = {} /\ held[b] = {} /\ count[b] = 0
    BY <1>1, <2>1 DEF Closing, ClosingIn
  <2>3. Cardinality({}) = 0
    BY FS_EmptySet
  <2>. QED
    BY <2>2, <2>3
<1>. QED
  BY <1>6, <1>7 DEF Counted, BuffersCounted

(* Every step preserves the counts. *)
LEMMA NextCounted == Safe /\ Counted /\ [Next]_vars => Counted'
<1> SUFFICES ASSUME Safe, Counted, [Next]_vars PROVE Counted'
  OBVIOUS
<1>1. CASE SurfaceFlinger
  <2>1. PICK b : b \in Buffers
    BY <1>1 DEF SurfaceFlinger
  <2>. QED
    BY <1>1, <2>1, LetGoCounts
<1>2. CASE ApplicationDies
  BY <1>2, EndsCount
<1>3. ASSUME NEW t \in Threads, Application(t) PROVE Counted'
  BY <1>3, ContextsCount, MakeCurrentCounts, SurfacesCount, RegisterCounts, EndsCount, LetGoCounts
     DEF Application
<1>4. ASSUME NEW t \in Conns, Host(t) PROVE Counted'
  BY <1>4, HostCounts
<1>5. CASE UNCHANGED vars
  <2>1. /\ thr' = thr /\ slot' = slot /\ held' = held /\ dead' = dead /\ conn' = conn
        /\ count' = count /\ miscounted' = miscounted
    BY <1>5 DEF vars, guestVars, bufferVars, hostVars
  <2>2. CallsKnown
    BY <2>1 DEF CallsKnown
  <2>. QED
    BY <2>1, <2>2, ConnStays, CountsStay DEF Counted
<1>. QED
  BY <1>1, <1>2, <1>3, <1>4, <1>5 DEF Next

(* The count of a colour buffer is what the processes hold and what is on  *)
(* its way to be closed, for every buffer that was not opened too late and *)
(* of which no ending render thread took a reference.                      *)
THEOREM ReferencesCounted == Spec => []BuffersCounted
<1>1. Init => Safe /\ Counted
  BY InitSafe, InitCounted
<1>2. (Safe /\ Counted) /\ [Next]_vars => (Safe /\ Counted)'
  BY NextSafe, NextCounted
<1>3. Safe /\ Counted => BuffersCounted
  BY DEF Counted
<1>. QED
  BY <1>1, <1>2, <1>3, PTL DEF Spec
=============================================================================
