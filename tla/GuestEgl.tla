------------------------------ MODULE GuestEgl ------------------------------
(***************************************************************************)
(* EGL and gralloc of the guest over the render control protocol: the      *)
(* threads of an application with the EGL contexts and window surfaces     *)
(* they share, one HostConnection and one render thread of the host for    *)
(* each, and the colour buffers that SurfaceFlinger allocates and the      *)
(* application registers.                                                  *)
(*                                                                         *)
(* A command without an answer stays in the stream's buffer until the next *)
(* flush.  The others flush and wait: a thread that waits goes on when its *)
(* render thread has executed all that came before, in one step with the   *)
(* command itself.  Contexts and surfaces of the guest are addresses,      *)
(* which malloc gives out again; handles of the host are not reused.       *)
(* Reading through an address that was freed is undefined: the model       *)
(* stops.  Draw and read surface are the same one.  Drawing is left out,   *)
(* and so is what only one thread can see (queries, configs).              *)
(***************************************************************************)
EXTENDS Naturals, Sequences, FiniteSets, FiniteSetsExt

CONSTANTS Threads,     \* threads of the application
          Ctxs, Surfs, \* addresses of EGLContext_t and egl_window_surface_t
          Buffers,     \* colour buffers, one for each allocation
          MaxHandles,  \* bound: contexts and surfaces asked of the host
          PipeSize     \* commands a pipe has room for

ASSUME EglAssumption ==
  /\ 0 \notin Ctxs \cup Surfs \cup Buffers /\ "sf" \notin Threads
  /\ MaxHandles \in Nat /\ PipeSize \in Nat
  /\ IsFiniteSet(Threads)

Conns == Threads \cup {"sf"}   \* "sf": the thread of SurfaceFlinger

VARIABLES
  thr,       \* EGLThreadInfo and the call a thread is in
  ctx, surf, \* memory of the application
  conn,      \* stream of each thread: encoded, and sent
  slot,      \* buffer in the window's queue: "none", "free", "dequeued", "queued", "freed"
  held,      \* processes that have the buffer allocated or registered
  contexts,  \* m_contexts: render thread that has a context in its m_contextSet
  windows,   \* m_windows: render thread of a surface, its colour buffer or 0
  count,     \* references of the colour buffers
  current,   \* RenderThreadInfo: what is current
  next,
  loose,     \* threads whose binding the guest has lost sight of
  miscounted,\* buffers registered although the host had none, or of which the
             \* end of a render thread took a reference
  dead,      \* the application has been killed
  undefined

guestVars == <<thr, ctx, surf>>
bufferVars == <<slot, held>>
hostVars == <<contexts, windows, count, current, next, miscounted>>
vars == <<guestVars, conn, bufferVars, hostVars, loose, dead, undefined>>

NoContext == [live |-> FALSE, rc |-> 0, isCurrent |-> FALSE, draw |-> 0, deletePending |-> FALSE, by |-> ""]
NoSurface == [live |-> FALSE, rc |-> 0, buffer |-> 0, by |-> ""]
Nothing == [ctx |-> 0, draw |-> 0]
Idle == [pc |-> "idle", ctx |-> 0, surf |-> 0, buffer |-> 0, bind |-> Nothing, lost |-> FALSE]

Init ==
  /\ thr = [t \in Threads |-> [call |-> Idle, currentContext |-> 0]]
  /\ ctx = [c \in Ctxs |-> NoContext] /\ surf = [s \in Surfs |-> NoSurface]
  /\ conn = [t \in Conns |-> [buf |-> <<>>, pipe |-> <<>>]]
  /\ slot = [b \in Buffers |-> "none"] /\ held = [b \in Buffers |-> {}]
  /\ contexts = <<>> /\ windows = <<>> /\ count = [b \in Buffers |-> 0]
  /\ current = [t \in Threads |-> Nothing]
  /\ next = 1
  /\ loose = {} /\ miscounted = {} /\ dead = FALSE /\ undefined = FALSE

(* The tables.  A render thread may keep the handle of an object that      *)
(* another one has destroyed; as handles are not reused, that is nothing.  *)
With(table, h, entry) == [x \in DOMAIN table \cup {h} |-> IF x = h THEN entry ELSE table[x]]
Without(table, hs) == [x \in DOMAIN table \ hs |-> table[x]]

At(t, pc) == ~undefined /\ thr[t].call.pc = pc
Answered(t, pc) == At(t, pc) /\ conn[t].pipe = <<>>

(* A write to a full pipe waits; so does the thread before its next call.  *)
Ready(t) == At(t, "idle") /\ Len(conn[t].pipe) < PipeSize

(* IOStream: a command is encoded; what is encoded is flushed.             *)
Encoded(t, cmd) == [conn EXCEPT ![t].buf = Append(@, cmd)]
Flushed(t, cmds) == [conn EXCEPT ![t] = [buf |-> <<>>, pipe |-> @.pipe \o @.buf \o cmds]]

(* The commands without an answer.  Only the last one flushes.             *)
rcDestroyContext(c)          == <<"destroyContext", c>>
rcDestroyWindowSurface(w)    == <<"destroyWindow", w>>
rcSetWindowColorBuffer(w, b) == <<"setWindow", w, b>>
rcCloseColorBuffer(t, b)     == Flushed(t, <<<<"close", b>>>>)

(* A call that waits for an answer. *)
Calls(t, call) ==
  /\ thr' = [thr EXCEPT ![t].call = call]
  /\ conn' = Flushed(t, <<>>)
Goes(t, call) == thr' = [thr EXCEPT ![t].call = call]

----------------------------------------------------------------------------
(* Contexts. *)

Creating == {t \in Threads : thr[t].call.pc = "creating context" \/ (thr[t].call.buffer # 0 /\ thr[t].call.surf = 0)}
CanCreate == next + Cardinality(Creating) <= MaxHandles

eglCreateContext(t) ==
  /\ Ready(t) /\ CanCreate /\ \E c \in Ctxs : ~ctx[c].live
  /\ Calls(t, [Idle EXCEPT !.pc = "creating context"])
  /\ UNCHANGED <<ctx, surf, bufferVars, hostVars, loose, dead, undefined>>

(* createRenderContext on the host, which may fail, and the rest of        *)
(* eglCreateContext.                                                       *)
ContextCreated(t, c) ==
  /\ Answered(t, "creating context") /\ ~ctx[c].live
  /\ \/ UNCHANGED <<ctx, contexts, next>>
     \/ /\ next' = next + 1
        /\ contexts' = With(contexts, next, t)
        /\ ctx' = [ctx EXCEPT ![c] = [NoContext EXCEPT !.live = TRUE, !.rc = next, !.by = t]]
  /\ Goes(t, Idle)
  /\ UNCHANGED <<surf, conn, bufferVars, windows, count, current, miscounted, loose, dead, undefined>>

\* Mutant of eglDestroyContext: the host is told before the test.
eglDestroyContextFirst(t, c) ==
  /\ Ready(t) /\ ctx[c].live /\ ~ctx[c].deletePending
  /\ ctx' = [ctx EXCEPT ![c] = IF thr[t].currentContext = c THEN [@ EXCEPT !.deletePending = TRUE] ELSE NoContext]
  /\ conn' = Encoded(t, rcDestroyContext(ctx[c].rc))
  /\ loose' = loose \cup {u \in Threads \ {t} : thr[u].currentContext = c}
  /\ UNCHANGED <<thr, surf, bufferVars, hostVars, dead, undefined>>

(* The context of the own thread is kept for later; of no other.           *)
eglDestroyContext(t, c) ==
  /\ Ready(t) /\ ctx[c].live /\ ~ctx[c].deletePending
  /\ IF thr[t].currentContext = c
     THEN /\ ctx' = [ctx EXCEPT ![c].deletePending = TRUE]
          /\ UNCHANGED <<conn, loose>>
     ELSE /\ ctx' = [ctx EXCEPT ![c] = NoContext]
          /\ conn' = Encoded(t, rcDestroyContext(ctx[c].rc))
          /\ loose' = loose \cup {u \in Threads : thr[u].currentContext = c}
  /\ UNCHANGED <<thr, surf, bufferVars, hostVars, dead, undefined>>

(* eglMakeCurrent up to rcMakeCurrent.  Nothing is done when nothing       *)
(* changes; a context whose deletion is pending goes first, and is gone    *)
(* even if the call is then refused.                                       *)
eglMakeCurrent(t, c, s) ==
  LET old     == thr[t].currentContext
      pending == old # 0 /\ ctx[old].deletePending /\ old # c
      now     == IF pending THEN 0 ELSE old
      refused == c # 0 /\ ctx[c].isCurrent /\ c # now
      bind    == IF c = 0 THEN Nothing ELSE [ctx |-> ctx[c].rc, draw |-> surf[s].rc]
      destroy == IF pending THEN <<rcDestroyContext(ctx[old].rc)>> ELSE <<>>
      others  == IF pending THEN {u \in Threads \ {t} : thr[u].currentContext = old} ELSE {}
  IN
  /\ Ready(t) /\ (c = 0 <=> s = 0)
  /\ c # 0 => ctx[c].live /\ surf[s].live
  /\ ~(old = c /\ (c = 0 \/ ctx[c].draw = s))
  /\ IF old # 0 /\ ~ctx[old].live THEN undefined' = TRUE /\ UNCHANGED <<guestVars, conn, loose>>
     ELSE /\ ctx' = IF pending THEN [ctx EXCEPT ![old] = NoContext] ELSE ctx
          /\ thr' = [thr EXCEPT ![t].currentContext = now,
                       ![t].call = IF refused THEN Idle
                                   ELSE [Idle EXCEPT !.pc = "binding", !.ctx = c, !.surf = s, !.bind = bind,
                                                     !.lost = pending]]
          /\ conn' = IF refused THEN [conn EXCEPT ![t].buf = @ \o destroy] ELSE Flushed(t, destroy)
          /\ loose' = loose \cup others \cup (IF refused /\ pending THEN {t} ELSE {})
          /\ UNCHANGED <<surf, undefined>>
  /\ UNCHANGED <<bufferVars, hostVars, dead>>

(* bindContext on the host: good handles, and current nowhere else.        *)
HostBinds(t, new) ==
  \/ new = Nothing
  \/ /\ new.ctx \in DOMAIN contexts /\ new.draw \in DOMAIN windows
     /\ \A u \in Threads \ {t} : current[u].ctx # new.ctx /\ current[u].draw # new.draw

\* Mutant of MadeCurrent: the answer of the host is not looked at.
MadeCurrentUnchecked(t) ==
  LET c   == thr[t].call.ctx
      new == thr[t].call.bind
      old == thr[t].currentContext
  IN
  /\ Answered(t, "binding") /\ \A x \in {c, old} \ {0} : ctx[x].live
  /\ current' = IF HostBinds(t, new) THEN [current EXCEPT ![t] = new] ELSE current
  /\ thr' = [thr EXCEPT ![t] = [call |-> Idle, currentContext |-> c]]
  /\ ctx' = [x \in Ctxs |-> IF x = old THEN [ctx[x] EXCEPT !.isCurrent = FALSE]
                             ELSE IF x = c THEN [ctx[x] EXCEPT !.draw = thr[t].call.surf, !.isCurrent = TRUE]
                             ELSE ctx[x]]
  /\ UNCHANGED <<surf, conn, bufferVars, contexts, windows, count, next, miscounted, dead, loose, undefined>>

(* The rest of eglMakeCurrent: the new context is marked, then the mark of *)
(* the old one is taken away, which may be the same.                       *)
MadeCurrent(t) ==
  LET c     == thr[t].call.ctx
      s     == thr[t].call.surf
      new   == thr[t].call.bind
      old   == thr[t].currentContext
      bound == IF c = 0 THEN ctx ELSE [ctx EXCEPT ![c].draw = s, ![c].isCurrent = TRUE]
  IN
  /\ Answered(t, "binding")
  /\ IF ~HostBinds(t, new)
     THEN /\ Goes(t, Idle)
          /\ loose' = IF thr[t].call.lost THEN loose \cup {t} ELSE loose
          /\ UNCHANGED <<ctx, current, undefined>>
     ELSE IF \E x \in {c, old} \ {0} : ~ctx[x].live
     THEN undefined' = TRUE /\ UNCHANGED <<thr, ctx, current, loose>>
     ELSE /\ current' = [current EXCEPT ![t] = new]
          /\ thr' = [thr EXCEPT ![t] = [call |-> Idle, currentContext |-> c]]
          /\ ctx' = IF old = 0 THEN bound ELSE [bound EXCEPT ![old].isCurrent = FALSE]
          /\ loose' = IF c # 0 /\ [ctx |-> ctx[c].rc, draw |-> surf[s].rc] # new
                      THEN loose \cup {t} \cup {u \in Threads : thr[u].currentContext = c}
                      ELSE loose \ {t}
          /\ UNCHANGED undefined
  /\ UNCHANGED <<surf, conn, bufferVars, contexts, windows, count, next, miscounted, dead>>

----------------------------------------------------------------------------
(* Window surfaces and their buffers. *)

eglCreateWindowSurface(t, b) ==
  /\ Ready(t) /\ CanCreate /\ slot[b] = "free" /\ \E s \in Surfs : ~surf[s].live
  /\ slot' = [slot EXCEPT ![b] = "dequeued"]
  /\ Calls(t, [Idle EXCEPT !.buffer = b, !.pc = "registering"])
  /\ UNCHANGED <<ctx, surf, held, hostVars, loose, dead, undefined>>

(* The buffer that dequeueBuffer has given is registered the first time:   *)
(* rcOpenColorBuffer2, whose answer is not looked at.  Then init goes on,  *)
(* or swapBuffers, whose command eglSwapBuffers flushes.                   *)
gralloc_register_buffer(t) ==
  LET b == thr[t].call.buffer  s == thr[t].call.surf  first == "app" \notin held[b] IN
  /\ Answered(t, "registering")
  /\ held' = [held EXCEPT ![b] = @ \cup {"app"}]
  /\ count' = IF first /\ count[b] > 0 THEN [count EXCEPT ![b] = @ + 1] ELSE count
  /\ miscounted' = IF first /\ count[b] = 0 THEN miscounted \cup {b} ELSE miscounted
  /\ IF s = 0
     THEN Calls(t, [thr[t].call EXCEPT !.pc = "creating window"]) /\ UNCHANGED <<surf, undefined>>
     ELSE IF ~surf[s].live THEN undefined' = TRUE /\ UNCHANGED <<thr, surf, conn>>
     ELSE /\ conn' = Flushed(t, <<rcSetWindowColorBuffer(surf[s].rc, b)>>)
          /\ surf' = [surf EXCEPT ![s].buffer = b]
          /\ Goes(t, Idle) /\ UNCHANGED undefined
  /\ UNCHANGED <<ctx, slot, contexts, windows, current, next, loose, dead>>

GivesBack(b, how) == [slot EXCEPT ![b] = IF @ = "dequeued" THEN how ELSE @]

(* createWindowSurface on the host, and the rest of init.  The colour      *)
(* buffer is set by a command that waits for the next flush; if the host   *)
(* made no surface, the buffer is cancelled.                               *)
WindowCreated(t, s) ==
  LET b == thr[t].call.buffer IN
  /\ Answered(t, "creating window") /\ ~surf[s].live
  /\ \/ /\ slot' = GivesBack(b, "free")
        /\ UNCHANGED <<surf, conn, windows, next>>
     \/ /\ next' = next + 1
        /\ windows' = With(windows, next, [by |-> t, buffer |-> 0])
        /\ surf' = [surf EXCEPT ![s] = [live |-> TRUE, rc |-> next, buffer |-> b, by |-> t]]
        /\ conn' = Encoded(t, rcSetWindowColorBuffer(next, b))
        /\ UNCHANGED slot
  /\ Goes(t, Idle)
  /\ UNCHANGED <<ctx, held, contexts, count, current, miscounted, loose, dead, undefined>>

(* Destroyed at once, whoever has it current. *)
eglDestroySurface(t, s) ==
  /\ Ready(t) /\ surf[s].live
  /\ surf' = [surf EXCEPT ![s] = NoSurface]
  /\ conn' = Encoded(t, rcDestroyWindowSurface(surf[s].rc))
  /\ slot' = IF surf[s].buffer = 0 THEN slot ELSE GivesBack(surf[s].buffer, "free")
  /\ loose' = loose \cup {u \in Threads : thr[u].currentContext # 0 /\ ctx[thr[u].currentContext].draw = s}
  /\ UNCHANGED <<thr, ctx, held, hostVars, dead, undefined>>

(* The application swaps what its thread has current. *)
eglSwapBuffers(t, s) ==
  /\ Ready(t) /\ surf[s].live
  /\ thr[t].currentContext # 0 /\ ctx[thr[t].currentContext].live /\ ctx[thr[t].currentContext].draw = s
  /\ Calls(t, [Idle EXCEPT !.pc = "swapping", !.surf = s])
  /\ UNCHANGED <<ctx, surf, bufferVars, hostVars, loose, dead, undefined>>

(* swapBuffers after rcFlushWindowColorBuffer: it queues the buffer.  A    *)
(* surface without one queues NULL.                                        *)
Swapped(t) ==
  LET s == thr[t].call.surf IN
  /\ Answered(t, "swapping")
  /\ IF ~surf[s].live \/ surf[s].buffer = 0
     THEN undefined' = TRUE /\ UNCHANGED <<thr, slot>>
     ELSE /\ slot' = GivesBack(surf[s].buffer, "queued")
          /\ Goes(t, [thr[t].call EXCEPT !.pc = "dequeuing"])
          /\ UNCHANGED undefined
  /\ UNCHANGED <<ctx, surf, conn, held, hostVars, loose, dead>>

(* It dequeues the next one.  If there will be none the surface has none,  *)
(* and eglSwapBuffers still returns EGL_TRUE.                              *)
Dequeued(t, b) ==
  LET s == thr[t].call.surf IN
  /\ At(t, "dequeuing")
  /\ IF ~surf[s].live THEN b = 0 /\ undefined' = TRUE /\ UNCHANGED <<thr, surf, slot>>
     ELSE IF b # 0
     THEN /\ slot[b] = "free"
          /\ slot' = [slot EXCEPT ![b] = "dequeued"]
          /\ Goes(t, [thr[t].call EXCEPT !.buffer = b, !.pc = "registering"])
          /\ UNCHANGED <<surf, undefined>>
     ELSE /\ \A a \in Buffers : slot[a] \in {"none", "freed"}
          /\ surf' = [surf EXCEPT ![s].buffer = 0]
          /\ Goes(t, Idle)
          /\ UNCHANGED <<slot, undefined>>
  /\ UNCHANGED <<ctx, conn, held, hostVars, loose, dead>>

\* Mutant of gralloc_unregister_buffer: the command is not flushed.
gralloc_unregister_unflushed(t, b) ==
  /\ Ready(t) /\ "app" \in held[b]
  /\ \A s \in Surfs : surf[s].buffer # b
  /\ \A u \in Threads : thr[u].call.buffer # b
  /\ held' = [held EXCEPT ![b] = @ \ {"app"}]
  /\ conn' = Encoded(t, <<"close", b>>)
  /\ UNCHANGED <<guestVars, slot, hostVars, loose, dead, undefined>>

(* The application lets go of a buffer: rcCloseColorBuffer flushes.        *)
gralloc_unregister_buffer(t, b) ==
  /\ Ready(t) /\ "app" \in held[b]
  /\ \A s \in Surfs : surf[s].buffer # b
  /\ \A u \in Threads : thr[u].call.buffer # b
  /\ held' = [held EXCEPT ![b] = @ \ {"app"}]
  /\ conn' = rcCloseColorBuffer(t, b)
  /\ UNCHANGED <<guestVars, slot, hostVars, loose, dead, undefined>>

Gone == [call |-> [Idle EXCEPT !.pc = "gone"], currentContext |-> 0]

(* The thread ends: tlsDestruct flushes and closes its connection, and     *)
(* leaves the context it had current as it is.  The last thread of an      *)
(* application ends with its process.                                      *)
ThreadExits(t) ==
  /\ Ready(t) /\ \E u \in Threads \ {t} : thr[u].call.pc # "gone"
  /\ thr' = [thr EXCEPT ![t] = Gone]
  /\ loose' = loose \ {t}
  /\ conn' = Flushed(t, <<<<"eof">>>>)
  /\ UNCHANGED <<ctx, surf, bufferVars, hostVars, dead, undefined>>

(* The application is killed: its memory goes, and what is not flushed. *)
ApplicationDies ==
  /\ ~dead /\ ~undefined
  /\ dead' = TRUE
  /\ thr' = [t \in Threads |-> Gone]
  /\ ctx' = [c \in Ctxs |-> NoContext] /\ surf' = [s \in Surfs |-> NoSurface] /\ loose' = {}
  /\ conn' = [t \in Conns |-> IF t = "sf" \/ thr[t].call.pc = "gone" THEN conn[t]
                               ELSE [buf |-> <<>>, pipe |-> Append(conn[t].pipe, <<"eof">>)]]
  /\ held' = [b \in Buffers |-> held[b] \ {"app"}]
  /\ UNCHANGED <<slot, hostVars, undefined>>

----------------------------------------------------------------------------
(* SurfaceFlinger: the other end of the window's queue. *)

gralloc_alloc(b) ==
  /\ ~undefined /\ slot[b] = "none" /\ conn["sf"].pipe = <<>>
  /\ slot' = [slot EXCEPT ![b] = "free"]
  /\ held' = [held EXCEPT ![b] = {"sf"}]
  /\ count' = [count EXCEPT ![b] = 1]
  /\ UNCHANGED <<guestVars, conn, contexts, windows, current, next, miscounted, loose, dead, undefined>>

ConsumerReleases(b) ==
  /\ ~undefined /\ slot[b] = "queued"
  /\ slot' = [slot EXCEPT ![b] = "free"]
  /\ UNCHANGED <<guestVars, held, conn, hostVars, loose, dead, undefined>>

(* A slot may be freed in any state, while the application has the buffer. *)
gralloc_free(b) ==
  /\ ~undefined /\ "sf" \in held[b]
  /\ slot' = [slot EXCEPT ![b] = "freed"]
  /\ held' = [held EXCEPT ![b] = @ \ {"sf"}]
  /\ conn' = rcCloseColorBuffer("sf", b)
  /\ UNCHANGED <<guestVars, hostVars, loose, dead, undefined>>

----------------------------------------------------------------------------
(* The render threads of the host execute the commands of their streams.   *)

Arg(t, n) == Head(conn[t].pipe)[n]
Executes(t, name) ==
  /\ ~undefined /\ conn[t].pipe # <<>> /\ Arg(t, 1) = name
  /\ conn' = [conn EXCEPT ![t].pipe = Tail(@)]
  /\ UNCHANGED <<guestVars, bufferVars, next, loose, dead, undefined>>

DestroyRenderContext(t) ==
  /\ Executes(t, "destroyContext")
  /\ contexts' = Without(contexts, {Arg(t, 2)})
  /\ UNCHANGED <<windows, count, current, miscounted>>

DestroyWindowSurface(t) ==
  /\ Executes(t, "destroyWindow")
  /\ windows' = Without(windows, {Arg(t, 2)})
  /\ UNCHANGED <<contexts, count, current, miscounted>>

setWindowSurfaceColorBuffer(t) ==
  /\ Executes(t, "setWindow")
  /\ windows' = IF Arg(t, 2) \in DOMAIN windows /\ count[Arg(t, 3)] > 0
                THEN [windows EXCEPT ![Arg(t, 2)].buffer = Arg(t, 3)] ELSE windows
  /\ UNCHANGED <<contexts, count, current, miscounted>>

closeColorBuffer(t) ==
  /\ Executes(t, "close")
  /\ count' = [count EXCEPT ![Arg(t, 2)] = IF @ > 0 THEN @ - 1 ELSE 0]
  /\ UNCHANGED <<contexts, windows, current, miscounted>>

(* The end of the render thread: what it had current is unbound, what it   *)
(* created is drained.                                                     *)
RenderThreadEnds(t) ==
  LET mine == {w \in DOMAIN windows : windows[w].by = t}
      drops(b) == Min({count[b], Cardinality({w \in mine : windows[w].buffer = b})})
  IN
  /\ Executes(t, "eof")
  /\ current' = [current EXCEPT ![t] = Nothing]
  /\ count' = [b \in Buffers |-> count[b] - drops(b)]
  /\ miscounted' = miscounted \cup {b \in Buffers : drops(b) > 0}
  /\ windows' = Without(windows, mine)
  /\ contexts' = Without(contexts, {c \in DOMAIN contexts : contexts[c] = t})

----------------------------------------------------------------------------
Host(t) == \/ closeColorBuffer(t)
           \/ /\ t \in Threads
              /\ \/ DestroyRenderContext(t) \/ DestroyWindowSurface(t)
                 \/ setWindowSurfaceColorBuffer(t) \/ RenderThreadEnds(t)

Application(t) ==
  \/ eglCreateContext(t) \/ MadeCurrent(t) \/ gralloc_register_buffer(t) \/ Swapped(t) \/ ThreadExits(t)
  \/ \E c \in Ctxs : ContextCreated(t, c) \/ eglDestroyContext(t, c)
  \/ \E c \in Ctxs \cup {0}, s \in Surfs \cup {0} : eglMakeCurrent(t, c, s)
  \/ \E b \in Buffers : eglCreateWindowSurface(t, b) \/ gralloc_unregister_buffer(t, b)
  \/ \E s \in Surfs : WindowCreated(t, s) \/ eglDestroySurface(t, s) \/ eglSwapBuffers(t, s)
  \/ \E b \in Buffers \cup {0} : Dequeued(t, b)

SurfaceFlinger == \E b \in Buffers : gralloc_alloc(b) \/ ConsumerReleases(b) \/ gralloc_free(b)

Next == \/ SurfaceFlinger \/ ApplicationDies
        \/ \E t \in Threads : Application(t)
        \/ \E t \in Conns : Host(t)
Spec == Init /\ [][Next]_vars

----------------------------------------------------------------------------
(* PROPERTIES *)

(* What a thread believes to be current is what its render thread draws    *)
(* with: as long as nobody destroys a context or surface that is bound,    *)
(* and no eglMakeCurrent fails that had a pending deletion to do.          *)
BindingsAgree ==
  \A t \in Threads \ loose : thr[t].call.pc = "idle" =>
    LET c == thr[t].currentContext IN
    IF c = 0 THEN current[t] = Nothing
    ELSE current[t] = [ctx |-> ctx[c].rc, draw |-> surf[ctx[c].draw].rc]

(* The host has what the application has: a context or surface of which    *)
(* the guest holds a handle is in the tables, in spite of the commands     *)
(* still on the way from any thread, unless the thread that created it is  *)
(* gone.  Of an application that was killed nothing is left in them once   *)
(* its render threads have come to the end of their streams.               *)
HostKeepsWhatGuestHolds ==
  IF dead THEN (\A t \in Threads : conn[t].pipe = <<>>) => DOMAIN contexts \cup DOMAIN windows = {}
  ELSE /\ \A c \in Ctxs : ctx[c].live => ctx[c].rc \in DOMAIN contexts \/ thr[ctx[c].by].call.pc = "gone"
       /\ \A s \in Surfs : surf[s].live => surf[s].rc \in DOMAIN windows \/ thr[surf[s].by].call.pc = "gone"

(* The count of a colour buffer is what the processes hold and what is on  *)
(* the way to be closed: nothing is closed early and no reference stays    *)
(* behind in a stream.  Unless the buffer was opened too late, or the end  *)
(* of a render thread took a reference that was not its own, or the        *)
(* application died with it registered.                                    *)
Closing(b) == UNION {{t} \X {i \in DOMAIN conn[t].pipe : conn[t].pipe[i] = <<"close", b>>} : t \in Conns}
BuffersCounted ==
  ~dead => \A b \in Buffers \ miscounted :
             count[b] = Cardinality(held[b]) + Cardinality(Closing(b))
=============================================================================
