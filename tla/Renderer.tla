------------------------------ MODULE Renderer ------------------------------
(***************************************************************************)
(* The host objects of the guests' OpenGL ES connections: the handle       *)
(* tables of emugl's Renderer (contexts, window surfaces, reference-       *)
(* counted colour buffers), the sets of objects each render thread has     *)
(* created, and the contexts and surfaces each has made current.           *)
(*                                                                         *)
(* Every operation of the Renderer holds m_lock, so it is one step; the    *)
(* end of a render thread is three of them.  EGL itself is external: an    *)
(* object can be created or not, a surface be made current or not.         *)
(***************************************************************************)
EXTENDS Integers, FiniteSets, FiniteSetsExt

CONSTANTS
  Threads,       \* render threads, each of one guest connection
  HandleSpace,   \* values of HandleType: 2^32 in the code
  MaxCreates,    \* bound: objects created
  MaxRefs        \* bound: references one client takes to one colour buffer

ASSUME RendererAssumption ==
  /\ IsFiniteSet(Threads) /\ HandleSpace \in Nat /\ HandleSpace > 1
  /\ MaxCreates \in Nat /\ MaxRefs \in Nat \ {0}

Handles == 1 .. (HandleSpace - 1)
None == 0     \* the handle 0: no object

VARIABLES
  nextHandle,   \* s_nextHandle
  creates,      \* objects created so far
  contexts,     \* keys of m_contexts
  windows,      \* keys of m_windows
  attached,     \* the colour buffer handle of each entry of m_windows
  count,        \* refcount of each entry of m_colorbuffers, 0 if there is none
  thread,       \* "running", or how far the end of the thread has got
  contextSet,   \* m_contextSet of each thread
  windowSet,    \* m_windowSet of each thread
  current,      \* currContext, currDrawSurf, currReadSurf of each thread
  bound,        \* mDrawContext of each surface object
  refs,         \* history: references each client holds
  drained,      \* history: references dropped by drainWindowSurface
  owner         \* history: the thread that created each context and window

guestVars == <<refs, drained, owner>>
tableVars == <<contexts, windows, attached>>
threadVars == <<thread, contextSet, windowSet, current, bound>>
vars == <<nextHandle, creates, tableVars, count, threadVars, guestVars>>

NothingCurrent == [context |-> None, draw |-> None, read |-> None]

Init ==
  /\ nextHandle = 0 /\ creates = 0
  /\ contexts = {} /\ windows = {} /\ attached = [h \in Handles |-> None]
  /\ count = [h \in Handles |-> 0]
  /\ thread = [t \in Threads |-> "running"]
  /\ contextSet = [t \in Threads |-> {}] /\ windowSet = [t \in Threads |-> {}]
  /\ current = [t \in Threads |-> NothingCurrent]
  /\ bound = [h \in Handles |-> None]
  /\ refs = [t \in Threads |-> [h \in Handles |-> 0]]
  /\ drained = [h \in Handles |-> 0]
  /\ owner = [h \in Handles |-> {}]

----------------------------------------------------------------------------
(* genHandle: the next number that is not 0 and not the handle of a        *)
(* context or of a window surface.  m_colorbuffers is not looked at.       *)
GenHandle ==
  LET step(k) == (nextHandle + k) % HandleSpace
      free == {k \in 1 .. HandleSpace : step(k) # 0 /\ step(k) \notin contexts \cup windows}
  IN  step(Min(free))

CanCreate(t) ==
  /\ thread[t] = "running" /\ creates < MaxCreates
  /\ Handles \ (contexts \cup windows) # {}
NewHandle == creates' = creates + 1 /\ nextHandle' = GenHandle

CreateColorBuffer(t) ==
  /\ CanCreate(t) /\ NewHandle
  /\ count' = [count EXCEPT ![GenHandle] = 1]
  /\ refs' = [refs EXCEPT ![t][GenHandle] = 1]
  /\ drained' = [drained EXCEPT ![GenHandle] = 0]
  /\ UNCHANGED <<tableVars, threadVars, owner>>

(* p_share, if given, must name a context. *)
CreateRenderContext(t) ==
  /\ CanCreate(t) /\ NewHandle
  /\ contexts' = contexts \cup {GenHandle}
  /\ contextSet' = [contextSet EXCEPT ![t] = @ \cup {GenHandle}]
  /\ owner' = [owner EXCEPT ![GenHandle] = {t}]
  /\ UNCHANGED <<windows, attached, count, thread, windowSet, current, bound, refs, drained>>

\* Mutant of CreateWindowSurface: the thread does not note the surface.
CreateWindowSurfaceForgets(t) ==
  /\ CanCreate(t) /\ NewHandle
  /\ windows' = windows \cup {GenHandle}
  /\ attached' = [attached EXCEPT ![GenHandle] = None]
  /\ bound' = [bound EXCEPT ![GenHandle] = None]
  /\ owner' = [owner EXCEPT ![GenHandle] = {t}]
  /\ UNCHANGED <<contexts, count, thread, contextSet, windowSet, current, refs, drained>>

CreateWindowSurface(t) ==
  /\ CanCreate(t) /\ NewHandle
  /\ windows' = windows \cup {GenHandle}
  /\ attached' = [attached EXCEPT ![GenHandle] = None]
  /\ windowSet' = [windowSet EXCEPT ![t] = @ \cup {GenHandle}]
  /\ bound' = [bound EXCEPT ![GenHandle] = None]
  /\ owner' = [owner EXCEPT ![GenHandle] = {t}]
  /\ UNCHANGED <<contexts, count, thread, contextSet, current, refs, drained>>

(* Both destroy a given handle, of whichever thread it is, and take it out *)
(* of the calling thread's set only.                                       *)
DestroyRenderContext(t, h) ==
  /\ thread[t] = "running" /\ h \in contexts
  /\ contexts' = contexts \ {h}
  /\ contextSet' = [contextSet EXCEPT ![t] = @ \ {h}]
  /\ UNCHANGED <<nextHandle, creates, windows, attached, count, thread, windowSet,
                 current, bound, guestVars>>

DestroyWindowSurface(t, h) ==
  /\ thread[t] = "running" /\ h \in windows
  /\ windows' = windows \ {h}
  /\ attached' = [attached EXCEPT ![h] = None]
  /\ windowSet' = [windowSet EXCEPT ![t] = @ \ {h}]
  /\ UNCHANGED <<nextHandle, creates, contexts, count, thread, contextSet,
                 current, bound, guestVars>>

----------------------------------------------------------------------------
(* m_colorbuffers.find: what read, update, bind-to-texture, bind-to-       *)
(* renderbuffer and draw ask first.                                        *)
HasColorBuffer(h) == count[h] > 0

OpenColorBuffer(t, h) ==
  /\ thread[t] = "running" /\ HasColorBuffer(h) /\ refs[t][h] < MaxRefs
  /\ count' = [count EXCEPT ![h] = @ + 1]
  /\ refs' = [refs EXCEPT ![t][h] = @ + 1]
  /\ UNCHANGED <<nextHandle, creates, tableVars, threadVars, drained, owner>>

\* Mutant of CloseColorBuffer: only the last reference is counted down.
CloseColorBufferLast(t, h) ==
  /\ thread[t] = "running" /\ refs[t][h] > 0
  /\ refs' = [refs EXCEPT ![t][h] = @ - 1]
  /\ count' = [count EXCEPT ![h] = IF @ = 1 THEN 0 ELSE @]
  /\ UNCHANGED <<nextHandle, creates, tableVars, threadVars, drained, owner>>

(* A client closes a reference it holds; the entry goes with the last one, *)
(* or is gone already.                                                     *)
CloseColorBuffer(t, h) ==
  /\ thread[t] = "running" /\ refs[t][h] > 0
  /\ refs' = [refs EXCEPT ![t][h] = @ - 1]
  /\ count' = [count EXCEPT ![h] = IF HasColorBuffer(h) THEN @ - 1 ELSE 0]
  /\ UNCHANGED <<nextHandle, creates, tableVars, threadVars, drained, owner>>

(* Attaching takes no reference of the count. *)
SetWindowSurfaceColorBuffer(t, w, h) ==
  /\ thread[t] = "running" /\ w \in windows /\ HasColorBuffer(h)
  /\ attached' = [attached EXCEPT ![w] = h]
  /\ UNCHANGED <<nextHandle, creates, contexts, windows, count, threadVars, guestVars>>

\* Mutant of Binds: a surface that was bound before keeps its context.
BindsOnce(t, new) ==
  /\ bound' = [w \in Handles |->
                 IF w = new.draw /\ bound[w] = None THEN new.context
                 ELSE IF new.draw = None /\ w = current[t].draw THEN None ELSE bound[w]]
  /\ current' = [current EXCEPT ![t] = new]

(* bindContext after its tests: all three handles are good or all are 0.   *)
(* Binding nothing clears the surfaces that were current; binding others   *)
(* leaves their mDrawContext as it was.                                    *)
Binds(t, new) ==
  /\ bound' = [w \in Handles |->
                 IF w = new.draw THEN new.context
                 ELSE IF new.draw = None /\ w = current[t].draw THEN None ELSE bound[w]]
  /\ current' = [current EXCEPT ![t] = new]

(* eglMakeCurrent refuses what is current on another thread. *)
EglMakesCurrent(t, c, d, r) ==
  \A u \in Threads \ {t} :
    {c, d, r} \cap {current[u].context, current[u].draw, current[u].read} \subseteq {None}

BindContext(t, c, d, r) ==
  /\ thread[t] = "running"
  /\ \/ {c, d, r} = {None}
     \/ c \in contexts /\ d \in windows /\ r \in windows
  /\ EglMakesCurrent(t, c, d, r)
  /\ Binds(t, [context |-> c, draw |-> d, read |-> r])
  /\ UNCHANGED <<nextHandle, creates, tableVars, count, thread, contextSet, windowSet,
                 guestVars>>

----------------------------------------------------------------------------
(* The end of a render thread: bindContext(0, 0, 0), drainWindowSurface,   *)
(* drainRenderContext.  The guest's process may have crashed.              *)
ThreadUnbinds(t) ==
  /\ thread[t] = "running"
  /\ Binds(t, NothingCurrent)
  /\ thread' = [thread EXCEPT ![t] = "unbound"]
  /\ UNCHANGED <<nextHandle, creates, tableVars, count, contextSet, windowSet, guestVars>>

(* Each window of the thread that still exists drops one reference of the  *)
(* colour buffer attached to it, if that still exists.                     *)
Drops(t, h) == Cardinality({w \in windowSet[t] \cap windows : attached[w] = h})

DrainWindowSurface(t) ==
  /\ thread[t] = "unbound"
  /\ LET dropped(h) == Min({count[h], Drops(t, h)})
     IN  /\ count' = [h \in Handles |-> count[h] - dropped(h)]
         /\ drained' = [h \in Handles |-> drained[h] + dropped(h)]
  /\ windows' = windows \ windowSet[t]
  /\ attached' = [w \in Handles |-> IF w \in windowSet[t] THEN None ELSE attached[w]]
  /\ windowSet' = [windowSet EXCEPT ![t] = {}]
  /\ thread' = [thread EXCEPT ![t] = "drained"]
  /\ UNCHANGED <<nextHandle, creates, contexts, contextSet, current, bound,
                 refs, owner>>

DrainRenderContext(t) ==
  /\ thread[t] = "drained"
  /\ contexts' = contexts \ contextSet[t]
  /\ contextSet' = [contextSet EXCEPT ![t] = {}]
  /\ thread' = [thread EXCEPT ![t] = "exited"]
  /\ UNCHANGED <<nextHandle, creates, windows, attached, count, windowSet, current, bound,
                 guestVars>>

----------------------------------------------------------------------------
Next ==
  \E t \in Threads :
    \/ CreateColorBuffer(t) \/ CreateRenderContext(t) \/ CreateWindowSurface(t)
    \/ \E h \in Handles : \/ DestroyRenderContext(t, h) \/ DestroyWindowSurface(t, h)
                          \/ OpenColorBuffer(t, h) \/ CloseColorBuffer(t, h)
    \/ \E w, h \in Handles : SetWindowSurfaceColorBuffer(t, w, h)
    \/ \E c, d, r \in Handles \cup {None} : BindContext(t, c, d, r)
    \/ ThreadUnbinds(t) \/ DrainWindowSurface(t) \/ DrainRenderContext(t)

Spec == Init /\ [][Next]_vars

----------------------------------------------------------------------------
(* "Necessary to avoid leaking host contexts when a guest application      *)
(* crashes": whatever the threads did to each other's objects, an object   *)
(* in the tables is in the set of a thread that will still drain it, and   *)
(* under a handle that is in one table only.                               *)
DrainReachesAll ==
  /\ \A h \in contexts : \E t \in Threads : h \in contextSet[t]
  /\ \A h \in windows : \E t \in Threads : h \in windowSet[t]
  /\ contexts \cap windows = {}

(* The first HandleSpace - 1 handles are fresh: genHandle skips nothing    *)
(* before its counter wraps.                                               *)
HandlesFresh == creates < HandleSpace

(* The draw surface a thread has current is bound to its context, so that  *)
(* flushColorBuffer finds one, also after other threads bound, unbound or  *)
(* ended, until a handle is used again.  A thread that has exited has      *)
(* nothing current, and nothing in the tables is its own only.             *)
CurrentSurfaceBound ==
  HandlesFresh =>
  \A t \in Threads :
    /\ current[t].draw # None => bound[current[t].draw] = current[t].context
    /\ thread[t] = "exited" => /\ current[t] = NothingCurrent
                               /\ \A h \in contexts \cup windows : owner[h] # {t}

(* The count of a colour buffer is what the clients hold less what the end *)
(* of threads has dropped for them: it neither leaks nor wraps below zero. *)
(* This too holds only until a handle is used again: genHandle does not    *)
(* look at m_colorbuffers, and a new buffer can then overwrite a live one. *)
References(h) == UNION {{t} \X (1 .. refs[t][h]) : t \in Threads}
CountExplained ==
  HandlesFresh =>
    \A h \in Handles : HasColorBuffer(h) => count[h] + drained[h] = Cardinality(References(h))
=============================================================================
