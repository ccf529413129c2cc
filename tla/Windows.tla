------------------------------ MODULE Windows ------------------------------
(***************************************************************************)
(* The windows of the host: MultiWindowManager (wm), the SDL platform      *)
(* (platform/sdl) and the native windows of the Renderer, used by          *)
(*   io      the thread that reads the bridge socket and applies Android's *)
(*           window state updates, all of it under mutex_;                 *)
(*   event   the SDL thread, whose callbacks call Android over RPC;        *)
(*   render  a render thread that composes a frame: it looks windows up    *)
(*           under mutex_, keeps them by shared_ptr and draws.             *)
(*                                                                         *)
(* Geometry, titles and input are data and left out.  A window is a number *)
(* (next_window_id) with its native handle; the window system may give the *)
(* handle of a destroyed window to a new one.  A call of Android is        *)
(* answered through the socket that io reads, or given up after a second,  *)
(* which is an exception unless a call of the method was answered before.  *)
(***************************************************************************)
EXTENDS Naturals, FiniteSets

CONSTANTS Tasks, AWindows,   \* Android's tasks and their windows
          TaskOf,            \* the task of each window of Android
          Bare,              \* bound: windows that may be without a surface
          Handles,           \* native handles
          MaxMessages,       \* bound: updates Android sends
          MaxChanges,        \* bound: changes of windows that Android reports
          MaxEvents,         \* bound: events of the window system
          MaxFrames,         \* bound: frames composed
          MaxFailures        \* bound: failures of SDL and EGL

ASSUME WindowsAssumption == /\ IsFiniteSet(Tasks) /\ IsFiniteSet(AWindows)
                            /\ TaskOf \in [AWindows -> Tasks] /\ Bare \subseteq AWindows
                            /\ 0 \notin Handles
                            /\ {MaxMessages, MaxChanges, MaxEvents, MaxFrames, MaxFailures} \subseteq Nat

Ids == 1..(MaxMessages * Cardinality(Tasks))

VARIABLES
  surface,   \* Android: the state of each of its windows
  windows,   \* MultiWindowManager::windows_: the window of a task, 0 for none
  platform,  \* Platform::windows_: ids, of expired windows too
  win,       \* the windows that exist: task, handle, attached_
  holders,   \* who has a shared_ptr of a window
  native,    \* Renderer::m_nativeWindows: the window whose surface is under a handle
  io,        \* pc, updated and removed still to do, task_updates, tasks with a
             \* new window, the window in hand
  deaf,      \* an exception has left the read handler: nothing is read any more
  results,   \* calls, "closing" (remove_task) or "calling", that had an answer once
  terminated,\* an exception has left the event thread: the process is gone
  event,     \* pc, the window of the event
  render,    \* pc, tasks of the layers still to look up, windows found, windows drawn
  excused,   \* tasks whose window could not be made or was made and removed at once
  count      \* so far: next_id, and the bounded messages, changes, events, frames, failures

faults == <<deaf, results, terminated>>
vars == <<surface, windows, platform, win, holders, native, io, faults, event, render, excused, count>>

NoWindow == [task |-> CHOOSE t \in Tasks : TRUE, handle |-> 0, attached |-> FALSE]
Alive(id) == holders[id] # {}
HandlesInUse == {win[id].handle : id \in Ids}
Counted(what) == [count EXCEPT ![what] = @ + 1]

(* No window yet; calls of an earlier window may have been answered.       *)
Init ==
  /\ surface = [a \in AWindows |-> "absent"]
  /\ windows = [t \in Tasks |-> 0] /\ platform = {}
  /\ win = [id \in Ids |-> NoWindow] /\ holders = [id \in Ids |-> {}]
  /\ native = [h \in Handles |-> 0]
  /\ io = [pc |-> "idle", up |-> {}, rm |-> {}, tasks |-> {}, new |-> {}, w |-> 0]
  /\ deaf = FALSE /\ results \in {{}, {"calling", "closing"}} /\ terminated = FALSE
  /\ event = [pc |-> "idle", w |-> 0]
  /\ render = [pc |-> "idle", todo |-> {}, found |-> {}, drawn |-> {}]
  /\ excused = {}
  /\ count = [windows |-> 0, messages |-> 0, changes |-> 0, events |-> 0, frames |-> 0, failures |-> 0]

(* std::lock_guard of mutex_ in apply_window_state_update.                 *)
MutexFree == io.pc = "idle"

(* The last shared_ptr destroys the SDL window.  ~Window calls release     *)
(* once more, but the handle is 0 by then and nothing is found under it.   *)
Held(ids, who) == [id \in Ids |-> IF id \in ids THEN holders[id] \cup {who} ELSE holders[id]]
Dropped(ids, who) == [id \in Ids |-> IF id \in ids THEN holders[id] \ who ELSE holders[id]]
Drops(ids, who) ==
  /\ holders' = Dropped(ids, who)
  /\ win' = [id \in Ids |-> IF Dropped(ids, who)[id] = {} THEN NoWindow ELSE win[id]]

----------------------------------------------------------------------------
Changes(now) == Cardinality({a \in AWindows : now[a] # surface[a]})

(* An update lists every window Android has, and the ones gone since the   *)
(* last update; those without a surface are ignored.                       *)
AndroidUpdates(now) ==
  /\ MutexFree /\ ~deaf /\ count.messages < MaxMessages
  /\ \A a \in AWindows \ Bare : now[a] # "bare"
  /\ Changes(now) > 0 /\ count.changes + Changes(now) <= MaxChanges
  /\ surface' = now
  /\ io' = [pc |-> "update", up |-> {a \in AWindows : now[a] = "surface"},
            rm |-> {a \in AWindows : surface[a] # "absent" /\ now[a] = "absent"},
            tasks |-> {}, new |-> {}, w |-> 0]
  /\ excused' = {}
  /\ count' = [Counted("messages") EXCEPT !.changes = @ + Changes(now)]
  /\ UNCHANGED <<windows, platform, win, holders, native, faults, event, render>>

(* Windows are made one by one in the order of the list.                   *)
Unknown == {a \in io.up : windows[TaskOf[a]] = 0}
NextUnknown(a) == io.pc = "update" /\ Unknown # {} /\ a = CHOOSE b \in Unknown : TRUE

create_window(a) ==
  LET id == count.windows + 1
      h == CHOOSE x \in Handles : x \notin HandlesInUse IN
  /\ NextUnknown(a)
  /\ Handles \ HandlesInUse # {}
  /\ win' = [win EXCEPT ![id] = [task |-> TaskOf[a], handle |-> h, attached |-> FALSE]]
  /\ holders' = Held({id}, "io")
  /\ platform' = platform \cup {id}
  /\ io' = [io EXCEPT !.pc = "attach", !.up = @ \ {a}, !.new = @ \cup {TaskOf[a]}, !.w = id]
  /\ count' = Counted("windows")
  /\ UNCHANGED <<surface, windows, native, faults, event, render, excused>>

(* Without a renderer there is no window, and Android shall remove the     *)
(* task; when SDL fails the exception ends the update and the reading.     *)
create_window_fails(a) ==
  /\ NextUnknown(a)
  /\ count.failures < MaxFailures
  /\ count' = Counted("failures")
  /\ excused' = excused \cup {TaskOf[a]}
  /\ \/ io' = [io EXCEPT !.pc = "rpc", !.up = @ \ {a}] /\ deaf' = deaf
     \/ io' = [io EXCEPT !.pc = "idle", !.up = {}, !.rm = {}, !.new = {}] /\ deaf' = TRUE
  /\ UNCHANGED <<surface, windows, platform, win, holders, native, results, terminated, event, render>>

\* Mutant of remove_task_times_out: the call has no limit and waits for its answer.
remove_task_waits ==
  /\ io.pc = "rpc" /\ MutexFree
  /\ io' = [io EXCEPT !.pc = "update"]
  /\ UNCHANGED <<surface, windows, platform, win, holders, native, faults, event, render, excused, count>>

(* remove_task within the handler: the answer would come through the       *)
(* socket that nobody reads meanwhile, so the call ends by its limit.  It  *)
(* throws, and the rest of the update is dropped and the socket not read   *)
(* any more, unless has_result finds the answer of an earlier call.        *)
remove_task_times_out ==
  /\ io.pc = "rpc"
  /\ \/ /\ "closing" \in results
        /\ io' = [io EXCEPT !.pc = "update"] /\ deaf' = deaf
     \/ /\ "closing" \notin results
        /\ io' = [io EXCEPT !.pc = "idle", !.up = {}, !.rm = {}, !.new = {}] /\ deaf' = TRUE
  /\ UNCHANGED <<surface, windows, platform, win, holders, native, results, terminated, event, render,
                 excused, count>>

(* createNativeWindow may fail; the window is kept all the same.  A handle *)
(* that is in the table already keeps its old entry.                       *)
attach(works) ==
  LET h == win[io.w].handle IN
  /\ io.pc = "attach"
  /\ works \/ count.failures < MaxFailures
  /\ count' = IF works THEN count ELSE Counted("failures")
  /\ native' = IF works /\ native[h] = 0 THEN [native EXCEPT ![h] = io.w] ELSE native
  /\ win' = [win EXCEPT ![io.w].attached = works]
  /\ windows' = [windows EXCEPT ![win[io.w].task] = io.w]
  /\ holders' = [holders EXCEPT ![io.w] = (@ \ {"io"}) \cup {"wm"}]
  /\ io' = [io EXCEPT !.pc = "update", !.w = 0]
  /\ UNCHANGED <<surface, platform, faults, event, render, excused>>

(* The windows of tasks that had their window when their turn came are     *)
(* collected in task_updates; update_state does nothing with them.         *)
UpdatesDone ==
  /\ io.pc = "update" /\ Unknown = {}
  /\ io' = [io EXCEPT !.pc = "remove", !.up = {}, !.tasks = {TaskOf[a] : a \in io.up}]
  /\ UNCHANGED <<surface, windows, platform, win, holders, native, faults, event, render, excused, count>>

\* Mutant of ToRelease: other windows of the task do not keep its window.
ToReleaseAll == {a \in io.rm : windows[TaskOf[a]] # 0}

(* A removal is ignored if the task has no window, or if another window of *)
(* the task was updated.                                                   *)
ToRelease == {a \in io.rm : windows[TaskOf[a]] # 0 /\ TaskOf[a] \notin io.tasks}

\* Mutant of release: the native window is left to ~Window.
release_by_destructor(a) ==
  LET t == TaskOf[a]
      id == windows[t] IN
  /\ io.pc = "remove" /\ ToRelease # {} /\ a = CHOOSE b \in ToRelease : TRUE
  /\ UNCHANGED native
  /\ holders' = Held({id}, "io")
  /\ excused' = IF t \in io.new THEN excused \cup {t} ELSE excused
  /\ io' = [io EXCEPT !.pc = "erase", !.rm = @ \ {a}, !.w = id]
  /\ UNCHANGED <<surface, windows, platform, win, faults, event, render, count>>

(* release: destroyNativeWindow, if attached_.                             *)
release(a) ==
  LET t == TaskOf[a]
      id == windows[t]
      h == win[id].handle IN
  /\ io.pc = "remove" /\ ToRelease # {} /\ a = CHOOSE b \in ToRelease : TRUE
  /\ native' = IF win[id].attached THEN [native EXCEPT ![h] = 0] ELSE native
  /\ holders' = Held({id}, "io")
  /\ excused' = IF t \in io.new THEN excused \cup {t} ELSE excused
  /\ io' = [io EXCEPT !.pc = "erase", !.rm = @ \ {a}, !.w = id]
  /\ UNCHANGED <<surface, windows, platform, win, faults, event, render, count>>

EraseWindow ==
  /\ io.pc = "erase"
  /\ windows' = [windows EXCEPT ![win[io.w].task] = 0]
  /\ Drops({io.w}, {"io", "wm"})
  /\ io' = [io EXCEPT !.pc = "remove", !.w = 0]
  /\ UNCHANGED <<surface, platform, native, faults, event, render, excused, count>>

UpdateApplied ==
  /\ io.pc = "remove" /\ ToRelease = {}
  /\ io' = [io EXCEPT !.pc = "idle", !.rm = {}, !.tasks = {}, !.new = {}]
  /\ UNCHANGED <<surface, windows, platform, win, holders, native, faults, event, render, excused, count>>

----------------------------------------------------------------------------
(* Platform::process_events: the window of the event is found in windows_  *)
(* and locked; expired windows are passed over.                            *)
process_event(id, closes) ==
  /\ event.pc = "idle" /\ count.events < MaxEvents
  /\ id \in platform /\ Alive(id)
  /\ event' = [pc |-> IF closes THEN "closing" ELSE "calling", w |-> id]
  /\ holders' = Held({id}, "event")
  /\ count' = Counted("events")
  /\ UNCHANGED <<surface, windows, platform, win, native, io, faults, render, excused>>

(* set_focused_task, resize_task or remove_task comes back.  It is         *)
(* answered, if the socket is read, or given up; a given up call returns   *)
(* like an answered one if a call of its method had an answer before.      *)
(* window_deleted then forgets the window.                                 *)
CallReturns(answered) ==
  /\ event.pc \in {"calling", "closing"}
  /\ IF answered THEN io.pc = "idle" /\ ~deaf ELSE event.pc \in results
  /\ results' = results \cup {event.pc}
  /\ platform' = IF event.pc = "closing" THEN platform \ {event.w} ELSE platform
  /\ Drops({event.w}, {"event"})
  /\ event' = [pc |-> "idle", w |-> 0]
  /\ UNCHANGED <<surface, windows, native, io, deaf, terminated, render, excused, count>>

(* The first call of a method is given up, or Android answers a call with  *)
(* an error: nothing on the event thread catches the exception.            *)
CallThrows ==
  /\ \/ event.pc \in {"calling", "closing"} \ results
     \/ event.pc \in {"calling", "closing"} /\ io.pc = "idle" /\ ~deaf
  /\ terminated' = TRUE
  /\ UNCHANGED <<surface, windows, platform, win, holders, native, io, deaf, results, event, render,
                 excused, count>>

----------------------------------------------------------------------------
(* rcPostAllLayersDone, with a layer of every task.  The order of the    *)
(* layers and of the windows found is fixed.                               *)
submit_layers ==
  /\ render.pc = "idle" /\ count.frames < MaxFrames
  /\ render' = [pc |-> "find", todo |-> Tasks, found |-> {}, drawn |-> {}]
  /\ count' = Counted("frames")
  /\ UNCHANGED <<surface, windows, platform, win, holders, native, io, faults, event, excused>>

FoundWindow(t) == {windows[t]} \ {0}

find_window_for_task(t) ==
  /\ render.pc = "find" /\ t \in render.todo /\ MutexFree
  /\ t = CHOOSE u \in render.todo : TRUE
  /\ render' = [render EXCEPT !.pc = IF render.todo = {t} THEN "draw" ELSE "find",
                              !.todo = @ \ {t},
                              !.found = @ \cup FoundWindow(t)]
  /\ holders' = Held(FoundWindow(t), "render")
  /\ UNCHANGED <<surface, windows, platform, win, native, io, faults, event, excused, count>>

(* Renderer::draw goes by the handle; without an entry it draws nothing.   *)
draw(id) ==
  /\ render.pc = "draw" /\ id \in render.found
  /\ id = CHOOSE i \in render.found : TRUE
  /\ render' = [render EXCEPT !.found = @ \ {id},
                              !.drawn = @ \cup {<<id, native[win[id].handle]>>}]
  /\ UNCHANGED <<surface, windows, platform, win, holders, native, io, faults, event, excused, count>>

FrameDone ==
  /\ render.pc = "draw" /\ render.found = {}
  /\ Drops({d[1] : d \in render.drawn}, {"render"})
  /\ render' = [render EXCEPT !.pc = "idle", !.drawn = {}]
  /\ UNCHANGED <<surface, windows, platform, native, io, faults, event, excused, count>>

----------------------------------------------------------------------------
Inputs == /\ ~terminated
          /\ \/ \E now \in [AWindows -> {"absent", "bare", "surface"}] : AndroidUpdates(now)
             \/ \E id \in Ids, closes \in BOOLEAN : process_event(id, closes)
             \/ submit_layers
Io == /\ ~terminated
      /\ \/ \E a \in AWindows : create_window(a) \/ create_window_fails(a) \/ release(a)
         \/ \E works \in BOOLEAN : attach(works)
         \/ remove_task_times_out \/ UpdatesDone \/ EraseWindow \/ UpdateApplied
Event == /\ ~terminated
         /\ CallThrows \/ \E answered \in BOOLEAN : CallReturns(answered)
Render == /\ ~terminated
          /\ \/ \E t \in Tasks : find_window_for_task(t)
             \/ \E id \in Ids : draw(id)
             \/ FrameDone

Next == Inputs \/ Io \/ Event \/ Render
Spec == Init /\ [][Next]_vars /\ WF_vars(Io) /\ WF_vars(Event) /\ WF_vars(Render)

----------------------------------------------------------------------------
(* PROPERTIES *)

(* An entry of m_nativeWindows is the surface of the window that has the   *)
(* handle, this window exists, and the manager's attached windows have     *)
(* their entries.  So a frame that was looked up before an update is drawn *)
(* into the window it was looked up for or nowhere, although the update    *)
(* may have removed the window and its handle may be used again.           *)
NativeWindowsLive ==
  /\ \A h \in Handles : native[h] # 0 => Alive(native[h]) /\ win[native[h]].handle = h
  /\ \A t \in Tasks : windows[t] # 0 /\ win[windows[t]].attached /\ io.w # windows[t] =>
       native[win[windows[t]].handle] = windows[t]
  /\ \A d \in render.drawn : d[2] \in {0, d[1]}

(* Between two updates, every task that shows a surface has a window and   *)
(* every window has a task with windows: removals in the middle of a task, *)
(* windows that lose their surface and windows that come back are not      *)
(* confused.  Excused are a window that could not be made, and one made in *)
(* the same update that removes another window of its task.                *)
WindowsFollowAndroid ==
  MutexFree /\ ~deaf => \A t \in Tasks :
    LET OfTask == {surface[a] : a \in {b \in AWindows : TaskOf[b] = t}} IN
    /\ "surface" \in OfTask => windows[t] # 0 \/ t \in excused
    /\ windows[t] # 0 => OfTask # {"absent"} /\ win[windows[t]].task = t

(* Frames, callbacks and updates come to an end, although the update keeps *)
(* mutex_ over a call of Android whose answer it keeps from being read,    *)
(* and the render thread keeps the lock of all render threads meanwhile:   *)
(* unless a call of the event thread has ended the whole process.          *)
NobodyWaitsForever ==
  /\ render.pc = "find" ~> render.pc = "idle" \/ terminated
  /\ event.pc # "idle" ~> event.pc = "idle" \/ terminated
  /\ io.pc # "idle" ~> io.pc = "idle" \/ terminated
=============================================================================
