--------------------------- MODULE WindowsProofs ---------------------------
(***************************************************************************)
(* The window table of the renderer and the window manager's map, for any  *)
(* tasks, windows of Android and native handles, any number of updates,    *)
(* events, frames and failures, and any interleaving of the three threads. *)
(***************************************************************************)
EXTENDS Windows, FiniteSetTheorems, TLAPS

Surfaces == {"absent", "bare", "surface"}
Holders == {"io", "wm", "event", "render"}
WindowType == [task : Tasks, handle : Handles, attached : BOOLEAN]
IoType == [pc : {"idle", "update", "attach", "rpc", "remove", "erase"},
           up : SUBSET AWindows, rm : SUBSET AWindows,
           tasks : SUBSET Tasks, new : SUBSET Tasks, w : Ids \cup {0}]
EventType == [pc : {"idle", "calling", "closing"}, w : Ids \cup {0}]
RenderType == [pc : {"idle", "find", "draw"}, todo : SUBSET Tasks, found : SUBSET Ids,
               drawn : SUBSET (Ids \X (Ids \cup {0}))]
CountType == [windows : Nat, messages : Nat, changes : Nat, events : Nat, frames : Nat, failures : Nat]

TypeOK ==
  /\ surface \in [AWindows -> Surfaces]
  /\ windows \in [Tasks -> Ids \cup {0}]
  /\ win \in [Ids -> WindowType \cup {NoWindow}]
  /\ holders \in [Ids -> SUBSET Holders]
  /\ native \in [Handles -> Ids \cup {0}]
  /\ io \in IoType /\ deaf \in BOOLEAN /\ event \in EventType /\ render \in RenderType
  /\ excused \in SUBSET Tasks /\ count \in CountType

(* A window exists as long as somebody holds it, with a handle of its own; *)
(* ids are not used twice.                                                 *)
HeldExist == \A id \in Ids : Alive(id) <=> win[id] \in WindowType
HandlesApart == \A i, j \in Ids : Alive(i) /\ Alive(j) /\ win[i].handle = win[j].handle => i = j
IdsInOrder == \A id \in Ids : Alive(id) => id <= count.windows

(* An update makes at most one window for a task, so ids do not run out.   *)
IdsSuffice ==
  /\ count.messages <= MaxMessages
  /\ io.pc = "idle" => count.windows <= count.messages * Cardinality(Tasks)
  /\ io.pc # "idle" => count.windows + Cardinality(Tasks)
                         <= count.messages * Cardinality(Tasks) + Cardinality(io.new)

(* The window manager holds the windows of its map. *)
ManagerHolds ==
  \A t \in Tasks : windows[t] # 0 => "wm" \in holders[windows[t]] /\ win[windows[t]].task = t

(* The window in hand: a new one that is in no table yet, or one of the    *)
(* map that is about to be erased and has no entry any more.               *)
InHand ==
  /\ io.pc \notin {"attach", "erase"} => io.w = 0
  /\ io.pc = "attach" => /\ io.w # 0 /\ "io" \in holders[io.w] /\ "wm" \notin holders[io.w]
                         /\ windows[win[io.w].task] = 0
  /\ io.pc = "erase" => /\ io.w # 0 /\ "wm" \in holders[io.w]
                        /\ windows[win[io.w].task] = io.w

(* An entry of m_nativeWindows is an attached window of the map. *)
EntriesOfManager ==
  \A h \in Handles : native[h] # 0 =>
    /\ "wm" \in holders[native[h]] /\ native[h] # io.w
    /\ win[native[h]].handle = h /\ win[native[h]].attached

AttachedHaveEntries ==
  \A t \in Tasks : windows[t] # 0 /\ win[windows[t]].attached /\ io.w # windows[t] =>
    native[win[windows[t]].handle] = windows[t]

(* The render thread holds what it has found. *)
FoundAreHeld == \A id \in render.found : "render" \in holders[id]
DrawnRight == \A d \in render.drawn : d[2] \in {0, d[1]}

(* The task of the window in hand while it is attached. *)
Making(t) == io.pc = "attach" /\ win[io.w].task = t
Shows(a) == surface[a] = "surface"

(* During an update: the windows still to do are shown, the tasks that     *)
(* were updated or have got a window have it, every shown window is to be  *)
(* done, done, or excused, and a window whose task shows nothing any more  *)
(* waits for its removal.                                                  *)
ToDoShown == /\ \A a \in io.up : Shows(a)
             /\ \A t \in io.tasks : \E a \in AWindows : TaskOf[a] = t /\ Shows(a)
             /\ io.pc \in {"remove", "erase"} => io.up = {}
             /\ io.pc \in {"update", "attach", "rpc"} => io.tasks = {}
             /\ io.pc = "idle" => io.rm = {}
NewHaveWindows == \A t \in io.new : windows[t] # 0 \/ Making(t) \/ t \in excused
NewInPhase == io.pc \in {"update", "attach", "rpc"} =>
                \A t \in io.new : windows[t] # 0 \/ Making(t)
UpdatedHaveWindows == \A t \in io.tasks : windows[t] # 0
EraseExcused == io.pc = "erase" => LET t == win[io.w].task IN
                  t \notin io.tasks /\ (t \in io.new => t \in excused)
ShownAreDone == io.pc # "idle" => \A a \in AWindows : Shows(a) =>
                  a \in io.up \/ TaskOf[a] \in io.tasks \cup io.new \cup excused
GoneAreRemoved ==
  io.pc # "idle" \/ ~deaf => \A t \in Tasks : windows[t] # 0 \/ Making(t) =>
    \/ \E a \in AWindows : TaskOf[a] = t /\ (surface[a] # "absent" \/ a \in io.rm)
    \/ io.pc = "erase" /\ win[io.w].task = t

LiveInv == /\ TypeOK /\ HeldExist /\ HandlesApart /\ IdsInOrder /\ IdsSuffice /\ ManagerHolds
           /\ InHand /\ EntriesOfManager /\ AttachedHaveEntries /\ FoundAreHeld /\ DrawnRight
FollowInv == /\ ToDoShown /\ NewHaveWindows /\ NewInPhase /\ UpdatedHaveWindows /\ EraseExcused
             /\ ShownAreDone /\ GoneAreRemoved /\ WindowsFollowAndroid
IInv == LiveInv /\ FollowInv

----------------------------------------------------------------------------
(* A window that exists is not NoWindow. *)
LEMMA NoWindowIsNone == NoWindow \notin WindowType
<1>1. NoWindow.handle = 0
  BY DEF NoWindow
<1>2. \A v \in WindowType : v.handle \in Handles
  BY DEF WindowType
<1>. QED
  BY <1>1, <1>2, WindowsAssumption

(* What is known of a window somebody holds. *)
LEMMA LiveWindow ==
  ASSUME HeldExist, NEW id \in Ids, Alive(id)
  PROVE  win[id].task \in Tasks /\ win[id].handle \in Handles /\ win[id].attached \in BOOLEAN
BY DEF HeldExist, WindowType

LEMMA TaskCount == IsFiniteSet(Tasks) /\ Cardinality(Tasks) \in Nat
BY WindowsAssumption, FS_CardinalityType

LEMMA NewCount ==
  ASSUME TypeOK
  PROVE  IsFiniteSet(io.new) /\ Cardinality(io.new) \in Nat
         /\ Cardinality(io.new) <= Cardinality(Tasks)
<1>1. io.new \in SUBSET Tasks
  BY DEF TypeOK, IoType
<1>. QED
  BY <1>1, TaskCount, FS_Subset, FS_CardinalityType

LEMMA ZeroNoId == 0 \notin Ids /\ \A id \in Ids : id \in Nat /\ id # 0
BY DEF Ids

(* The initial state satisfies the invariant. *)
LEMMA InitIInv == Init => IInv
<1> SUFFICES ASSUME Init PROVE IInv
  OBVIOUS
<1>1. TypeOK
  <2>1. io \in IoType /\ event \in EventType /\ render \in RenderType /\ count \in CountType
    BY DEF Init, IoType, EventType, RenderType, CountType
  <2>. QED
    BY <2>1 DEF Init, TypeOK, Surfaces, Holders
<1>2. \A id \in Ids : ~Alive(id) /\ win[id] = NoWindow
  BY DEF Init, Alive
<1>3. HeldExist /\ HandlesApart /\ IdsInOrder
  BY <1>2, NoWindowIsNone DEF HeldExist, HandlesApart, IdsInOrder
<1>4. IdsSuffice
  <2>1. io.pc = "idle" /\ count.messages = 0 /\ count.windows = 0 /\ MaxMessages \in Nat
    BY WindowsAssumption DEF Init
  <2>2. 0 * Cardinality(Tasks) = 0
    BY TaskCount
  <2>. QED
    BY <2>1, <2>2 DEF IdsSuffice
<1>5. (\A t \in Tasks : windows[t] = 0) /\ (\A h \in Handles : native[h] = 0)
  BY DEF Init
<1>6. io.pc = "idle" /\ io.w = 0 /\ io.up = {} /\ io.rm = {} /\ io.new = {} /\ io.tasks = {}
      /\ render.found = {} /\ render.drawn = {}
  BY DEF Init
<1>7. ManagerHolds /\ InHand /\ EntriesOfManager /\ AttachedHaveEntries /\ FoundAreHeld
      /\ DrawnRight
  BY <1>5, <1>6 DEF ManagerHolds, InHand, EntriesOfManager, AttachedHaveEntries,
                    FoundAreHeld, DrawnRight
<1>8. ToDoShown /\ NewHaveWindows /\ NewInPhase /\ UpdatedHaveWindows /\ EraseExcused
      /\ ShownAreDone /\ GoneAreRemoved
  BY <1>5, <1>6 DEF ToDoShown, NewHaveWindows, NewInPhase, UpdatedHaveWindows, EraseExcused,
              ShownAreDone, GoneAreRemoved, Making
<1>9. WindowsFollowAndroid
  <2>1. \A a \in AWindows : surface[a] = "absent"
    BY DEF Init
  <2>. QED
    BY <1>5, <2>1 DEF WindowsFollowAndroid
<1>. QED
  BY <1>1, <1>3, <1>4, <1>7, <1>8, <1>9 DEF IInv, LiveInv, FollowInv

(* A step of the event or of the render thread: what the io thread and the *)
(* window manager hold stays as it is, and so do its tables.               *)
LEMMA OthersStep ==
  ASSUME IInv,
         UNCHANGED <<surface, windows, native, io, deaf, excused>>,
         count'.windows = count.windows, count'.messages = count.messages,
         count' \in CountType, event' \in EventType, render' \in RenderType,
         win' \in [Ids -> WindowType \cup {NoWindow}], holders' \in [Ids -> SUBSET Holders],
         \A id \in Ids : Alive(id)' <=> win'[id] \in WindowType,
         \A id \in Ids : Alive(id)' => Alive(id) /\ win'[id] = win[id],
         \A id \in Ids : "wm" \in holders'[id] <=> "wm" \in holders[id],
         \A id \in Ids : "io" \in holders'[id] <=> "io" \in holders[id],
         FoundAreHeld', DrawnRight'
  PROVE  IInv'
<1>0. LiveInv /\ FollowInv
  BY DEF IInv
<1>1. TypeOK /\ HeldExist /\ HandlesApart /\ IdsInOrder /\ IdsSuffice /\ ManagerHolds
      /\ InHand /\ EntriesOfManager /\ AttachedHaveEntries
  BY <1>0 DEF LiveInv
<1>2. TypeOK'
  BY <1>1 DEF TypeOK
<1>3. HeldExist'
  BY DEF HeldExist
<1>4. HandlesApart' /\ IdsInOrder'
  BY <1>1 DEF HandlesApart, IdsInOrder
<1>5. IdsSuffice'
  BY <1>1 DEF IdsSuffice
<1>6. \A id \in Ids : "wm" \in holders[id] \/ "io" \in holders[id] => win'[id] = win[id]
  BY DEF Alive
<1>7. (\A t \in Tasks : windows[t] \in Ids \cup {0}) /\ (\A h \in Handles : native[h] \in Ids \cup {0})
      /\ io.w \in Ids \cup {0}
  BY <1>1 DEF TypeOK, IoType
<1>8. \A t \in Tasks : windows[t] # 0 => windows[t] \in Ids /\ "wm" \in holders[windows[t]]
                                         /\ win'[windows[t]] = win[windows[t]]
  BY <1>1, <1>6, <1>7 DEF ManagerHolds
<1>9. ManagerHolds'
  BY <1>1, <1>8 DEF ManagerHolds
<1>10. io.pc \in {"attach", "erase"} => win'[io.w] = win[io.w]
  BY <1>1, <1>6, <1>7 DEF InHand
<1>11. InHand'
  BY <1>1, <1>7, <1>10 DEF InHand
<1>12. EntriesOfManager'
  BY <1>1, <1>6, <1>7 DEF EntriesOfManager
<1>13. AttachedHaveEntries'
  BY <1>1, <1>8 DEF AttachedHaveEntries
<1>14. LiveInv'
  BY <1>2, <1>3, <1>4, <1>5, <1>9, <1>11, <1>12, <1>13 DEF LiveInv
<1>15. ToDoShown' /\ UpdatedHaveWindows'
  BY <1>0 DEF FollowInv, ToDoShown, UpdatedHaveWindows, Shows
<1>16. \A t : Making(t)' <=> Making(t)
  BY <1>10 DEF Making
<1>17. NewHaveWindows' /\ NewInPhase'
  BY <1>0, <1>16 DEF FollowInv, NewHaveWindows, NewInPhase
<1>18. EraseExcused'
  BY <1>0, <1>10 DEF FollowInv, EraseExcused
<1>19. ShownAreDone'
  BY <1>0 DEF FollowInv, ShownAreDone, Shows
<1>20. GoneAreRemoved'
  BY <1>0, <1>10, <1>16 DEF FollowInv, GoneAreRemoved
<1>21. WindowsFollowAndroid'
  BY <1>0, <1>8 DEF FollowInv, WindowsFollowAndroid, MutexFree
<1>. QED
  BY <1>14, <1>15, <1>17, <1>18, <1>19, <1>20, <1>21 DEF IInv, FollowInv

(* A thread takes or drops shared_ptrs: what the others hold is not        *)
(* touched, and a window nobody holds any more is gone.                    *)
LEMMA HeldMore ==
  ASSUME TypeOK, HeldExist, NEW ids \in SUBSET Ids, NEW who \in Holders \ {"wm", "io"},
         \A id \in ids : Alive(id), holders' = Held(ids, who), win' = win
  PROVE  /\ win' \in [Ids -> WindowType \cup {NoWindow}] /\ holders' \in [Ids -> SUBSET Holders]
         /\ \A id \in Ids : Alive(id)' <=> win'[id] \in WindowType
         /\ \A id \in Ids : Alive(id)' => Alive(id) /\ win'[id] = win[id]
         /\ \A id \in Ids : "wm" \in holders'[id] <=> "wm" \in holders[id]
         /\ \A id \in Ids : "io" \in holders'[id] <=> "io" \in holders[id]
         /\ \A id \in Ids : holders[id] \subseteq holders'[id]
         /\ \A id \in ids : who \in holders'[id]
<1>1. \A id \in Ids : holders'[id] = IF id \in ids THEN holders[id] \cup {who} ELSE holders[id]
  BY DEF Held
<1>2. \A id \in Ids : holders[id] \in SUBSET Holders
  BY DEF TypeOK
<1>3. \A id \in Ids : holders'[id] \in SUBSET Holders
  BY <1>1, <1>2
<1>4. holders' \in [Ids -> SUBSET Holders]
  BY <1>3 DEF Held
<1>5. \A id \in Ids : Alive(id)' <=> Alive(id)
  BY <1>1 DEF Alive
<1>6. win' \in [Ids -> WindowType \cup {NoWindow}]
  BY DEF TypeOK
<1>7. \A id \in Ids : ("wm" \in holders'[id] <=> "wm" \in holders[id])
                      /\ ("io" \in holders'[id] <=> "io" \in holders[id])
  BY <1>1
<1>8. /\ \A id \in Ids : holders[id] \subseteq holders'[id]
      /\ \A id \in ids : who \in holders'[id]
  BY <1>1
<1>9. \A id \in Ids : Alive(id)' <=> win'[id] \in WindowType
  BY <1>5 DEF HeldExist
<1>. QED
  BY <1>4, <1>5, <1>6, <1>7, <1>8, <1>9

LEMMA DropsSome ==
  ASSUME TypeOK, HeldExist, NEW ids, NEW who, Drops(ids, who)
  PROVE  /\ win' \in [Ids -> WindowType \cup {NoWindow}] /\ holders' \in [Ids -> SUBSET Holders]
         /\ \A id \in Ids : Alive(id)' <=> win'[id] \in WindowType
         /\ \A id \in Ids : Alive(id)' => Alive(id) /\ win'[id] = win[id]
         /\ \A id \in Ids : \A x : x \notin who => (x \in holders'[id] <=> x \in holders[id])
         /\ \A id \in Ids \ ids : holders'[id] = holders[id]
<1>1. \A id \in Ids : holders'[id] = IF id \in ids THEN holders[id] \ who ELSE holders[id]
  BY DEF Drops, Dropped
<1>2. \A id \in Ids : win'[id] = IF holders'[id] = {} THEN NoWindow ELSE win[id]
  BY DEF Drops
<1>3. \A id \in Ids : holders[id] \in SUBSET Holders /\ win[id] \in WindowType \cup {NoWindow}
  BY DEF TypeOK
<1>4. \A id \in Ids : holders'[id] \in SUBSET Holders
  BY <1>1, <1>3
<1>5. holders' \in [Ids -> SUBSET Holders]
  BY <1>4 DEF Drops, Dropped
<1>6. \A id \in Ids : win'[id] \in WindowType \cup {NoWindow}
  BY <1>2, <1>3
<1>7. win' \in [Ids -> WindowType \cup {NoWindow}]
  BY <1>6 DEF Drops
<1>8. \A id \in Ids : Alive(id)' => Alive(id) /\ win'[id] = win[id]
  BY <1>1, <1>2 DEF Alive
<1>9. \A id \in Ids : Alive(id)' <=> win'[id] \in WindowType
  BY <1>2, <1>8, NoWindowIsNone DEF Alive, HeldExist
<1>10. \A id \in Ids : \A x : x \notin who => (x \in holders'[id] <=> x \in holders[id])
  BY <1>1
<1>. QED
  BY <1>1, <1>5, <1>7, <1>8, <1>9, <1>10

(* The events and the frames. *)
LEMMA CountedEvents ==
  ASSUME TypeOK, NEW x \in {"events", "frames", "failures"}, count' = Counted(x)
  PROVE  count' \in CountType /\ count'.windows = count.windows
         /\ count'.messages = count.messages
BY DEF Counted, TypeOK, CountType

LEMMA EventIInv ==
  ASSUME IInv, NEW id \in Ids, NEW closes \in BOOLEAN, process_event(id, closes)
  PROVE  IInv'
<1>0. TypeOK /\ HeldExist /\ FoundAreHeld /\ DrawnRight
  BY DEF IInv, LiveInv
<1>1. UNCHANGED <<surface, windows, native, io, deaf, render, excused>> /\ win' = win
      /\ Alive(id) /\ holders' = Held({id}, "event") /\ count' = Counted("events")
      /\ event' = [pc |-> IF closes THEN "closing" ELSE "calling", w |-> id]
  BY DEF process_event, faults
<1>2. /\ win' \in [Ids -> WindowType \cup {NoWindow}] /\ holders' \in [Ids -> SUBSET Holders]
      /\ \A i \in Ids : Alive(i)' <=> win'[i] \in WindowType
      /\ \A i \in Ids : Alive(i)' => Alive(i) /\ win'[i] = win[i]
      /\ \A i \in Ids : "wm" \in holders'[i] <=> "wm" \in holders[i]
      /\ \A i \in Ids : "io" \in holders'[i] <=> "io" \in holders[i]
      /\ \A i \in Ids : holders[i] \subseteq holders'[i]
  <2>1. "event" \in Holders \ {"wm", "io"} /\ {id} \in SUBSET Ids /\ \A i \in {id} : Alive(i)
    BY <1>1 DEF Holders
  <2>. QED
    BY <1>0, <1>1, <2>1, HeldMore
<1>3. count' \in CountType /\ count'.windows = count.windows /\ count'.messages = count.messages
  BY <1>0, <1>1, CountedEvents
<1>4. event' \in EventType
  BY <1>1 DEF EventType
<1>5. render' \in RenderType /\ render.found \in SUBSET Ids
  BY <1>0, <1>1 DEF TypeOK, RenderType
<1>6. FoundAreHeld' /\ DrawnRight'
  BY <1>0, <1>1, <1>2, <1>5 DEF FoundAreHeld, DrawnRight
<1>. QED
  BY <1>1, <1>2, <1>3, <1>4, <1>5, <1>6, OthersStep

LEMMA ReturnsIInv ==
  ASSUME IInv, NEW answered \in BOOLEAN, CallReturns(answered)
  PROVE  IInv'
<1>0. TypeOK /\ HeldExist /\ FoundAreHeld /\ DrawnRight
  BY DEF IInv, LiveInv
<1>1. UNCHANGED <<surface, windows, native, io, deaf, render, excused, count>>
      /\ Drops({event.w}, {"event"}) /\ event' = [pc |-> "idle", w |-> 0]
  BY DEF CallReturns
<1>2. /\ win' \in [Ids -> WindowType \cup {NoWindow}] /\ holders' \in [Ids -> SUBSET Holders]
      /\ \A i \in Ids : Alive(i)' <=> win'[i] \in WindowType
      /\ \A i \in Ids : Alive(i)' => Alive(i) /\ win'[i] = win[i]
      /\ \A i \in Ids : \A x : x \notin {"event"} => (x \in holders'[i] <=> x \in holders[i])
  BY <1>0, <1>1, DropsSome
<1>3. count' \in CountType /\ count'.windows = count.windows /\ count'.messages = count.messages
  BY <1>0, <1>1 DEF TypeOK
<1>4. event' \in EventType
  BY <1>1 DEF EventType
<1>5. render' \in RenderType /\ render.found \in SUBSET Ids
  BY <1>0, <1>1 DEF TypeOK, RenderType
<1>6. FoundAreHeld' /\ DrawnRight'
  BY <1>0, <1>1, <1>2, <1>5 DEF FoundAreHeld, DrawnRight
<1>7. \A i \in Ids : ("wm" \in holders'[i] <=> "wm" \in holders[i])
                     /\ ("io" \in holders'[i] <=> "io" \in holders[i])
  BY <1>2
<1>. QED
  BY <1>1, <1>2, <1>3, <1>4, <1>5, <1>6, <1>7, OthersStep

LEMMA SubmitIInv ==
  ASSUME IInv, submit_layers
  PROVE  IInv'
<1>0. TypeOK /\ HeldExist
  BY DEF IInv, LiveInv
<1>1. UNCHANGED <<surface, windows, native, io, deaf, event, excused, win, holders>>
      /\ count' = Counted("frames")
      /\ render' = [pc |-> "find", todo |-> Tasks, found |-> {}, drawn |-> {}]
  BY DEF submit_layers, faults
<1>2. count' \in CountType /\ count'.windows = count.windows /\ count'.messages = count.messages
  BY <1>0, <1>1, CountedEvents
<1>3. render' \in RenderType /\ render'.found = {} /\ render'.drawn = {}
  BY <1>1 DEF RenderType
<1>4. FoundAreHeld' /\ DrawnRight'
  BY <1>3 DEF FoundAreHeld, DrawnRight
<1>5. /\ win' \in [Ids -> WindowType \cup {NoWindow}] /\ holders' \in [Ids -> SUBSET Holders]
      /\ event' \in EventType
  BY <1>0, <1>1 DEF TypeOK
<1>6. \A i \in Ids : Alive(i)' <=> win'[i] \in WindowType
  BY <1>0, <1>1 DEF HeldExist, Alive
<1>7. \A i \in Ids : Alive(i)' => Alive(i) /\ win'[i] = win[i]
  BY <1>1 DEF Alive
<1>. QED
  BY <1>1, <1>2, <1>3, <1>4, <1>5, <1>6, <1>7, OthersStep

(* find_window_for_task: the window is held from here on. *)
LEMMA FindIInv ==
  ASSUME IInv, NEW t \in Tasks, find_window_for_task(t)
  PROVE  IInv'
<1> DEFINE ids == FoundWindow(t)
<1>0. TypeOK /\ HeldExist /\ FoundAreHeld /\ DrawnRight /\ ManagerHolds
  BY DEF IInv, LiveInv
<1>1. UNCHANGED <<surface, windows, native, io, deaf, event, excused, count>> /\ win' = win
      /\ holders' = Held(ids, "render")
  BY DEF find_window_for_task, faults
<1>2. /\ render'.found = render.found \cup ids /\ render'.drawn = render.drawn
      /\ render'.pc \in {"find", "draw"} /\ render'.todo = render.todo \ {t}
  BY <1>0 DEF find_window_for_task, TypeOK, RenderType
<1>3. ids \in SUBSET Ids /\ \A i \in ids : Alive(i)
  BY <1>0 DEF FoundWindow, TypeOK, ManagerHolds, Alive
<1> HIDE DEF ids
<1>4. render' \in RenderType
  <2>1. render' = [render EXCEPT !.pc = render'.pc, !.todo = render'.todo, !.found = render'.found]
    BY <1>0 DEF find_window_for_task, TypeOK, RenderType
  <2>2. render.todo \in SUBSET Tasks /\ render.found \in SUBSET Ids /\ render \in RenderType
    BY <1>0 DEF TypeOK, RenderType
  <2>3. render'.todo \in SUBSET Tasks /\ render'.found \in SUBSET Ids
    BY <1>2, <1>3, <2>2
  <2>. QED
    BY <1>2, <2>1, <2>2, <2>3 DEF RenderType
<1>5. /\ win' \in [Ids -> WindowType \cup {NoWindow}] /\ holders' \in [Ids -> SUBSET Holders]
      /\ \A i \in Ids : Alive(i)' <=> win'[i] \in WindowType
      /\ \A i \in Ids : Alive(i)' => Alive(i) /\ win'[i] = win[i]
      /\ \A i \in Ids : "wm" \in holders'[i] <=> "wm" \in holders[i]
      /\ \A i \in Ids : "io" \in holders'[i] <=> "io" \in holders[i]
      /\ \A i \in Ids : holders[i] \subseteq holders'[i]
      /\ \A i \in ids : "render" \in holders'[i]
  <2>1. "render" \in Holders \ {"wm", "io"}
    BY DEF Holders
  <2>. QED
    BY <1>0, <1>1, <1>3, <2>1, HeldMore
<1>6. FoundAreHeld' /\ DrawnRight'
  <2>1. render.found \in SUBSET Ids
    BY <1>0 DEF TypeOK, RenderType
  <2>. QED
    BY <1>0, <1>2, <1>5, <2>1 DEF FoundAreHeld, DrawnRight
<1>7. event' \in EventType /\ count' \in CountType
      /\ count'.windows = count.windows /\ count'.messages = count.messages
  BY <1>0, <1>1 DEF TypeOK
<1>. QED
  BY <1>1, <1>4, <1>5, <1>6, <1>7, OthersStep

(* Renderer::draw by the handle: the entry is that of the window, if any.  *)
LEMMA DrawIInv ==
  ASSUME IInv, NEW id \in Ids, draw(id)
  PROVE  IInv'
<1> DEFINE n == native[win[id].handle]
<1>0. TypeOK /\ HeldExist /\ FoundAreHeld /\ DrawnRight /\ EntriesOfManager /\ HandlesApart
  BY DEF IInv, LiveInv
<1>1. UNCHANGED <<surface, windows, native, io, deaf, event, excused, count, win, holders>>
      /\ id \in render.found
  BY DEF draw, faults
<1>2. /\ render'.found = render.found \ {id} /\ render'.drawn = render.drawn \cup {<<id, n>>}
      /\ render'.pc = render.pc /\ render'.todo = render.todo
  BY <1>0 DEF draw, TypeOK, RenderType
<1>3. Alive(id) /\ win[id].handle \in Handles
  BY <1>0, <1>1, LiveWindow DEF FoundAreHeld, Alive
<1>4. n \in Ids \cup {0} /\ n \in {0, id}
  <2>1. native[win[id].handle] \in Ids \cup {0}
    BY <1>0, <1>3 DEF TypeOK
  <2>2. n # 0 => Alive(n) /\ win[n].handle = win[id].handle
    BY <1>0, <1>3 DEF EntriesOfManager, Alive
  <2>. QED
    BY <1>0, <1>3, <2>1, <2>2 DEF HandlesApart
<1> HIDE DEF n
<1>5. render' \in RenderType
  <2>1. render' = [render EXCEPT !.found = render'.found, !.drawn = render'.drawn]
    BY <1>0 DEF draw, TypeOK, RenderType
  <2>2. render.drawn \in SUBSET (Ids \X (Ids \cup {0})) /\ render.found \in SUBSET Ids
        /\ render \in RenderType
    BY <1>0 DEF TypeOK, RenderType
  <2>3. render'.drawn \in SUBSET (Ids \X (Ids \cup {0})) /\ render'.found \in SUBSET Ids
    BY <1>2, <1>4, <2>2
  <2>. QED
    BY <1>2, <2>1, <2>2, <2>3 DEF RenderType
<1>6. FoundAreHeld'
  BY <1>0, <1>1, <1>2 DEF FoundAreHeld
<1>7. DrawnRight'
  BY <1>0, <1>2, <1>4 DEF DrawnRight
<1>8. /\ win' \in [Ids -> WindowType \cup {NoWindow}] /\ holders' \in [Ids -> SUBSET Holders]
      /\ event' \in EventType /\ count' \in CountType
      /\ count'.windows = count.windows /\ count'.messages = count.messages
  BY <1>0, <1>1 DEF TypeOK
<1>9. \A i \in Ids : Alive(i)' <=> win'[i] \in WindowType
  BY <1>0, <1>1 DEF HeldExist, Alive
<1>10. \A i \in Ids : Alive(i)' => Alive(i) /\ win'[i] = win[i]
  BY <1>1 DEF Alive
<1>. QED
  BY <1>1, <1>5, <1>6, <1>7, <1>8, <1>9, <1>10, OthersStep

LEMMA FrameDoneIInv ==
  ASSUME IInv, FrameDone
  PROVE  IInv'
<1> DEFINE ids == {d[1] : d \in render.drawn}
<1>0. TypeOK /\ HeldExist
  BY DEF IInv, LiveInv
<1>1. UNCHANGED <<surface, windows, native, io, deaf, event, excused, count>>
      /\ Drops(ids, {"render"})
  BY DEF FrameDone, faults
<1>2. render'.found = {} /\ render'.drawn = {} /\ render' \in RenderType
  BY <1>0 DEF FrameDone, TypeOK, RenderType
<1> HIDE DEF ids
<1>3. /\ win' \in [Ids -> WindowType \cup {NoWindow}] /\ holders' \in [Ids -> SUBSET Holders]
      /\ \A i \in Ids : Alive(i)' <=> win'[i] \in WindowType
      /\ \A i \in Ids : Alive(i)' => Alive(i) /\ win'[i] = win[i]
      /\ \A i \in Ids : \A x : x \notin {"render"} => (x \in holders'[i] <=> x \in holders[i])
  BY <1>0, <1>1, DropsSome
<1>4. FoundAreHeld' /\ DrawnRight'
  BY <1>2 DEF FoundAreHeld, DrawnRight
<1>5. event' \in EventType /\ count' \in CountType
      /\ count'.windows = count.windows /\ count'.messages = count.messages
  BY <1>0, <1>1 DEF TypeOK
<1>6. \A i \in Ids : ("wm" \in holders'[i] <=> "wm" \in holders[i])
                     /\ ("io" \in holders'[i] <=> "io" \in holders[i])
  BY <1>3
<1>. QED
  BY <1>1, <1>2, <1>3, <1>4, <1>5, <1>6, OthersStep

LEMMA StutterIInv ==
  ASSUME IInv,
         UNCHANGED <<surface, windows, native, io, deaf, event, render, excused, count, win, holders>>
  PROVE  IInv'
<1>0. TypeOK /\ HeldExist /\ FoundAreHeld /\ DrawnRight
  BY DEF IInv, LiveInv
<1>1. UNCHANGED <<surface, windows, native, io, deaf, event, render, excused, count, win, holders>>
  OBVIOUS
<1>2. FoundAreHeld' /\ DrawnRight'
  BY <1>0, <1>1 DEF FoundAreHeld, DrawnRight
<1>3. /\ win' \in [Ids -> WindowType \cup {NoWindow}] /\ holders' \in [Ids -> SUBSET Holders]
      /\ event' \in EventType /\ render' \in RenderType /\ count' \in CountType
      /\ count'.windows = count.windows /\ count'.messages = count.messages
  BY <1>0, <1>1 DEF TypeOK
<1>4. \A i \in Ids : Alive(i)' <=> win'[i] \in WindowType
  BY <1>0, <1>1 DEF HeldExist, Alive
<1>5. \A i \in Ids : Alive(i)' => Alive(i) /\ win'[i] = win[i]
  BY <1>1 DEF Alive
<1>. QED
  BY <1>1, <1>2, <1>3, <1>4, <1>5, OthersStep

----------------------------------------------------------------------------
(* A step of the io thread that touches no table and has no window in hand. *)
LEMMA TablesStay ==
  ASSUME LiveInv, UNCHANGED <<windows, win, holders, native, event, render>>,
         io' \in IoType, io.w = 0, io'.w = 0, io'.pc \notin {"attach", "erase"},
         count' \in CountType, count'.windows = count.windows, IdsSuffice',
         surface' \in [AWindows -> Surfaces], deaf' \in BOOLEAN, excused' \in SUBSET Tasks
  PROVE  LiveInv'
<1>1. TypeOK /\ HeldExist /\ HandlesApart /\ IdsInOrder /\ ManagerHolds
      /\ EntriesOfManager /\ AttachedHaveEntries /\ FoundAreHeld /\ DrawnRight
  BY DEF LiveInv
<1>2. TypeOK'
  BY <1>1 DEF TypeOK
<1>3. HeldExist' /\ HandlesApart' /\ IdsInOrder' /\ ManagerHolds' /\ FoundAreHeld' /\ DrawnRight'
  BY <1>1 DEF HeldExist, HandlesApart, IdsInOrder, ManagerHolds, FoundAreHeld, DrawnRight, Alive
<1>4. InHand'
  BY DEF InHand
<1>5. EntriesOfManager' /\ AttachedHaveEntries'
  BY <1>1 DEF EntriesOfManager, AttachedHaveEntries
<1>. QED
  BY <1>2, <1>3, <1>4, <1>5 DEF LiveInv

LEMMA Times ==
  ASSUME NEW m \in Nat, NEW k \in Nat
  PROVE  (m + 1) * k = m * k + k /\ m * k \in Nat
OBVIOUS

(* Android's update arrives: a window whose task shows nothing any more    *)
(* showed something before, so it is among the removed.                    *)
LEMMA UpdatesIInv ==
  ASSUME IInv, NEW now \in [AWindows -> Surfaces], AndroidUpdates(now)
  PROVE  IInv'
<1>0. LiveInv /\ FollowInv /\ TypeOK /\ InHand /\ IdsSuffice
  BY DEF IInv, LiveInv
<1>1. UNCHANGED <<windows, win, holders, native, deaf, event, render>>
      /\ io.pc = "idle" /\ ~deaf /\ surface' = now /\ excused' = {}
      /\ count' = [Counted("messages") EXCEPT !.changes = @ + Changes(now)]
      /\ count.messages < MaxMessages
  BY DEF AndroidUpdates, MutexFree, faults
<1>2. /\ io' = [pc |-> "update", up |-> {a \in AWindows : now[a] = "surface"},
                rm |-> {a \in AWindows : surface[a] # "absent" /\ now[a] = "absent"},
                tasks |-> {}, new |-> {}, w |-> 0]
  BY DEF AndroidUpdates
<1>3. /\ io'.pc = "update" /\ io'.tasks = {} /\ io'.new = {} /\ io'.w = 0
      /\ io'.up = {a \in AWindows : now[a] = "surface"}
      /\ io'.rm = {a \in AWindows : surface[a] # "absent" /\ now[a] = "absent"}
  BY <1>2
<1>4. io' \in IoType
  BY <1>2 DEF IoType
<1>5. count' \in CountType /\ count'.windows = count.windows
      /\ count'.messages = count.messages + 1 /\ count.windows \in Nat /\ count.messages \in Nat
  <2>1. Changes(now) \in Nat
    BY WindowsAssumption, FS_Subset, FS_CardinalityType DEF Changes
  <2>2. PICK k \in Nat : k = Changes(now)
    BY <2>1
  <2>3. Counted("messages") \in CountType /\ Counted("messages").windows = count.windows
        /\ Counted("messages").messages = count.messages + 1
        /\ count.windows \in Nat /\ count.messages \in Nat
    BY <1>0 DEF Counted, TypeOK, CountType
  <2>4. PICK c \in CountType : c = Counted("messages")
    BY <2>3
  <2>5. count' = [c EXCEPT !.changes = @ + k]
    BY <1>1, <2>2, <2>4
  <2>6. count' \in CountType /\ count'.windows = c.windows /\ count'.messages = c.messages
    BY <2>5 DEF CountType
  <2>. QED
    BY <2>3, <2>4, <2>6
<1>6. IdsSuffice'
  <2>1. count.windows <= count.messages * Cardinality(Tasks)
    BY <1>0, <1>1 DEF IdsSuffice
  <2>2. Cardinality(io'.new) = 0
    BY <1>3, FS_EmptySet
  <2>3. /\ (count.messages + 1) * Cardinality(Tasks)
             = count.messages * Cardinality(Tasks) + Cardinality(Tasks)
        /\ count.messages * Cardinality(Tasks) \in Nat
    BY <1>5, TaskCount, Times
  <2>4. count'.windows + Cardinality(Tasks)
          <= count'.messages * Cardinality(Tasks) + Cardinality(io'.new)
    BY <1>5, <2>1, <2>2, <2>3, TaskCount
  <2>5. count'.messages <= MaxMessages
    BY <1>1, <1>5, WindowsAssumption
  <2>. QED
    BY <1>3, <2>4, <2>5 DEF IdsSuffice
<1>7. LiveInv'
  <2>1. io.w = 0
    BY <1>0, <1>1 DEF InHand
  <2>2. deaf' \in BOOLEAN /\ excused' \in SUBSET Tasks
    BY <1>0, <1>1 DEF TypeOK
  <2>. QED
    BY <1>0, <1>1, <1>3, <1>4, <1>5, <1>6, <2>1, <2>2, TablesStay
<1>8. ToDoShown' /\ NewHaveWindows' /\ NewInPhase' /\ UpdatedHaveWindows' /\ EraseExcused'
  BY <1>1, <1>3 DEF ToDoShown, NewHaveWindows, NewInPhase, UpdatedHaveWindows, EraseExcused,
                    Shows
<1>9. ShownAreDone'
  BY <1>1, <1>3 DEF ShownAreDone, Shows
<1>10. GoneAreRemoved'
  <2>1. SUFFICES ASSUME NEW t \in Tasks, windows[t] # 0
                 PROVE  \E a \in AWindows : TaskOf[a] = t /\ (surface'[a] # "absent" \/ a \in io'.rm)
    BY <1>1, <1>3 DEF GoneAreRemoved, Making
  <2>2. io.rm = {} /\ GoneAreRemoved
    BY <1>0, <1>1 DEF FollowInv, ToDoShown
  <2>3. PICK a \in AWindows : TaskOf[a] = t /\ surface[a] # "absent"
    BY <1>1, <2>1, <2>2 DEF GoneAreRemoved
  <2>. QED
    BY <1>1, <1>3, <2>3
<1>11. WindowsFollowAndroid'
  BY <1>3 DEF WindowsFollowAndroid, MutexFree
<1>. QED
  BY <1>7, <1>8, <1>9, <1>10, <1>11 DEF IInv, FollowInv

(* The window to make next is one of a task that has none. *)
LEMMA NextIsUnknown ==
  ASSUME NEW a \in AWindows, NextUnknown(a)
  PROVE  io.pc = "update" /\ a \in io.up /\ windows[TaskOf[a]] = 0
<1>1. a \in Unknown /\ io.pc = "update"
  BY DEF NextUnknown
<1>. QED
  BY <1>1 DEF Unknown

(* An exception ends the update: the rest of it is dropped and nothing is  *)
(* read any more.                                                          *)
LEMMA DroppedIInv ==
  ASSUME IInv, io.pc \in {"update", "rpc"},
         UNCHANGED <<surface, windows, win, holders, native, event, render>>,
         io' = [io EXCEPT !.pc = "idle", !.up = {}, !.rm = {}, !.new = {}], deaf' = TRUE,
         count' \in CountType, count'.windows = count.windows, count'.messages = count.messages,
         excused' \in SUBSET Tasks
  PROVE  IInv'
<1>10. LiveInv /\ FollowInv /\ TypeOK /\ InHand /\ IdsSuffice
  BY DEF IInv, LiveInv
<1>13. count.windows \in Nat /\ count.messages \in Nat
  BY <1>10 DEF TypeOK, CountType
<1>14. io.w = 0
  BY <1>10 DEF InHand
<1>15. io \in IoType /\ io.up \in SUBSET AWindows
  BY <1>10 DEF TypeOK, IoType
<1>16. ToDoShown /\ NewHaveWindows /\ NewInPhase /\ UpdatedHaveWindows /\ ShownAreDone
      /\ GoneAreRemoved
  BY <1>10 DEF FollowInv
<1>1. io'.pc = "idle" /\ io'.up = {} /\ io'.rm = {} /\ io'.tasks = io.tasks
      /\ io'.new = {} /\ io'.w = io.w
  BY <1>15 DEF IoType
<1>2. io' \in IoType
  BY <1>15 DEF IoType
<1>3. IdsSuffice'
  <2>1. count.windows + Cardinality(Tasks)
          <= count.messages * Cardinality(Tasks) + Cardinality(io.new)
    BY <1>10 DEF IdsSuffice
  <2>2. Cardinality(io.new) \in Nat /\ Cardinality(io.new) <= Cardinality(Tasks)
    BY <1>10, NewCount
  <2>3. count.messages * Cardinality(Tasks) \in Nat
    BY <1>13, TaskCount, Times
  <2>4. count.windows <= count.messages * Cardinality(Tasks)
    BY <1>13, <2>1, <2>2, <2>3, TaskCount
  <2>. QED
    BY <1>10, <1>13, <1>1, <2>4 DEF IdsSuffice
<1>4. LiveInv'
  <2>1. surface' \in [AWindows -> Surfaces] /\ deaf' \in BOOLEAN
    BY <1>10 DEF TypeOK
  <2>. QED
    BY <1>10, <1>13, <1>14, <1>1, <1>2, <1>3, <2>1, TablesStay
<1>5. ToDoShown' /\ UpdatedHaveWindows' /\ EraseExcused'
  BY <1>16, <1>1 DEF ToDoShown, UpdatedHaveWindows, EraseExcused, Shows
<1>6. NewHaveWindows' /\ NewInPhase' /\ ShownAreDone'
  BY <1>1 DEF NewHaveWindows, NewInPhase, ShownAreDone
<1>7. GoneAreRemoved' /\ WindowsFollowAndroid'
  BY <1>1 DEF GoneAreRemoved, WindowsFollowAndroid
<1>. QED
  BY <1>4, <1>5, <1>6, <1>7 DEF IInv, FollowInv

(* A window that cannot be made: its task is excused, or nothing is read   *)
(* any more.                                                               *)
LEMMA CreateFailsIInv ==
  ASSUME IInv, NEW a \in AWindows, create_window_fails(a)
  PROVE  IInv'
<1>0. LiveInv /\ FollowInv /\ TypeOK /\ InHand /\ IdsSuffice
  BY DEF IInv, LiveInv
<1>1. UNCHANGED <<surface, windows, win, holders, native, event, render>>
      /\ excused' = excused \cup {TaskOf[a]} /\ count' = Counted("failures")
  BY DEF create_window_fails
<1>2. io.pc = "update" /\ a \in io.up
  BY NextIsUnknown DEF create_window_fails
<1>3. count' \in CountType /\ count'.windows = count.windows /\ count'.messages = count.messages
      /\ count.windows \in Nat /\ count.messages \in Nat
  BY <1>0, <1>1, CountedEvents DEF TypeOK, CountType
<1>4. io.w = 0 /\ TaskOf[a] \in Tasks /\ excused' \in SUBSET Tasks
  BY <1>0, <1>1, <1>2, WindowsAssumption DEF InHand, TypeOK
<1>5. /\ io \in IoType /\ io.up \in SUBSET AWindows
  BY <1>0 DEF TypeOK, IoType
<1>6. ToDoShown /\ NewHaveWindows /\ NewInPhase /\ UpdatedHaveWindows /\ ShownAreDone
      /\ GoneAreRemoved
  BY <1>0 DEF FollowInv
<1>7. CASE io' = [io EXCEPT !.pc = "rpc", !.up = @ \ {a}] /\ deaf' = deaf
  <2>1. io'.pc = "rpc" /\ io'.up = io.up \ {a} /\ io'.rm = io.rm /\ io'.tasks = io.tasks
        /\ io'.new = io.new /\ io'.w = io.w
    BY <1>5, <1>7 DEF IoType
  <2>2. io' \in IoType
    BY <1>5, <1>7 DEF IoType
  <2>3. IdsSuffice'
    BY <1>0, <1>2, <1>3, <2>1 DEF IdsSuffice
  <2>4. LiveInv'
    <3>1. surface' \in [AWindows -> Surfaces] /\ deaf' \in BOOLEAN
      BY <1>0, <1>1, <1>7 DEF TypeOK
    <3>. QED
      BY <1>0, <1>1, <1>3, <1>4, <2>1, <2>2, <2>3, <3>1, TablesStay
  <2>5. ToDoShown' /\ UpdatedHaveWindows' /\ EraseExcused'
    BY <1>1, <1>2, <1>6, <2>1 DEF ToDoShown, UpdatedHaveWindows, EraseExcused, Shows
  <2>6. (\A t : Making(t)' <=> Making(t)) /\ \A t : ~Making(t)
    BY <1>2, <2>1 DEF Making
  <2>7. NewHaveWindows' /\ NewInPhase'
    BY <1>1, <1>2, <1>6, <2>1, <2>6 DEF NewHaveWindows, NewInPhase
  <2>8. ShownAreDone'
    BY <1>1, <1>2, <1>6, <2>1 DEF ShownAreDone, Shows
  <2>9. GoneAreRemoved'
    BY <1>1, <1>2, <1>6, <2>1, <2>6 DEF GoneAreRemoved
  <2>10. WindowsFollowAndroid'
    BY <2>1 DEF WindowsFollowAndroid, MutexFree
  <2>. QED
    BY <2>4, <2>5, <2>7, <2>8, <2>9, <2>10 DEF IInv, FollowInv
<1>8. CASE io' = [io EXCEPT !.pc = "idle", !.up = {}, !.rm = {}, !.new = {}] /\ deaf' = TRUE
  BY <1>1, <1>2, <1>3, <1>4, <1>8, DroppedIInv
<1>. QED
  BY <1>7, <1>8 DEF create_window_fails

LEMMA TimesOutIInv ==
  ASSUME IInv, remove_task_times_out
  PROVE  IInv'
<1>0. LiveInv /\ FollowInv /\ TypeOK /\ InHand /\ IdsSuffice
  BY DEF IInv, LiveInv
<1>1. UNCHANGED <<surface, windows, win, holders, native, event, render, excused, count>>
      /\ io.pc = "rpc"
  BY DEF remove_task_times_out
<1>a. CASE io' = [io EXCEPT !.pc = "idle", !.up = {}, !.rm = {}, !.new = {}] /\ deaf' = TRUE
  <2>1. count' \in CountType /\ count'.windows = count.windows
        /\ count'.messages = count.messages /\ excused' \in SUBSET Tasks
    BY <1>0, <1>1 DEF TypeOK
  <2>. QED
    BY <1>1, <1>a, <2>1, DroppedIInv
<1>b. CASE io' = [io EXCEPT !.pc = "update"] /\ deaf' = deaf
  <2>2. io'.pc = "update" /\ io'.up = io.up /\ io'.rm = io.rm /\ io'.tasks = io.tasks
        /\ io'.new = io.new /\ io'.w = io.w /\ io' \in IoType
    BY <1>0, <1>b DEF TypeOK, IoType
  <2>3. ToDoShown /\ NewHaveWindows /\ NewInPhase /\ UpdatedHaveWindows /\ ShownAreDone
        /\ GoneAreRemoved
    BY <1>0 DEF FollowInv
  <2>4. IdsSuffice'
    BY <1>0, <1>1, <2>2 DEF IdsSuffice
  <2>5. LiveInv'
    <3>1. io.w = 0
      BY <1>0, <1>1 DEF InHand
    <3>2. surface' \in [AWindows -> Surfaces] /\ deaf' \in BOOLEAN /\ excused' \in SUBSET Tasks
          /\ count' \in CountType /\ count'.windows = count.windows
      BY <1>0, <1>1, <1>b DEF TypeOK
    <3>. QED
      BY <1>0, <1>1, <2>2, <2>4, <3>1, <3>2, TablesStay
  <2>6. \A t : ~Making(t) /\ ~Making(t)'
    BY <1>1, <2>2 DEF Making
  <2>7. ToDoShown' /\ UpdatedHaveWindows' /\ EraseExcused'
    BY <1>1, <2>2, <2>3 DEF ToDoShown, UpdatedHaveWindows, EraseExcused, Shows
  <2>8. NewHaveWindows' /\ NewInPhase'
    BY <1>1, <2>2, <2>3, <2>6 DEF NewHaveWindows, NewInPhase
  <2>9. ShownAreDone'
    BY <1>1, <2>2, <2>3 DEF ShownAreDone, Shows
  <2>10. GoneAreRemoved'
    BY <1>1, <1>b, <2>2, <2>3, <2>6 DEF GoneAreRemoved
  <2>11. WindowsFollowAndroid'
    BY <2>2 DEF WindowsFollowAndroid, MutexFree
  <2>. QED
    BY <2>5, <2>7, <2>8, <2>9, <2>10, <2>11 DEF IInv, FollowInv
<1>. QED
  BY <1>a, <1>b DEF remove_task_times_out

(* The updates are done: the tasks collected have their windows. *)
LEMMA UpdatesDoneIInv ==
  ASSUME IInv, UpdatesDone
  PROVE  IInv'
<1>0. LiveInv /\ FollowInv /\ TypeOK /\ InHand /\ IdsSuffice
  BY DEF IInv, LiveInv
<1>1. UNCHANGED <<surface, windows, win, holders, native, deaf, event, render, excused, count>>
      /\ io.pc = "update" /\ Unknown = {}
  BY DEF UpdatesDone, faults
<1>2. io \in IoType /\ io.up \in SUBSET AWindows
  BY <1>0 DEF TypeOK, IoType
<1>3. io'.pc = "remove" /\ io'.up = {} /\ io'.rm = io.rm /\ io'.tasks = {TaskOf[a] : a \in io.up}
      /\ io'.new = io.new /\ io'.w = io.w
  BY <1>2 DEF UpdatesDone, IoType
<1>4. io' \in IoType
  <2>1. io' = [io EXCEPT !.pc = "remove", !.up = {}, !.tasks = io'.tasks]
    BY <1>3 DEF UpdatesDone
  <2>2. io'.tasks \in SUBSET Tasks
    BY <1>2, <1>3, WindowsAssumption
  <2>. QED
    BY <1>2, <2>1, <2>2 DEF IoType
<1>5. ToDoShown /\ NewHaveWindows /\ NewInPhase /\ UpdatedHaveWindows /\ ShownAreDone
      /\ GoneAreRemoved
  BY <1>0 DEF FollowInv
<1>6. IdsSuffice'
  BY <1>0, <1>1, <1>3 DEF IdsSuffice
<1>7. LiveInv'
  <2>1. io.w = 0
    BY <1>0, <1>1 DEF InHand
  <2>2. surface' \in [AWindows -> Surfaces] /\ deaf' \in BOOLEAN /\ excused' \in SUBSET Tasks
        /\ count' \in CountType /\ count'.windows = count.windows
    BY <1>0, <1>1 DEF TypeOK
  <2>. QED
    BY <1>0, <1>1, <1>3, <1>4, <1>6, <2>1, <2>2, TablesStay
<1>8. \A t : ~Making(t) /\ ~Making(t)'
  BY <1>1, <1>3 DEF Making
<1>9. ToDoShown'
  BY <1>1, <1>2, <1>3, <1>5 DEF ToDoShown, Shows
<1>10. UpdatedHaveWindows'
  <2>1. \A a \in io.up : windows[TaskOf[a]] # 0
    BY <1>1 DEF Unknown
  <2>. QED
    BY <1>1, <1>3, <2>1 DEF UpdatedHaveWindows
<1>11. NewHaveWindows' /\ NewInPhase' /\ EraseExcused'
  BY <1>1, <1>3, <1>5, <1>8 DEF NewHaveWindows, NewInPhase, EraseExcused
<1>12. ShownAreDone'
  BY <1>1, <1>3, <1>5 DEF ShownAreDone, Shows, ToDoShown
<1>13. GoneAreRemoved'
  BY <1>1, <1>3, <1>5, <1>8 DEF GoneAreRemoved
<1>14. WindowsFollowAndroid'
  BY <1>3 DEF WindowsFollowAndroid, MutexFree
<1>. QED
  BY <1>7, <1>9, <1>10, <1>11, <1>12, <1>13, <1>14 DEF IInv, FollowInv

(* The update is over. *)
LEMMA AppliedIInv ==
  ASSUME IInv, UpdateApplied
  PROVE  IInv'
<1>0. LiveInv /\ FollowInv /\ TypeOK /\ InHand /\ IdsSuffice /\ ManagerHolds
  BY DEF IInv, LiveInv
<1>1. UNCHANGED <<surface, windows, win, holders, native, deaf, event, render, excused, count>>
      /\ io.pc = "remove" /\ ToRelease = {}
  BY DEF UpdateApplied, faults
<1>2. io \in IoType
  BY <1>0 DEF TypeOK
<1>3. io'.pc = "idle" /\ io'.up = io.up /\ io'.rm = {} /\ io'.tasks = {}
      /\ io'.new = {} /\ io'.w = io.w /\ io' \in IoType
  BY <1>2 DEF UpdateApplied, IoType
<1>4. ToDoShown /\ NewHaveWindows /\ UpdatedHaveWindows /\ ShownAreDone /\ GoneAreRemoved
  BY <1>0 DEF FollowInv
<1>5. IdsSuffice'
  <2>1. count.windows + Cardinality(Tasks)
          <= count.messages * Cardinality(Tasks) + Cardinality(io.new)
    BY <1>0, <1>1 DEF IdsSuffice
  <2>2. Cardinality(io.new) \in Nat /\ Cardinality(io.new) <= Cardinality(Tasks)
    BY <1>0, NewCount
  <2>3. count.messages \in Nat /\ count.windows \in Nat
    BY <1>0 DEF TypeOK, CountType
  <2>4. count.messages * Cardinality(Tasks) \in Nat
    BY <2>3, TaskCount, Times
  <2>5. count.windows <= count.messages * Cardinality(Tasks)
    BY <2>1, <2>2, <2>3, <2>4, TaskCount
  <2>. QED
    BY <1>0, <1>1, <1>3, <2>5 DEF IdsSuffice
<1>6. LiveInv'
  <2>1. io.w = 0
    BY <1>0, <1>1 DEF InHand
  <2>2. surface' \in [AWindows -> Surfaces] /\ deaf' \in BOOLEAN /\ excused' \in SUBSET Tasks
        /\ count' \in CountType /\ count'.windows = count.windows
    BY <1>0, <1>1 DEF TypeOK
  <2>. QED
    BY <1>0, <1>1, <1>3, <1>5, <2>1, <2>2, TablesStay
<1>7. \A t : ~Making(t) /\ ~Making(t)'
  BY <1>1, <1>3 DEF Making
<1>8. ToDoShown' /\ UpdatedHaveWindows' /\ EraseExcused' /\ NewHaveWindows' /\ NewInPhase'
      /\ ShownAreDone'
  BY <1>1, <1>3, <1>4 DEF ToDoShown, UpdatedHaveWindows, EraseExcused, NewHaveWindows,
                          NewInPhase, ShownAreDone, Shows
<1>9. \A t \in Tasks : windows[t] # 0 => \E a \in AWindows : TaskOf[a] = t /\ surface[a] # "absent"
  <2>1. SUFFICES ASSUME NEW t \in Tasks, windows[t] # 0
                 PROVE  \E a \in AWindows : TaskOf[a] = t /\ surface[a] # "absent"
    OBVIOUS
  <2>2. PICK a \in AWindows : TaskOf[a] = t /\ (surface[a] # "absent" \/ a \in io.rm)
    BY <1>1, <1>4, <2>1 DEF GoneAreRemoved
  <2>3. a \in io.rm => t \in io.tasks
    BY <1>1, <2>1, <2>2 DEF ToRelease
  <2>4. t \in io.tasks => \E b \in AWindows : TaskOf[b] = t /\ surface[b] = "surface"
    BY <1>4 DEF ToDoShown, Shows
  <2>. QED
    BY <2>2, <2>3, <2>4
<1>10. GoneAreRemoved'
  BY <1>1, <1>7, <1>9 DEF GoneAreRemoved
<1>11. WindowsFollowAndroid'
  <2>1. \A a \in AWindows : surface[a] = "surface" =>
          windows[TaskOf[a]] # 0 \/ TaskOf[a] \in excused
    BY <1>1, <1>4, <1>7 DEF ShownAreDone, Shows, ToDoShown, UpdatedHaveWindows, NewHaveWindows
  <2>2. \A t \in Tasks : windows[t] # 0 => win[windows[t]].task = t
    BY <1>0 DEF ManagerHolds
  <2>. QED
    BY <1>1, <1>9, <2>1, <2>2 DEF WindowsFollowAndroid
<1>. QED
  BY <1>6, <1>8, <1>10, <1>11 DEF IInv, FollowInv

(* A new window has a new id and a handle no window has. *)
LEMMA CreateIInv ==
  ASSUME IInv, NEW a \in AWindows, create_window(a)
  PROVE  IInv'
<1> DEFINE id == count.windows + 1
           t == TaskOf[a]
<1>0. /\ TypeOK /\ HeldExist /\ HandlesApart /\ IdsInOrder /\ IdsSuffice /\ ManagerHolds
      /\ InHand /\ EntriesOfManager /\ AttachedHaveEntries /\ FoundAreHeld /\ DrawnRight
  BY DEF IInv, LiveInv
<1>1. UNCHANGED <<surface, windows, native, deaf, event, render, excused>>
      /\ holders' = Held({id}, "io") /\ count' = Counted("windows")
  BY DEF create_window, faults
<1>2. io.pc = "update" /\ a \in io.up /\ windows[t] = 0 /\ t \in Tasks
  BY NextIsUnknown, WindowsAssumption DEF create_window
<1>3. PICK h \in Handles : /\ h \notin HandlesInUse
                           /\ win' = [win EXCEPT ![id] = [task |-> t, handle |-> h, attached |-> FALSE]]
  BY DEF create_window
<1>4. io \in IoType /\ io.up \in SUBSET AWindows /\ io.new \in SUBSET Tasks /\ io.w = 0
  BY <1>0, <1>2 DEF TypeOK, IoType, InHand
<1>5. ToDoShown /\ NewHaveWindows /\ NewInPhase /\ UpdatedHaveWindows /\ ShownAreDone
      /\ GoneAreRemoved
  BY DEF IInv, FollowInv
<1>6. io'.pc = "attach" /\ io'.up = io.up \ {a} /\ io'.rm = io.rm /\ io'.tasks = io.tasks
      /\ io'.new = io.new \cup {t} /\ io'.w = id
  BY <1>4 DEF create_window, IoType
<1>7. count' \in CountType /\ count'.windows = id /\ count'.messages = count.messages
      /\ count.windows \in Nat /\ count.messages \in Nat
  BY <1>0, <1>1 DEF Counted, TypeOK, CountType
<1>8. t \notin io.new
  BY <1>2, <1>5 DEF NewInPhase, Making
<1>9. Cardinality(io'.new) = Cardinality(io.new) + 1 /\ Cardinality(io'.new) <= Cardinality(Tasks)
      /\ Cardinality(io.new) \in Nat
  <2>1. IsFiniteSet(io.new) /\ Cardinality(io.new) \in Nat
    BY <1>0, NewCount
  <2>2. Cardinality(io.new \cup {t}) = Cardinality(io.new) + 1
    BY <1>8, <2>1, FS_AddElement, Zenon
  <2>3. io.new \cup {t} \in SUBSET Tasks
    BY <1>2, <1>4
  <2>4. Cardinality(io.new \cup {t}) <= Cardinality(Tasks)
    BY <2>3, TaskCount, FS_Subset, Zenon
  <2>. QED
    BY <1>6, <2>1, <2>2, <2>4
<1>10. IdsSuffice' /\ id \in Ids
  <2> DEFINE K == Cardinality(Tasks)
             cap == count.messages * K
  <2>1. K \in Nat /\ cap \in Nat /\ MaxMessages \in Nat
    BY <1>7, TaskCount, Times, WindowsAssumption
  <2>2. count.windows + K <= cap + Cardinality(io.new) /\ count.messages <= MaxMessages
    BY <1>0, <1>2 DEF IdsSuffice
  <2>3. cap <= MaxMessages * K
    BY <1>7, <2>1, <2>2
  <2>4. MaxMessages * K \in Nat
    BY <2>1
  <2>5. count'.messages = count.messages /\ count'.windows = count.windows + 1
    BY <1>7
  <2> HIDE DEF cap
  <2>6. id + K <= cap + Cardinality(io'.new)
    BY <1>7, <1>9, <2>1, <2>2
  <2>7. id <= cap
    BY <1>7, <1>9, <2>1, <2>6
  <2>8. id \in Ids
    BY <1>7, <2>1, <2>3, <2>4, <2>7 DEF Ids
  <2>. QED
    BY <1>6, <2>2, <2>5, <2>6, <2>8 DEF IdsSuffice, cap
<1> HIDE DEF id
<1>11. ~Alive(id) /\ \A i \in Ids : Alive(i) => i # id
  BY <1>0, <1>7, <1>10 DEF IdsInOrder, id, Ids
<1>12. /\ \A i \in Ids : i # id => holders'[i] = holders[i] /\ win'[i] = win[i]
       /\ holders'[id] = {"io"}
  BY <1>0, <1>1, <1>3, <1>10, <1>11 DEF Held, Alive, TypeOK
<1>13. /\ win'[id] = [task |-> t, handle |-> h, attached |-> FALSE]
       /\ win'[id] \in WindowType
  BY <1>0, <1>2, <1>3, <1>10 DEF TypeOK, WindowType
<1>14. win'[id].task = t /\ win'[id].handle = h /\ ~win'[id].attached
  BY <1>13
<1>15. \A i \in Ids : Alive(i)' <=> Alive(i) \/ i = id
  BY <1>12 DEF Alive
<1>16. TypeOK'
  <2>1. io' \in IoType
    <3>1. io' = [io EXCEPT !.pc = "attach", !.up = io'.up, !.new = io'.new, !.w = io'.w]
      BY <1>4, <1>6 DEF create_window, IoType
    <3>2. io'.up \in SUBSET AWindows /\ io'.new \in SUBSET Tasks /\ io'.w \in Ids
      BY <1>2, <1>4, <1>6, <1>10
    <3>. QED
      BY <1>4, <3>1, <3>2 DEF IoType
  <2>2. win' \in [Ids -> WindowType \cup {NoWindow}]
    BY <1>0, <1>3, <1>12, <1>13 DEF TypeOK
  <2>3. holders' \in [Ids -> SUBSET Holders]
    <3>1. \A i \in Ids : holders'[i] \in SUBSET Holders
      BY <1>0, <1>12 DEF TypeOK, Holders
    <3>. QED
      BY <1>1, <3>1 DEF Held
  <2>. QED
    BY <1>0, <1>1, <1>7, <2>1, <2>2, <2>3 DEF TypeOK
<1>17. HeldExist'
  BY <1>0, <1>12, <1>13, <1>15 DEF HeldExist
<1>18. HandlesApart'
  <2>1. \A i \in Ids : i # id /\ Alive(i) => win[i].handle # h
    BY <1>3 DEF HandlesInUse
  <2>. QED
    BY <1>0, <1>12, <1>14, <1>15, <2>1 DEF HandlesApart
<1>19. IdsInOrder'
  <2>1. \A i \in Ids : i \in Nat
    BY DEF Ids
  <2>. QED
    BY <1>0, <1>7, <1>10, <1>15, <2>1 DEF IdsInOrder, id
<1>20. \A u \in Tasks : windows[u] # 0 => windows[u] \in Ids /\ windows[u] # id
                                          /\ "wm" \in holders[windows[u]]
  BY <1>0, <1>11 DEF ManagerHolds, Alive, TypeOK
<1>21. ManagerHolds'
  BY <1>0, <1>1, <1>12, <1>20 DEF ManagerHolds
<1>22. InHand'
  BY <1>1, <1>2, <1>6, <1>10, <1>12, <1>14, ZeroNoId DEF InHand
<1>23. EntriesOfManager'
  <2>1. \A g \in Handles : native[g] # 0 => native[g] \in Ids /\ native[g] # id
    BY <1>0, <1>11 DEF EntriesOfManager, Alive, TypeOK
  <2>2. \A g \in Handles : native[g] # 0 => holders'[native[g]] = holders[native[g]]
                                            /\ win'[native[g]] = win[native[g]]
    BY <1>12, <2>1
  <2>3. native' = native /\ io'.w = id
    BY <1>1, <1>6
  <2>. QED
    BY <1>0, <2>1, <2>2, <2>3 DEF EntriesOfManager
<1>24. AttachedHaveEntries'
  <2>1. \A u \in Tasks : windows[u] # 0 => win'[windows[u]] = win[windows[u]]
    BY <1>12, <1>20
  <2>. QED
    BY <1>0, <1>1, <1>4, <2>1 DEF AttachedHaveEntries
<1>25. FoundAreHeld' /\ DrawnRight'
  <2>1. \A i \in render.found : i \in Ids /\ i # id
    BY <1>0, <1>11 DEF FoundAreHeld, Alive, TypeOK, RenderType
  <2>. QED
    BY <1>0, <1>1, <1>12, <2>1 DEF FoundAreHeld, DrawnRight
<1>26. LiveInv'
  BY <1>10, <1>16, <1>17, <1>18, <1>19, <1>21, <1>22, <1>23, <1>24, <1>25 DEF LiveInv
<1>27. \A u : Making(u)' <=> u = t
  BY <1>6, <1>14 DEF Making
<1>28. \A u : ~Making(u)
  BY <1>2 DEF Making
<1>29. ToDoShown' /\ UpdatedHaveWindows' /\ EraseExcused'
  BY <1>1, <1>2, <1>5, <1>6 DEF ToDoShown, UpdatedHaveWindows, EraseExcused, Shows
<1>30. NewHaveWindows' /\ NewInPhase'
  BY <1>1, <1>2, <1>5, <1>6, <1>27, <1>28 DEF NewHaveWindows, NewInPhase
<1>31. ShownAreDone'
  BY <1>1, <1>2, <1>5, <1>6 DEF ShownAreDone, Shows
<1>32. GoneAreRemoved'
  <2>1. surface[a] # "absent"
    BY <1>2, <1>5 DEF ToDoShown, Shows
  <2>. QED
    BY <1>1, <1>2, <1>5, <1>6, <1>27, <1>28, <2>1 DEF GoneAreRemoved
<1>33. WindowsFollowAndroid'
  BY <1>6 DEF WindowsFollowAndroid, MutexFree
<1>. QED
  BY <1>26, <1>29, <1>30, <1>31, <1>32, <1>33 DEF IInv, FollowInv

(* attach: there is no entry under the handle of the new window, so its    *)
(* own is made.                                                            *)
LEMMA AttachIInv ==
  ASSUME IInv, NEW works \in BOOLEAN, attach(works)
  PROVE  IInv'
<1> DEFINE w == io.w
           h == win[w].handle
           t == win[w].task
<1>0. /\ TypeOK /\ HeldExist /\ HandlesApart /\ IdsInOrder /\ IdsSuffice /\ ManagerHolds
      /\ InHand /\ EntriesOfManager /\ AttachedHaveEntries /\ FoundAreHeld /\ DrawnRight
  BY DEF IInv, LiveInv
<1>1. UNCHANGED <<surface, deaf, event, render, excused>> /\ io.pc = "attach"
      /\ count' = (IF works THEN count ELSE Counted("failures"))
  BY DEF attach, faults
<1>2. w \in Ids /\ "io" \in holders[w] /\ "wm" \notin holders[w] /\ windows[t] = 0 /\ Alive(w)
  BY <1>0, <1>1 DEF InHand, TypeOK, IoType, Alive
<1>3. t \in Tasks /\ h \in Handles /\ win[w] \in WindowType
  BY <1>0, <1>2, LiveWindow DEF HeldExist
<1>4. native[h] = 0
  <2>1. SUFFICES ASSUME native[h] # 0 PROVE FALSE
    OBVIOUS
  <2>2. native[h] \in Ids /\ "wm" \in holders[native[h]] /\ win[native[h]].handle = h
    BY <1>0, <1>3, <2>1 DEF EntriesOfManager, TypeOK
  <2>3. native[h] = w
    BY <1>0, <1>2, <2>2 DEF HandlesApart, Alive
  <2>. QED
    BY <1>2, <2>2, <2>3
<1>5. io \in IoType
  BY <1>0 DEF TypeOK
<1>6. io'.pc = "update" /\ io'.up = io.up /\ io'.rm = io.rm /\ io'.tasks = io.tasks
      /\ io'.new = io.new /\ io'.w = 0 /\ io' \in IoType
  BY <1>5 DEF attach, IoType
<1>7. count' \in CountType /\ count'.windows = count.windows /\ count'.messages = count.messages
  <2>1. CASE works
    BY <1>0, <1>1, <2>1 DEF TypeOK
  <2>2. CASE ~works
    BY <1>0, <1>1, <2>2, CountedEvents
  <2>. QED
    BY <2>1, <2>2
<1>8. /\ native' = (IF works /\ native[h] = 0 THEN [native EXCEPT ![h] = w] ELSE native)
      /\ win' = [win EXCEPT ![w].attached = works]
      /\ windows' = [windows EXCEPT ![t] = w]
      /\ holders' = [holders EXCEPT ![w] = (@ \ {"io"}) \cup {"wm"}]
  BY DEF attach
<1>9. /\ native' \in [Handles -> Ids \cup {0}] /\ native'[h] = (IF works THEN w ELSE 0)
      /\ \A g \in Handles : g # h => native'[g] = native[g]
  BY <1>0, <1>2, <1>3, <1>4, <1>8 DEF TypeOK
<1>10. /\ win' = [i \in Ids |-> win'[i]]
       /\ \A i \in Ids : i # w => win'[i] = win[i]
  BY <1>0, <1>2, <1>8 DEF TypeOK
<1>11. win'[w] = [win[w] EXCEPT !.attached = works]
  BY <1>0, <1>2, <1>8 DEF TypeOK
<1>12. win'[w].task = t /\ win'[w].handle = h /\ win'[w].attached = works /\ win'[w] \in WindowType
  BY <1>3, <1>11 DEF WindowType
<1>13. windows'[t] = w /\ \A u \in Tasks : u # t => windows'[u] = windows[u]
  BY <1>0, <1>3, <1>8 DEF TypeOK
<1>14. holders'[w] = (holders[w] \ {"io"}) \cup {"wm"}
       /\ \A i \in Ids : i # w => holders'[i] = holders[i]
  BY <1>0, <1>2, <1>8 DEF TypeOK
<1>15. TypeOK'
  <2>1. win' \in [Ids -> WindowType \cup {NoWindow}]
    <3>1. \A i \in Ids : win'[i] \in WindowType \cup {NoWindow}
      BY <1>0, <1>10, <1>12 DEF TypeOK
    <3>. QED
      BY <1>10, <3>1
  <2>2. holders' \in [Ids -> SUBSET Holders]
    <3>1. (holders[w] \ {"io"}) \cup {"wm"} \in SUBSET Holders
      BY <1>0, <1>2 DEF TypeOK, Holders
    <3>. QED
      BY <1>0, <1>8, <3>1 DEF TypeOK
  <2>3. windows' \in [Tasks -> Ids \cup {0}]
    BY <1>0, <1>2, <1>8 DEF TypeOK
  <2>. QED
    BY <1>0, <1>1, <1>6, <1>7, <1>9, <2>1, <2>2, <2>3 DEF TypeOK
<1> HIDE DEF w, h, t
<1>16. \A i \in Ids : Alive(i)' <=> Alive(i)
  BY <1>2, <1>14 DEF Alive
<1>17. HeldExist'
  BY <1>0, <1>2, <1>10, <1>12, <1>16 DEF HeldExist
<1>18. \A i \in Ids : win'[i].handle = win[i].handle
  BY <1>10, <1>12 DEF h
<1>19. HandlesApart' /\ IdsInOrder'
  BY <1>0, <1>7, <1>16, <1>18 DEF HandlesApart, IdsInOrder
<1>20. IdsSuffice'
  BY <1>0, <1>1, <1>6, <1>7 DEF IdsSuffice
<1>21. \A u \in Tasks : windows[u] # 0 => windows[u] \in Ids /\ windows[u] # w /\ u # t
                                          /\ "wm" \in holders[windows[u]]
  BY <1>0, <1>2 DEF ManagerHolds, TypeOK
<1>22. ManagerHolds'
  <2>1. ASSUME NEW u \in Tasks, windows'[u] # 0
        PROVE  "wm" \in holders'[windows'[u]] /\ win'[windows'[u]].task = u
    <3>1. CASE u = t
      BY <1>12, <1>13, <1>14, <3>1
    <3>2. CASE u # t
      <4>1. windows'[u] = windows[u] /\ windows[u] \in Ids /\ windows[u] # w
        BY <1>13, <1>21, <2>1, <3>2
      <4>. QED
        BY <1>0, <1>10, <1>14, <2>1, <4>1 DEF ManagerHolds
    <3>. QED
      BY <3>1, <3>2
  <2>. QED
    BY <2>1 DEF ManagerHolds
<1>23. InHand'
  BY <1>6 DEF InHand
<1>24. EntriesOfManager'
  <2>1. ASSUME NEW g \in Handles, native'[g] # 0
        PROVE  /\ "wm" \in holders'[native'[g]] /\ native'[g] # io'.w
               /\ win'[native'[g]].handle = g /\ win'[native'[g]].attached
    <3>1. CASE g = h
      BY <1>6, <1>9, <1>12, <1>14, <2>1, <3>1
    <3>2. CASE g # h
      <4>1. native'[g] = native[g] /\ native[g] \in Ids /\ "wm" \in holders[native[g]]
            /\ win[native[g]].handle = g /\ win[native[g]].attached
        BY <1>0, <1>9, <2>1, <3>2 DEF EntriesOfManager, TypeOK
      <4>2. native[g] # w
        BY <1>2, <4>1
      <4>. QED
        BY <1>6, <1>10, <1>14, <2>1, <4>1, <4>2
    <3>. QED
      BY <3>1, <3>2
  <2>. QED
    BY <2>1 DEF EntriesOfManager
<1>25. AttachedHaveEntries'
  <2>1. ASSUME NEW u \in Tasks, windows'[u] # 0, win'[windows'[u]].attached
        PROVE  native'[win'[windows'[u]].handle] = windows'[u]
    <3>1. CASE u = t
      BY <1>9, <1>12, <1>13, <2>1, <3>1
    <3>2. CASE u # t
      <4> DEFINE x == windows[u]
      <4>1. windows'[u] = x /\ x # 0
        BY <1>13, <2>1, <3>2
      <4>2. x \in Ids /\ x # w /\ "wm" \in holders[x]
        BY <1>21, <4>1
      <4>3. win'[x] = win[x] /\ Alive(x)
        BY <1>10, <4>2 DEF Alive
      <4>4. native[win[x].handle] = x
        BY <1>0, <2>1, <4>1, <4>2, <4>3 DEF AttachedHaveEntries, w
      <4>5. win[x].handle # h /\ win[x].handle \in Handles
        BY <1>0, <1>2, <4>2, <4>3, LiveWindow DEF HandlesApart, h
      <4>. QED
        BY <1>9, <4>1, <4>3, <4>4, <4>5
    <3>. QED
      BY <3>1, <3>2
  <2>. QED
    BY <2>1 DEF AttachedHaveEntries
<1>26. FoundAreHeld' /\ DrawnRight'
  <2>1. \A i \in render.found : i \in Ids
    BY <1>0 DEF TypeOK, RenderType
  <2>. QED
    BY <1>0, <1>1, <1>14, <2>1 DEF FoundAreHeld, DrawnRight
<1>27. LiveInv'
  BY <1>15, <1>17, <1>19, <1>20, <1>22, <1>23, <1>24, <1>25, <1>26 DEF LiveInv
<1>28. ToDoShown /\ NewHaveWindows /\ NewInPhase /\ UpdatedHaveWindows /\ ShownAreDone
      /\ GoneAreRemoved
  BY DEF IInv, FollowInv
<1>29. (\A u : Making(u) <=> u = t) /\ \A u : ~Making(u)'
  BY <1>1, <1>6 DEF Making, t, w
<1>30. w # 0 /\ \A u \in Tasks : windows'[u] # 0 <=> windows[u] # 0 \/ u = t
  BY <1>2, <1>13, ZeroNoId
<1>31. io.new \in SUBSET Tasks /\ io.tasks \in SUBSET Tasks
  BY <1>5 DEF IoType
<1>32. ToDoShown' /\ EraseExcused'
  BY <1>1, <1>6, <1>28 DEF ToDoShown, EraseExcused, Shows
<1>33. UpdatedHaveWindows' /\ NewHaveWindows' /\ NewInPhase'
  BY <1>1, <1>6, <1>28, <1>29, <1>30, <1>31 DEF UpdatedHaveWindows, NewHaveWindows, NewInPhase
<1>34. ShownAreDone'
  BY <1>1, <1>6, <1>28 DEF ShownAreDone, Shows
<1>35. GoneAreRemoved'
  BY <1>1, <1>6, <1>28, <1>29, <1>30 DEF GoneAreRemoved
<1>36. WindowsFollowAndroid'
  BY <1>6 DEF WindowsFollowAndroid, MutexFree
<1>. QED
  BY <1>27, <1>32, <1>33, <1>34, <1>35, <1>36 DEF IInv, FollowInv

(* release: the entry of the window, if it has one, is under its handle. *)
LEMMA ReleaseIInv ==
  ASSUME IInv, NEW a \in AWindows, release(a)
  PROVE  IInv'
<1> DEFINE t == TaskOf[a]
           w == windows[t]
           h == win[w].handle
<1>0. /\ TypeOK /\ HeldExist /\ HandlesApart /\ IdsInOrder /\ IdsSuffice /\ ManagerHolds
      /\ InHand /\ EntriesOfManager /\ AttachedHaveEntries /\ FoundAreHeld /\ DrawnRight
  BY DEF IInv, LiveInv
<1>1. UNCHANGED <<surface, windows, win, deaf, event, render, count>> /\ io.pc = "remove"
      /\ holders' = Held({w}, "io")
      /\ excused' = (IF t \in io.new THEN excused \cup {t} ELSE excused)
      /\ native' = (IF win[w].attached THEN [native EXCEPT ![h] = 0] ELSE native)
  BY DEF release, faults
<1>2. a \in io.rm /\ w # 0 /\ t \notin io.tasks /\ t \in Tasks
  <2>1. a \in ToRelease
    BY DEF release
  <2>. QED
    BY <2>1, WindowsAssumption DEF ToRelease
<1>3. w \in Ids /\ "wm" \in holders[w] /\ win[w].task = t /\ Alive(w) /\ h \in Handles
  <2>1. w \in Ids /\ "wm" \in holders[w] /\ win[w].task = t
    BY <1>0, <1>2 DEF TypeOK, ManagerHolds
  <2>2. Alive(w)
    BY <2>1 DEF Alive
  <2>. QED
    BY <1>0, <2>1, <2>2, LiveWindow
<1>4. io \in IoType /\ io.w = 0 /\ io.rm \in SUBSET AWindows
  BY <1>0, <1>1 DEF TypeOK, InHand, IoType
<1>5. io'.pc = "erase" /\ io'.up = io.up /\ io'.rm = io.rm \ {a} /\ io'.tasks = io.tasks
      /\ io'.new = io.new /\ io'.w = w
  BY <1>4 DEF release, IoType
<1>6. io' \in IoType
  <2>1. io' = [io EXCEPT !.pc = "erase", !.rm = io'.rm, !.w = w]
    BY <1>5 DEF release
  <2>2. io'.rm \in SUBSET AWindows
    BY <1>4, <1>5
  <2>. QED
    BY <1>3, <1>4, <2>1, <2>2 DEF IoType
<1>7. /\ native' \in [Handles -> Ids \cup {0}]
      /\ \A g \in Handles : native'[g] # 0 => native'[g] = native[g]
      /\ \A g \in Handles : g # h => native'[g] = native[g]
      /\ win[w].attached => native'[h] = 0
  BY <1>0, <1>1, <1>3 DEF TypeOK
<1>8. /\ holders' \in [Ids -> SUBSET Holders] /\ \A i \in Ids : Alive(i)' <=> Alive(i)
      /\ \A i \in Ids : holders[i] \subseteq holders'[i]
  <2>1. \A i \in Ids : holders'[i] = IF i \in {w} THEN holders[i] \cup {"io"} ELSE holders[i]
    BY <1>1 DEF Held
  <2>2. \A i \in Ids : holders[i] \in SUBSET Holders
    BY <1>0 DEF TypeOK
  <2>3. \A i \in Ids : holders'[i] \in SUBSET Holders
    BY <2>1, <2>2 DEF Holders
  <2>4. holders' \in [Ids -> SUBSET Holders]
    BY <1>1, <2>3 DEF Held
  <2>5. \A i \in Ids : Alive(i)' <=> Alive(i)
    BY <1>3, <2>1 DEF Alive
  <2>. QED
    BY <2>1, <2>4, <2>5
<1>9. excused' \in SUBSET Tasks /\ excused \subseteq excused' /\ (t \in io.new => t \in excused')
  BY <1>0, <1>1, <1>2 DEF TypeOK
<1>10. TypeOK'
  BY <1>0, <1>1, <1>6, <1>7, <1>8, <1>9 DEF TypeOK
<1> HIDE DEF t, w, h
<1>11. HeldExist' /\ HandlesApart' /\ IdsInOrder'
  BY <1>0, <1>1, <1>8 DEF HeldExist, HandlesApart, IdsInOrder
<1>12. IdsSuffice'
  BY <1>0, <1>1, <1>5 DEF IdsSuffice
<1>13. ManagerHolds'
  <2>1. \A u \in Tasks : windows[u] # 0 => windows[u] \in Ids
    BY <1>0 DEF TypeOK
  <2>. QED
    BY <1>0, <1>1, <1>8, <2>1 DEF ManagerHolds
<1>14. InHand'
  BY <1>1, <1>2, <1>3, <1>5, <1>8 DEF InHand, w
<1>15. EntriesOfManager'
  <2>1. ASSUME NEW g \in Handles, native'[g] # 0
        PROVE  /\ "wm" \in holders'[native'[g]] /\ native'[g] # io'.w
               /\ win'[native'[g]].handle = g /\ win'[native'[g]].attached
    <3>1. native'[g] = native[g] /\ native[g] \in Ids
      BY <1>0, <1>7, <2>1 DEF TypeOK
    <3>2. "wm" \in holders[native[g]] /\ win[native[g]].handle = g /\ win[native[g]].attached
      BY <1>0, <2>1, <3>1 DEF EntriesOfManager
    <3>3. native[g] # w
      BY <1>7, <2>1, <3>1, <3>2 DEF h
    <3>. QED
      BY <1>1, <1>5, <1>8, <3>1, <3>2, <3>3
  <2>. QED
    BY <2>1 DEF EntriesOfManager
<1>16. AttachedHaveEntries'
  <2>1. ASSUME NEW u \in Tasks, windows[u] # 0, win[windows[u]].attached, w # windows[u]
        PROVE  native'[win[windows[u]].handle] = windows[u]
    <3> DEFINE x == windows[u]
    <3>1. x \in Ids /\ Alive(x)
      BY <1>0, <2>1 DEF TypeOK, ManagerHolds, Alive
    <3>2. native[win[x].handle] = x
      BY <1>0, <1>4, <2>1 DEF AttachedHaveEntries
    <3>3. win[x].handle # h /\ win[x].handle \in Handles
      BY <1>0, <1>3, <2>1, <3>1, LiveWindow DEF HandlesApart, h
    <3>. QED
      BY <1>7, <3>2, <3>3
  <2>. QED
    BY <1>1, <1>5, <2>1 DEF AttachedHaveEntries
<1>17. FoundAreHeld' /\ DrawnRight'
  <2>1. \A i \in render.found : i \in Ids
    BY <1>0 DEF TypeOK, RenderType
  <2>. QED
    BY <1>0, <1>1, <1>8, <2>1 DEF FoundAreHeld, DrawnRight
<1>18. LiveInv'
  BY <1>10, <1>11, <1>12, <1>13, <1>14, <1>15, <1>16, <1>17 DEF LiveInv
<1>19. ToDoShown /\ NewHaveWindows /\ UpdatedHaveWindows /\ ShownAreDone /\ GoneAreRemoved
  BY DEF IInv, FollowInv
<1>20. \A u : ~Making(u) /\ ~Making(u)'
  BY <1>1, <1>5 DEF Making
<1>21. win'[io'.w].task = t
  BY <1>1, <1>3, <1>5
<1>22. ToDoShown' /\ UpdatedHaveWindows'
  BY <1>1, <1>5, <1>19 DEF ToDoShown, UpdatedHaveWindows, Shows
<1>23. NewHaveWindows' /\ NewInPhase'
  BY <1>1, <1>5, <1>9, <1>19, <1>20 DEF NewHaveWindows, NewInPhase
<1>24. EraseExcused'
  BY <1>2, <1>5, <1>9, <1>21 DEF EraseExcused
<1>25. ShownAreDone'
  BY <1>1, <1>5, <1>9, <1>19 DEF ShownAreDone, Shows
<1>26. GoneAreRemoved'
  <2>1. ASSUME NEW u \in Tasks, windows[u] # 0, u # t
        PROVE  \E b \in AWindows : TaskOf[b] = u /\ (surface[b] # "absent" \/ b \in io'.rm)
    <3>1. PICK b \in AWindows : TaskOf[b] = u /\ (surface[b] # "absent" \/ b \in io.rm)
      BY <1>1, <1>19, <2>1 DEF GoneAreRemoved
    <3>. QED
      BY <1>5, <2>1, <3>1 DEF t
  <2>. QED
    BY <1>1, <1>5, <1>20, <1>21, <2>1 DEF GoneAreRemoved
<1>27. WindowsFollowAndroid'
  BY <1>5 DEF WindowsFollowAndroid, MutexFree
<1>. QED
  BY <1>18, <1>22, <1>23, <1>24, <1>25, <1>26, <1>27 DEF IInv, FollowInv

(* The window leaves the map; a frame or a callback may keep it.  It has   *)
(* no entry any more, so none is left behind.                              *)
LEMMA EraseIInv ==
  ASSUME IInv, EraseWindow
  PROVE  IInv'
<1> DEFINE w == io.w
           t == win[w].task
<1>0. /\ TypeOK /\ HeldExist /\ HandlesApart /\ IdsInOrder /\ IdsSuffice /\ ManagerHolds
      /\ InHand /\ EntriesOfManager /\ AttachedHaveEntries /\ FoundAreHeld /\ DrawnRight
  BY DEF IInv, LiveInv
<1>1. UNCHANGED <<surface, native, deaf, event, render, excused, count>> /\ io.pc = "erase"
      /\ Drops({w}, {"io", "wm"}) /\ windows' = [windows EXCEPT ![t] = 0]
  BY DEF EraseWindow, faults
<1>2. w \in Ids /\ "wm" \in holders[w] /\ windows[t] = w /\ Alive(w)
  BY <1>0, <1>1 DEF InHand, TypeOK, IoType, Alive
<1>3. t \in Tasks
  BY <1>0, <1>2, LiveWindow
<1>4. io \in IoType
  BY <1>0 DEF TypeOK
<1>5. io'.pc = "remove" /\ io'.up = io.up /\ io'.rm = io.rm /\ io'.tasks = io.tasks
      /\ io'.new = io.new /\ io'.w = 0 /\ io' \in IoType
  BY <1>4 DEF EraseWindow, IoType
<1>6. /\ win' \in [Ids -> WindowType \cup {NoWindow}] /\ holders' \in [Ids -> SUBSET Holders]
      /\ \A i \in Ids : Alive(i)' <=> win'[i] \in WindowType
      /\ \A i \in Ids : Alive(i)' => Alive(i) /\ win'[i] = win[i]
      /\ \A i \in Ids : \A x : x \notin {"io", "wm"} => (x \in holders'[i] <=> x \in holders[i])
      /\ \A i \in Ids \ {w} : holders'[i] = holders[i]
  BY <1>0, <1>1, DropsSome
<1>7. /\ windows' \in [Tasks -> Ids \cup {0}] /\ windows'[t] = 0
      /\ \A u \in Tasks : u # t => windows'[u] = windows[u]
  BY <1>0, <1>1, <1>3 DEF TypeOK
<1>8. TypeOK'
  BY <1>0, <1>1, <1>5, <1>6, <1>7 DEF TypeOK
<1>9. HeldExist'
  BY <1>6 DEF HeldExist
<1>10. HandlesApart' /\ IdsInOrder'
  BY <1>0, <1>1, <1>6 DEF HandlesApart, IdsInOrder
<1>11. IdsSuffice'
  BY <1>0, <1>1, <1>5 DEF IdsSuffice
<1>12. \A u \in Tasks : windows'[u] # 0 =>
         /\ u # t /\ windows'[u] = windows[u] /\ windows[u] \in Ids /\ windows[u] # w
         /\ "wm" \in holders[windows[u]] /\ win[windows[u]].task = u
  <2>1. \A u \in Tasks : windows[u] # 0 =>
          windows[u] \in Ids /\ "wm" \in holders[windows[u]] /\ win[windows[u]].task = u
    BY <1>0 DEF ManagerHolds, TypeOK
  <2>. QED
    BY <1>7, <2>1
<1> HIDE DEF t, w
<1>13. \A i \in Ids : i # w /\ Alive(i) => holders'[i] = holders[i] /\ win'[i] = win[i]
  BY <1>6 DEF Alive
<1>14. \A u \in Tasks : windows'[u] # 0 =>
         /\ "wm" \in holders'[windows'[u]] /\ win'[windows'[u]] = win[windows[u]]
  BY <1>12, <1>13 DEF Alive
<1>15. ManagerHolds'
  BY <1>12, <1>14 DEF ManagerHolds
<1>16. InHand'
  BY <1>5 DEF InHand
<1>17. EntriesOfManager'
  <2>1. ASSUME NEW g \in Handles, native[g] # 0
        PROVE  /\ "wm" \in holders'[native[g]] /\ native[g] # io'.w
               /\ win'[native[g]].handle = g /\ win'[native[g]].attached
    <3>1. native[g] \in Ids /\ "wm" \in holders[native[g]] /\ native[g] # w
          /\ win[native[g]].handle = g /\ win[native[g]].attached
      BY <1>0, <2>1 DEF EntriesOfManager, TypeOK, w
    <3>2. holders'[native[g]] = holders[native[g]] /\ win'[native[g]] = win[native[g]]
      BY <1>13, <3>1 DEF Alive
    <3>. QED
      BY <1>5, <2>1, <3>1, <3>2
  <2>. QED
    BY <1>1, <2>1 DEF EntriesOfManager
<1>18. AttachedHaveEntries'
  <2>1. ASSUME NEW u \in Tasks, windows'[u] # 0, win'[windows'[u]].attached
        PROVE  native[win'[windows'[u]].handle] = windows'[u]
    <3>1. windows'[u] = windows[u] /\ windows[u] # w /\ win'[windows[u]] = win[windows[u]]
      BY <1>12, <1>14, <2>1
    <3>. QED
      BY <1>0, <2>1, <3>1 DEF AttachedHaveEntries, w
  <2>. QED
    BY <1>1, <2>1 DEF AttachedHaveEntries
<1>19. FoundAreHeld' /\ DrawnRight'
  <2>1. \A i \in render.found : i \in Ids
    BY <1>0 DEF TypeOK, RenderType
  <2>2. \A i \in Ids : "render" \in holders'[i] <=> "render" \in holders[i]
    BY <1>6
  <2>. QED
    BY <1>0, <1>1, <2>1, <2>2 DEF FoundAreHeld, DrawnRight
<1>20. LiveInv'
  BY <1>8, <1>9, <1>10, <1>11, <1>15, <1>16, <1>17, <1>18, <1>19 DEF LiveInv
<1>21. ToDoShown /\ NewHaveWindows /\ UpdatedHaveWindows /\ ShownAreDone /\ GoneAreRemoved
       /\ EraseExcused
  BY DEF IInv, FollowInv
<1>22. \A u : ~Making(u) /\ ~Making(u)'
  BY <1>1, <1>5 DEF Making
<1>23. t \notin io.tasks /\ (t \in io.new => t \in excused)
  BY <1>1, <1>21 DEF EraseExcused, t, w
<1>24. io.new \in SUBSET Tasks /\ io.tasks \in SUBSET Tasks
  BY <1>4 DEF IoType
<1>25. ToDoShown' /\ EraseExcused' /\ NewInPhase'
  BY <1>1, <1>5, <1>21 DEF ToDoShown, EraseExcused, NewInPhase, Shows
<1>26. UpdatedHaveWindows' /\ NewHaveWindows'
  BY <1>1, <1>5, <1>7, <1>21, <1>22, <1>23, <1>24 DEF UpdatedHaveWindows, NewHaveWindows
<1>27. ShownAreDone'
  BY <1>1, <1>5, <1>21 DEF ShownAreDone, Shows
<1>28. GoneAreRemoved'
  BY <1>1, <1>5, <1>12, <1>21, <1>22 DEF GoneAreRemoved, t, w
<1>29. WindowsFollowAndroid'
  BY <1>5 DEF WindowsFollowAndroid, MutexFree
<1>. QED
  BY <1>20, <1>25, <1>26, <1>27, <1>28, <1>29 DEF IInv, FollowInv

----------------------------------------------------------------------------
(* Every step keeps the invariant. *)
LEMMA NextIInv == IInv /\ [Next]_vars => IInv'
<1> SUFFICES ASSUME IInv, [Next]_vars PROVE IInv'
  OBVIOUS
<1>1. CASE Inputs
  BY <1>1, UpdatesIInv, EventIInv, SubmitIInv DEF Inputs, Surfaces
<1>2. CASE Io
  <2>1. CASE \E a \in AWindows : create_window(a) \/ create_window_fails(a) \/ release(a)
    BY <2>1, CreateIInv, CreateFailsIInv, ReleaseIInv
  <2>2. CASE \E works \in BOOLEAN : attach(works)
    BY <2>2, AttachIInv
  <2>3. CASE remove_task_times_out \/ UpdatesDone \/ EraseWindow \/ UpdateApplied
    BY <2>3, TimesOutIInv, UpdatesDoneIInv, EraseIInv, AppliedIInv
  <2>. QED
    BY <1>2, <2>1, <2>2, <2>3 DEF Io
<1>3. CASE Event
  <2>1. CASE CallThrows
    BY <2>1, StutterIInv DEF CallThrows
  <2>2. CASE \E answered \in BOOLEAN : CallReturns(answered)
    BY <2>2, ReturnsIInv
  <2>. QED
    BY <1>3, <2>1, <2>2 DEF Event
<1>4. CASE Render
  BY <1>4, FindIInv, DrawIInv, FrameDoneIInv DEF Render
<1>5. CASE UNCHANGED vars
  BY <1>5, StutterIInv DEF vars, faults
<1>. QED
  BY <1>1, <1>2, <1>3, <1>4, <1>5 DEF Next

LEMMA AlwaysIInv == Spec => []IInv
BY InitIInv, NextIInv, PTL DEF Spec

(* The renderer's table leads from a native handle to the window that has  *)
(* it, and that window exists, whatever update, event and frame interleave *)
(* and however often the window system gives a handle again.               *)
THEOREM EntriesOfLiveWindows == Spec => []NativeWindowsLive
<1>1. IInv => NativeWindowsLive
  BY DEF IInv, LiveInv, NativeWindowsLive, EntriesOfManager, AttachedHaveEntries, DrawnRight,
         Alive
<1>. QED
  BY <1>1, AlwaysIInv, PTL

(* Between two updates the window manager's map agrees with what Android   *)
(* shows, whichever windows came, went and lost their surface together.    *)
THEOREM MapAgreesWithAndroid == Spec => []WindowsFollowAndroid
<1>1. IInv => WindowsFollowAndroid
  BY DEF IInv, FollowInv
<1>. QED
  BY <1>1, AlwaysIInv, PTL
=============================================================================
