--------------------------- MODULE RendererProofs ---------------------------
(***************************************************************************)
(* The handle tables of the Renderer, for any render threads, any range of *)
(* handles and any order of the guests' calls, crashes of guests included. *)
(***************************************************************************)
EXTENDS Renderer, FiniteSetTheorems, WellFoundedInduction, TLAPS

MaybeHandle == Handles \cup {None}
CurrentType == [context : MaybeHandle, draw : MaybeHandle, read : MaybeHandle]

TypeOK ==
  /\ nextHandle \in 0 .. (HandleSpace - 1) /\ creates \in Nat
  /\ contexts \in SUBSET Handles /\ windows \in SUBSET Handles
  /\ count \in [Handles -> Nat]
  /\ thread \in [Threads -> {"running", "unbound", "drained", "exited"}]
  /\ contextSet \in [Threads -> SUBSET Handles] /\ windowSet \in [Threads -> SUBSET Handles]
  /\ current \in [Threads -> CurrentType]
  /\ bound \in [Handles -> MaybeHandle]
  /\ owner \in [Handles -> SUBSET Threads]

(* Each object of the tables is in the set of the thread that created it,  *)
(* and no handle is in two tables.                                         *)
Owned(h, sets) == \E t \in Threads : owner[h] = {t} /\ h \in sets[t]
ObjectsOwned ==
  /\ \A h \in contexts : Owned(h, contextSet)
  /\ \A h \in windows : Owned(h, windowSet)
  /\ contexts \cap windows = {}

(* What the end of a thread has done already. *)
EndSoFar == \A t \in Threads :
  /\ thread[t] # "running" => current[t] = NothingCurrent
  /\ thread[t] \in {"drained", "exited"} => windowSet[t] = {}
  /\ thread[t] = "exited" => contextSet[t] = {}

(* No object is current on two threads. *)
Uses(t) == {current[t].context, current[t].draw, current[t].read}
CurrentApart == \A t, u \in Threads : t # u => Uses(t) \cap Uses(u) \subseteq {None}

(* Before its counter wraps genHandle counts, and every handle in use is   *)
(* behind it.                                                              *)
HandlesBehind == HandlesFresh =>
  /\ nextHandle = creates
  /\ \A h \in contexts \cup windows : h <= creates
  /\ \A t \in Threads : \A h \in Uses(t) : h <= creates
DrawBound == HandlesFresh => \A t \in Threads :
  current[t].draw # None => bound[current[t].draw] = current[t].context

IInv == TypeOK /\ ObjectsOwned /\ EndSoFar /\ CurrentApart /\ HandlesBehind /\ DrawBound

----------------------------------------------------------------------------
(* A set of natural numbers that is not empty has its Min. *)
LEMMA MinIsLeast ==
  ASSUME NEW S \in SUBSET Nat, S # {}
  PROVE  Min(S) \in S /\ \A y \in S : Min(S) <= y
<1> DEFINE R == {ss \in Nat \X Nat : ss[1] < ss[2]}
<1>1. IsWellFoundedOn(R, Nat)
  BY NatLessThanWellFounded DEF OpToRel
<1>2. \E x \in S : \A y \in S : ~(<<y, x>> \in R)
  <2> HIDE DEF R
  <2>. QED
    BY <1>1, WFMin
<1>3. \E x \in S : \A y \in S : x <= y
  <2>1. PICK x \in S : \A y \in S : ~(<<y, x>> \in R)
    BY <1>2
  <2>2. ASSUME NEW y \in S PROVE x <= y
    <3>1. x \in Nat /\ y \in Nat /\ ~(<<y, x>> \in R)
      BY <2>1
    <3>2. <<y, x>> \in Nat \X Nat /\ <<y, x>>[1] = y /\ <<y, x>>[2] = x
      BY <3>1
    <3>3. ~(y < x)
      BY <3>1, <3>2
    <3>. QED
      BY <3>1, <3>3
  <2>. QED
    BY <2>2
<1>. QED
  BY <1>3 DEF Min

LEMMA HandleFacts ==
  /\ HandleSpace \in Nat /\ HandleSpace > 1
  /\ \A h : h \in Handles <=> h \in Nat /\ 1 <= h /\ h < HandleSpace
  /\ None \notin Handles /\ IsFiniteSet(Handles)
<1>1. HandleSpace \in Nat /\ HandleSpace > 1
  BY RendererAssumption
<1>2. \A h : h \in Handles <=> h \in Nat /\ 1 <= h /\ h < HandleSpace
  BY <1>1 DEF Handles
<1>3. IsFiniteSet(Handles)
  BY <1>1, FS_Interval DEF Handles
<1>. QED
  BY <1>1, <1>2, <1>3 DEF None

(* The mod of genHandle's counter. *)
LEMMA Wraps ==
  ASSUME NEW n \in Nat, n < HandleSpace
  PROVE  n % HandleSpace = n /\ (n + HandleSpace) % HandleSpace = n
BY HandleFacts

(* genHandle finds a handle that is neither a context's nor a window's,    *)
(* and before its counter wraps it is the next number.                     *)
LEMMA GenHandleFree ==
  ASSUME TypeOK, Handles \ (contexts \cup windows) # {}
  PROVE  /\ GenHandle \in Handles /\ GenHandle \notin contexts \cup windows
         /\ (nextHandle + 1 < HandleSpace /\ (\A h \in contexts \cup windows : h <= nextHandle))
              => GenHandle = nextHandle + 1
<1> DEFINE step(k) == (nextHandle + k) % HandleSpace
           free == {k \in 1 .. HandleSpace : step(k) # 0 /\ step(k) \notin contexts \cup windows}
<1>1. nextHandle \in Nat /\ nextHandle < HandleSpace /\ HandleSpace \in Nat
  BY HandleFacts DEF TypeOK
<1>2. \A k \in 1 .. HandleSpace : step(k) \in Nat /\ step(k) < HandleSpace
  BY <1>1, HandleFacts
<1>3. free # {}
  <2>1. PICK h \in Handles : h \notin contexts \cup windows
    OBVIOUS
  <2>2. h \in Nat /\ 1 <= h /\ h < HandleSpace
    BY <2>1, HandleFacts
  <2>3. CASE h > nextHandle
    <3>1. h - nextHandle \in 1 .. HandleSpace /\ nextHandle + (h - nextHandle) = h
      BY <1>1, <2>2, <2>3
    <3>2. step(h - nextHandle) = h
      BY <2>2, <3>1, Wraps
    <3>. QED
      BY <2>1, <2>2, <3>1, <3>2
  <2>4. CASE h <= nextHandle
    <3> DEFINE k == h + HandleSpace - nextHandle
    <3>1. k \in 1 .. HandleSpace /\ nextHandle + k = h + HandleSpace
      BY <1>1, <2>2, <2>4
    <3>2. step(k) = h
      BY <2>2, <3>1, Wraps
    <3>. QED
      BY <2>1, <2>2, <3>1, <3>2
  <2>. QED
    BY <1>1, <2>2, <2>3, <2>4
<1>4. Min(free) \in free /\ \A k \in free : Min(free) <= k
  <2>1. free \in SUBSET Nat
    BY <1>1
  <2> HIDE DEF free
  <2>. QED
    BY <1>3, <2>1, MinIsLeast
<1>5. GenHandle = step(Min(free))
  BY DEF GenHandle
<1>6. GenHandle \in Nat /\ GenHandle < HandleSpace /\ GenHandle # 0
      /\ GenHandle \notin contexts \cup windows
  BY <1>2, <1>4, <1>5
<1>7. GenHandle \in Handles
  BY <1>6, HandleFacts
<1>8. ASSUME nextHandle + 1 < HandleSpace, \A h \in contexts \cup windows : h <= nextHandle
      PROVE  GenHandle = nextHandle + 1
  <2>1. step(1) = nextHandle + 1
    BY <1>1, <1>8, Wraps
  <2>2. 1 \in free
    <3>1. nextHandle + 1 \notin contexts \cup windows
      BY <1>1, <1>8
    <3>. QED
      BY <1>1, <2>1, <3>1, HandleFacts
  <2>3. Min(free) = 1
    BY <1>1, <1>4, <2>2
  <2>. QED
    BY <1>5, <2>1, <2>3
<1>. QED
  BY <1>6, <1>7, <1>8

----------------------------------------------------------------------------
LEMMA InitIInv == Init => IInv
<1> SUFFICES ASSUME Init PROVE IInv
  OBVIOUS
<1>1. NothingCurrent \in CurrentType /\ NothingCurrent.context = 0
      /\ NothingCurrent.draw = 0 /\ NothingCurrent.read = 0
  BY DEF NothingCurrent, CurrentType, MaybeHandle, None
<1>2. TypeOK
  BY <1>1, HandleFacts DEF Init, TypeOK, MaybeHandle
<1>3. ObjectsOwned
  BY DEF Init, ObjectsOwned
<1>4. EndSoFar
  BY DEF Init, EndSoFar
<1>5. \A t \in Threads : current[t] = NothingCurrent /\ Uses(t) = {0} /\ current[t].draw = 0
  BY <1>1 DEF Init, Uses
<1>6. CurrentApart /\ HandlesBehind /\ DrawBound
  BY <1>5 DEF Init, CurrentApart, HandlesBehind, DrawBound, None
<1>. QED
  BY <1>2, <1>3, <1>4, <1>6 DEF IInv

(* The parts about the threads' current objects stay in a step that leaves *)
(* those alone.                                                            *)
LEMMA CurrentFrame ==
  ASSUME IInv, current' = current, creates' = creates, nextHandle' = nextHandle,
         bound' = bound,
         contexts' \subseteq contexts, windows' \subseteq windows
  PROVE  CurrentApart' /\ HandlesBehind' /\ DrawBound'
<1>0. CurrentApart /\ HandlesBehind /\ DrawBound
  BY DEF IInv
<1>1. \A t : Uses(t)' = Uses(t)
  BY DEF Uses
<1>2. HandlesFresh' <=> HandlesFresh
  BY DEF HandlesFresh
<1>3. CurrentApart'
  BY <1>0, <1>1 DEF CurrentApart
<1>4. HandlesBehind'
  BY <1>0, <1>1, <1>2 DEF HandlesBehind
<1>5. DrawBound'
  BY <1>0, <1>2 DEF DrawBound
<1>. QED
  BY <1>3, <1>4, <1>5

(* An object is created: what is known of its handle. *)
LEMMA NewIsFresh ==
  ASSUME IInv, NEW t \in Threads, CanCreate(t), NewHandle
  PROVE  /\ GenHandle \in Handles /\ GenHandle \notin contexts \cup windows
         /\ nextHandle' = GenHandle /\ creates' = creates + 1 /\ thread[t] = "running"
         /\ nextHandle' \in 0 .. (HandleSpace - 1) /\ creates' \in Nat
         /\ HandlesFresh' => HandlesFresh /\ GenHandle = creates + 1
<1>0. TypeOK /\ HandlesBehind
  BY DEF IInv
<1>1. GenHandle \in Handles /\ GenHandle \notin contexts \cup windows
      /\ ((nextHandle + 1 < HandleSpace /\ (\A h \in contexts \cup windows : h <= nextHandle))
              => GenHandle = nextHandle + 1)
  BY <1>0, GenHandleFree DEF CanCreate
<1>2. nextHandle' = GenHandle /\ creates' = creates + 1 /\ thread[t] = "running"
  BY DEF NewHandle, CanCreate
<1>3. creates \in Nat /\ creates' \in Nat /\ HandleSpace \in Nat
  BY <1>0, <1>2, HandleFacts DEF TypeOK
<1>4. GenHandle \in 0 .. (HandleSpace - 1)
  BY <1>1, HandleFacts
<1>5. HandlesFresh' => creates + 1 < HandleSpace /\ HandlesFresh
  BY <1>2, <1>3 DEF HandlesFresh
<1>6. HandlesFresh' => GenHandle = creates + 1
  BY <1>0, <1>1, <1>5 DEF HandlesBehind
<1>. QED
  BY <1>1, <1>2, <1>3, <1>4, <1>5, <1>6

(* The parts about current objects when one is created: its handle is      *)
(* current nowhere, so nothing bound is lost.                              *)
LEMMA CreateFrame ==
  ASSUME IInv, NEW t \in Threads, CanCreate(t), NewHandle, current' = current,
         \A h \in Handles : h # GenHandle => bound'[h] = bound[h],
         contexts' \subseteq contexts \cup {GenHandle},
         windows' \subseteq windows \cup {GenHandle}
  PROVE  CurrentApart' /\ HandlesBehind' /\ DrawBound'
<1>0. TypeOK /\ CurrentApart /\ HandlesBehind /\ DrawBound
  BY DEF IInv
<1>1. /\ GenHandle \in Handles /\ nextHandle' = GenHandle /\ creates' = creates + 1
      /\ HandlesFresh' => HandlesFresh /\ GenHandle = creates + 1
  BY NewIsFresh
<1>2. \A u : Uses(u)' = Uses(u)
  BY DEF Uses
<1>3. CurrentApart'
  BY <1>0, <1>2 DEF CurrentApart
<1>4. creates \in Nat
  BY <1>0 DEF TypeOK
<1>5. \A u \in Threads : Uses(u) \subseteq MaybeHandle /\ current[u].draw \in Uses(u)
                         /\ current[u].draw \in MaybeHandle
  BY <1>0 DEF TypeOK, CurrentType, Uses
<1>6. \A h \in MaybeHandle : h \in Nat
  BY HandleFacts DEF MaybeHandle, None
<1>7. HandlesBehind'
  <2>1. SUFFICES ASSUME HandlesFresh'
                 PROVE  /\ nextHandle' = creates'
                        /\ \A h \in contexts' \cup windows' : h <= creates'
                        /\ \A u \in Threads : \A h \in Uses(u) : h <= creates'
    BY <1>2 DEF HandlesBehind
  <2>2. /\ \A h \in contexts \cup windows : h <= creates
        /\ \A u \in Threads : \A h \in Uses(u) : h <= creates
        /\ GenHandle = creates + 1
    BY <1>0, <1>1, <2>1 DEF HandlesBehind
  <2>3. \A h \in contexts \cup windows : h \in Nat
    BY <1>0, HandleFacts DEF TypeOK
  <2>4. \A h \in contexts' \cup windows' : h <= creates'
    BY <1>1, <1>4, <2>2, <2>3
  <2>5. \A u \in Threads : \A h \in Uses(u) : h <= creates'
    BY <1>1, <1>4, <1>5, <1>6, <2>2
  <2>. QED
    BY <1>1, <2>2, <2>4, <2>5
<1>8. DrawBound'
  <2>1. SUFFICES ASSUME HandlesFresh', NEW u \in Threads, current[u].draw # None
                 PROVE  bound'[current[u].draw] = current[u].context
    BY DEF DrawBound
  <2>2. current[u].draw <= creates /\ GenHandle = creates + 1
    BY <1>0, <1>1, <1>5, <2>1 DEF HandlesBehind
  <2>3. current[u].draw \in Handles /\ current[u].draw # GenHandle
    BY <1>4, <1>5, <1>6, <2>1, <2>2 DEF MaybeHandle
  <2>4. bound[current[u].draw] = current[u].context
    BY <1>0, <1>1, <2>1 DEF DrawBound
  <2>. QED
    BY <2>3, <2>4
<1>. QED
  BY <1>3, <1>7, <1>8

LEMMA CreateColorBufferIInv ==
  ASSUME IInv, NEW t \in Threads, CreateColorBuffer(t)
  PROVE  IInv'
<1>0. TypeOK /\ ObjectsOwned /\ EndSoFar
  BY DEF IInv
<1>1. CanCreate(t) /\ NewHandle /\ count' = [count EXCEPT ![GenHandle] = 1]
      /\ UNCHANGED <<contexts, windows, thread, contextSet, windowSet, current, bound, owner>>
  BY DEF CreateColorBuffer, tableVars, threadVars
<1>2. GenHandle \in Handles /\ nextHandle' \in 0 .. (HandleSpace - 1) /\ creates' \in Nat
  BY <1>1, NewIsFresh
<1>3. TypeOK'
  <2>1. count' \in [Handles -> Nat]
    BY <1>0, <1>1, <1>2 DEF TypeOK
  <2>. QED
    BY <1>0, <1>1, <1>2, <2>1 DEF TypeOK
<1>4. ObjectsOwned' /\ EndSoFar'
  BY <1>0, <1>1 DEF ObjectsOwned, Owned, EndSoFar
<1>5. CurrentApart' /\ HandlesBehind' /\ DrawBound'
  <2>1. \A h \in Handles : h # GenHandle => bound'[h] = bound[h]
    BY <1>1
  <2>2. contexts' \subseteq contexts \cup {GenHandle} /\ windows' \subseteq windows \cup {GenHandle}
    BY <1>1
  <2>. QED
    BY <1>1, <2>1, <2>2, CreateFrame
<1>. QED
  BY <1>3, <1>4, <1>5 DEF IInv

LEMMA CreateContextIInv ==
  ASSUME IInv, NEW t \in Threads, CreateRenderContext(t)
  PROVE  IInv'
<1>0. TypeOK /\ ObjectsOwned /\ EndSoFar
  BY DEF IInv
<1>1. CanCreate(t) /\ NewHandle /\ contexts' = contexts \cup {GenHandle}
      /\ contextSet' = [contextSet EXCEPT ![t] = @ \cup {GenHandle}]
      /\ owner' = [owner EXCEPT ![GenHandle] = {t}]
      /\ UNCHANGED <<windows, count, thread, windowSet, current, bound>>
  BY DEF CreateRenderContext
<1>2. GenHandle \in Handles /\ nextHandle' \in 0 .. (HandleSpace - 1) /\ creates' \in Nat
      /\ GenHandle \notin contexts \cup windows /\ thread[t] = "running"
  BY <1>1, NewIsFresh
<1>3. CurrentApart' /\ HandlesBehind' /\ DrawBound'
  <2>1. \A h \in Handles : h # GenHandle => bound'[h] = bound[h]
    BY <1>1
  <2>2. contexts' \subseteq contexts \cup {GenHandle} /\ windows' \subseteq windows \cup {GenHandle}
    BY <1>1
  <2>. QED
    BY <1>1, <2>1, <2>2, CreateFrame
<1>4. PICK g \in Handles : g = GenHandle
  BY <1>2
<1>5. contexts' = contexts \cup {g} /\ g \notin contexts \cup windows
  BY <1>1, <1>2, <1>4
<1>6. /\ contextSet' \in [Threads -> SUBSET Handles]
      /\ contextSet'[t] = contextSet[t] \cup {g}
      /\ \A u \in Threads : u # t => contextSet'[u] = contextSet[u]
  BY <1>0, <1>1, <1>4 DEF TypeOK
<1>7. /\ owner' \in [Handles -> SUBSET Threads] /\ owner'[g] = {t}
      /\ \A h \in Handles : h # g => owner'[h] = owner[h]
  BY <1>0, <1>1, <1>4 DEF TypeOK
<1>8. UNCHANGED <<windows, count, thread, windowSet, current, bound>>
  BY <1>1
<1>9. TypeOK'
  BY <1>0, <1>2, <1>5, <1>6, <1>7, <1>8 DEF TypeOK
<1>10. ObjectsOwned'
  <2>1. \A h \in contexts \cup windows : h \in Handles /\ h # g
    BY <1>0, <1>5 DEF TypeOK
  <2>2. \A h \in contexts : Owned(h, contextSet)'
    BY <1>0, <1>6, <1>7, <2>1 DEF ObjectsOwned, Owned
  <2>3. Owned(g, contextSet)'
    BY <1>6, <1>7 DEF Owned
  <2>4. \A h \in windows : Owned(h, windowSet)'
    BY <1>0, <1>8, <1>7, <2>1 DEF ObjectsOwned, Owned
  <2>5. contexts \cap windows = {}
    BY <1>0 DEF ObjectsOwned
  <2>. QED
    BY <1>5, <1>8, <2>2, <2>3, <2>4, <2>5 DEF ObjectsOwned
<1>11. EndSoFar'
  BY <1>0, <1>2, <1>6, <1>8 DEF EndSoFar
<1>. QED
  BY <1>3, <1>9, <1>10, <1>11 DEF IInv

LEMMA CreateWindowIInv ==
  ASSUME IInv, NEW t \in Threads, CreateWindowSurface(t)
  PROVE  IInv'
<1>0. TypeOK /\ ObjectsOwned /\ EndSoFar
  BY DEF IInv
<1>1. CanCreate(t) /\ NewHandle /\ windows' = windows \cup {GenHandle}
      /\ windowSet' = [windowSet EXCEPT ![t] = @ \cup {GenHandle}]
      /\ owner' = [owner EXCEPT ![GenHandle] = {t}]
      /\ bound' = [bound EXCEPT ![GenHandle] = None]
      /\ UNCHANGED <<contexts, count, thread, contextSet, current>>
  BY DEF CreateWindowSurface
<1>2. GenHandle \in Handles /\ nextHandle' \in 0 .. (HandleSpace - 1) /\ creates' \in Nat
      /\ GenHandle \notin contexts \cup windows /\ thread[t] = "running"
  BY <1>1, NewIsFresh
<1>3. CurrentApart' /\ HandlesBehind' /\ DrawBound'
  <2>1. \A h \in Handles : h # GenHandle => bound'[h] = bound[h]
    BY <1>0, <1>1, <1>2 DEF TypeOK
  <2>2. contexts' \subseteq contexts \cup {GenHandle} /\ windows' \subseteq windows \cup {GenHandle}
    BY <1>1
  <2>. QED
    BY <1>1, <2>1, <2>2, CreateFrame
<1>4. PICK g \in Handles : g = GenHandle
  BY <1>2
<1>5. windows' = windows \cup {g} /\ g \notin contexts \cup windows
  BY <1>1, <1>2, <1>4
<1>6. /\ windowSet' \in [Threads -> SUBSET Handles]
      /\ windowSet'[t] = windowSet[t] \cup {g}
      /\ \A u \in Threads : u # t => windowSet'[u] = windowSet[u]
  BY <1>0, <1>1, <1>4 DEF TypeOK
<1>7. /\ owner' \in [Handles -> SUBSET Threads] /\ owner'[g] = {t}
      /\ \A h \in Handles : h # g => owner'[h] = owner[h]
  BY <1>0, <1>1, <1>4 DEF TypeOK
<1>8. UNCHANGED <<contexts, count, thread, contextSet, current>>
  BY <1>1
<1>9. bound' \in [Handles -> MaybeHandle]
  BY <1>0, <1>1, <1>2 DEF TypeOK, MaybeHandle
<1>10. TypeOK'
  BY <1>0, <1>2, <1>5, <1>6, <1>7, <1>8, <1>9 DEF TypeOK
<1>11. ObjectsOwned'
  <2>1. \A h \in contexts \cup windows : h \in Handles /\ h # g
    BY <1>0, <1>5 DEF TypeOK
  <2>2. \A h \in windows : Owned(h, windowSet)'
    BY <1>0, <1>6, <1>7, <2>1 DEF ObjectsOwned, Owned
  <2>3. Owned(g, windowSet)'
    BY <1>6, <1>7 DEF Owned
  <2>4. \A h \in contexts : Owned(h, contextSet)'
    BY <1>0, <1>8, <1>7, <2>1 DEF ObjectsOwned, Owned
  <2>5. contexts \cap windows = {}
    BY <1>0 DEF ObjectsOwned
  <2>. QED
    BY <1>5, <1>8, <2>2, <2>3, <2>4, <2>5 DEF ObjectsOwned
<1>12. EndSoFar'
  BY <1>0, <1>2, <1>6, <1>8 DEF EndSoFar
<1>. QED
  BY <1>3, <1>10, <1>11, <1>12 DEF IInv

(* Destroying, of whichever thread the object is. *)
LEMMA DestroyIInv ==
  ASSUME IInv, NEW t \in Threads, NEW h \in Handles,
         DestroyRenderContext(t, h) \/ DestroyWindowSurface(t, h)
  PROVE  IInv'
<1>0. TypeOK /\ ObjectsOwned /\ EndSoFar
  BY DEF IInv
<1>1. /\ UNCHANGED <<nextHandle, creates, count, thread, current, bound, owner>>
      /\ contexts' \subseteq contexts /\ windows' \subseteq windows
  BY DEF DestroyRenderContext, DestroyWindowSurface, guestVars
<1>2. CurrentApart' /\ HandlesBehind' /\ DrawBound'
  BY <1>1, CurrentFrame
<1>3. /\ contextSet' \in [Threads -> SUBSET Handles] /\ windowSet' \in [Threads -> SUBSET Handles]
      /\ \A u \in Threads : contextSet'[u] \subseteq contextSet[u]
                            /\ windowSet'[u] \subseteq windowSet[u]
      /\ \A u \in Threads : \A x \in contextSet[u] : x \in contexts' => x \in contextSet'[u]
      /\ \A u \in Threads : \A x \in windowSet[u] : x \in windows' => x \in windowSet'[u]
  <2>1. CASE DestroyRenderContext(t, h)
    <3>1. contextSet' = [contextSet EXCEPT ![t] = @ \ {h}] /\ contexts' = contexts \ {h}
          /\ windowSet' = windowSet
      BY <2>1 DEF DestroyRenderContext
    <3>2. contextSet' \in [Threads -> SUBSET Handles]
      BY <1>0, <3>1 DEF TypeOK
    <3>3. \A u \in Threads : contextSet'[u] = IF u = t THEN contextSet[u] \ {h} ELSE contextSet[u]
      BY <1>0, <3>1 DEF TypeOK
    <3>4. windowSet \in [Threads -> SUBSET Handles]
      BY <1>0 DEF TypeOK
    <3>. QED
      BY <3>1, <3>2, <3>3, <3>4
  <2>2. CASE DestroyWindowSurface(t, h)
    <3>1. windowSet' = [windowSet EXCEPT ![t] = @ \ {h}] /\ windows' = windows \ {h}
          /\ contextSet' = contextSet
      BY <2>2 DEF DestroyWindowSurface
    <3>2. windowSet' \in [Threads -> SUBSET Handles]
      BY <1>0, <3>1 DEF TypeOK
    <3>3. \A u \in Threads : windowSet'[u] = IF u = t THEN windowSet[u] \ {h} ELSE windowSet[u]
      BY <1>0, <3>1 DEF TypeOK
    <3>4. contextSet \in [Threads -> SUBSET Handles]
      BY <1>0 DEF TypeOK
    <3>. QED
      BY <3>1, <3>2, <3>3, <3>4
  <2>. QED
    BY <2>1, <2>2
<1>4. TypeOK'
  BY <1>0, <1>1, <1>3 DEF TypeOK
<1>5. ObjectsOwned'
  BY <1>0, <1>1, <1>3 DEF ObjectsOwned, Owned
<1>6. EndSoFar'
  <2>1. \A u \in Threads : contextSet[u] = {} => contextSet'[u] = {}
    BY <1>3
  <2>2. \A u \in Threads : windowSet[u] = {} => windowSet'[u] = {}
    BY <1>3
  <2>. QED
    BY <1>0, <1>1, <2>1, <2>2 DEF EndSoFar
<1>. QED
  BY <1>2, <1>4, <1>5, <1>6 DEF IInv

(* The steps on colour buffers touch only their counts. *)
LEMMA BuffersIInv ==
  ASSUME IInv, count' \in [Handles -> Nat],
         UNCHANGED <<nextHandle, creates, contexts, windows, threadVars, owner>>
  PROVE  IInv'
<1>0. TypeOK /\ ObjectsOwned /\ EndSoFar
  BY DEF IInv
<1>1. UNCHANGED <<nextHandle, creates, contexts, windows, thread, contextSet, windowSet, current,
                  bound, owner>>
  BY DEF threadVars
<1>2. CurrentApart' /\ HandlesBehind' /\ DrawBound'
  BY <1>1, CurrentFrame
<1>3. TypeOK'
  BY <1>0, <1>1 DEF TypeOK
<1>4. ObjectsOwned' /\ EndSoFar'
  BY <1>0, <1>1 DEF ObjectsOwned, Owned, EndSoFar
<1>. QED
  BY <1>2, <1>3, <1>4 DEF IInv

LEMMA CountsIInv ==
  ASSUME IInv, NEW t \in Threads, NEW h \in Handles,
         OpenColorBuffer(t, h) \/ CloseColorBuffer(t, h)
           \/ (\E w \in Handles : SetWindowSurfaceColorBuffer(t, w, h)) \/ UNCHANGED vars
  PROVE  IInv'
<1>0. count \in [Handles -> Nat]
  BY DEF IInv, TypeOK
<1>1. UNCHANGED <<nextHandle, creates, contexts, windows, threadVars, owner>>
  BY DEF OpenColorBuffer, CloseColorBuffer, SetWindowSurfaceColorBuffer, vars, tableVars,
         guestVars
<1>2. count' \in [Handles -> Nat]
  <2>1. CASE OpenColorBuffer(t, h)
    BY <1>0, <2>1 DEF OpenColorBuffer
  <2>2. CASE CloseColorBuffer(t, h)
    BY <1>0, <2>2 DEF CloseColorBuffer, HasColorBuffer
  <2>3. CASE (\E w \in Handles : SetWindowSurfaceColorBuffer(t, w, h)) \/ UNCHANGED vars
    BY <1>0, <2>3 DEF SetWindowSurfaceColorBuffer, vars
  <2>. QED
    BY <2>1, <2>2, <2>3
<1>. QED
  BY <1>1, <1>2, BuffersIInv

(* bindContext: what a thread binds is current on no other thread, so no   *)
(* other thread's surface loses its context.                               *)
LEMMA BindsFrame ==
  ASSUME IInv, NEW t \in Threads, NEW c \in MaybeHandle, NEW d \in MaybeHandle,
         NEW r \in MaybeHandle,
         {c, d, r} \subseteq contexts \cup windows \cup {None},
         EglMakesCurrent(t, c, d, r),
         Binds(t, [context |-> c, draw |-> d, read |-> r]),
         UNCHANGED <<nextHandle, creates, contexts, windows>>
  PROVE  /\ current' \in [Threads -> CurrentType] /\ bound' \in [Handles -> MaybeHandle]
         /\ current'[t] = [context |-> c, draw |-> d, read |-> r]
         /\ \A u \in Threads : u # t => current'[u] = current[u]
         /\ CurrentApart' /\ HandlesBehind' /\ DrawBound'
<1>0. TypeOK /\ CurrentApart /\ HandlesBehind /\ DrawBound
  BY DEF IInv
<1> DEFINE new == [context |-> c, draw |-> d, read |-> r]
<1>1. new \in CurrentType /\ new.context = c /\ new.draw = d /\ new.read = r
  BY DEF CurrentType
<1>2. /\ current' = [current EXCEPT ![t] = new]
      /\ bound' = [w \in Handles |->
                     IF w = d THEN c
                     ELSE IF d = None /\ w = current[t].draw THEN None ELSE bound[w]]
  BY <1>1 DEF Binds
<1> HIDE DEF new
<1>3. /\ current' \in [Threads -> CurrentType] /\ current'[t] = new
      /\ \A u \in Threads : u # t => current'[u] = current[u]
  BY <1>0, <1>1, <1>2 DEF TypeOK
<1>4. bound' \in [Handles -> MaybeHandle]
  BY <1>0, <1>2 DEF TypeOK, MaybeHandle
<1>5. Uses(t)' = {c, d, r} /\ \A u \in Threads : u # t => Uses(u)' = Uses(u)
  BY <1>1, <1>3 DEF Uses
<1>6. \A u \in Threads : u # t => {c, d, r} \cap Uses(u) \subseteq {None}
  BY DEF EglMakesCurrent, Uses
<1>7. CurrentApart'
  BY <1>0, <1>5, <1>6 DEF CurrentApart
<1>8. HandlesBehind'
  <2>1. HandlesFresh' <=> HandlesFresh
    BY DEF HandlesFresh
  <2>2. creates \in Nat /\ None <= creates
    BY <1>0 DEF TypeOK, None
  <2>3. SUFFICES ASSUME HandlesFresh
                 PROVE  \A u \in Threads : \A h \in Uses(u)' : h <= creates
    BY <1>0, <2>1 DEF HandlesBehind
  <2>4. \A h \in {c, d, r} : h <= creates
    BY <1>0, <2>2, <2>3 DEF HandlesBehind
  <2>. QED
    BY <1>0, <1>5, <2>3, <2>4 DEF HandlesBehind
<1>9. DrawBound'
  <2>1. HandlesFresh' <=> HandlesFresh
    BY DEF HandlesFresh
  <2>2. SUFFICES ASSUME HandlesFresh, NEW u \in Threads, current'[u].draw # None
                 PROVE  bound'[current'[u].draw] = current'[u].context
    BY <2>1 DEF DrawBound
  <2>3. CASE u = t
    <3>1. current'[u].draw = d /\ current'[u].context = c /\ d \in Handles
      BY <1>1, <1>3, <2>2, <2>3 DEF MaybeHandle
    <3>. QED
      BY <1>2, <3>1
  <2>4. CASE u # t
    <3>1. current'[u] = current[u] /\ current[u].draw # None
      BY <1>3, <2>2, <2>4
    <3>2. current[u].draw \in Handles
      BY <1>0, <3>1 DEF TypeOK, CurrentType, MaybeHandle
    <3>3. current[u].draw # d
      BY <1>6, <2>4, <3>1 DEF Uses
    <3>4. current[u].draw # current[t].draw
      BY <1>0, <2>4, <3>1 DEF CurrentApart, Uses
    <3>5. bound'[current[u].draw] = bound[current[u].draw]
      BY <1>2, <3>2, <3>3, <3>4
    <3>. QED
      BY <1>0, <2>2, <3>1, <3>5 DEF DrawBound
  <2>. QED
    BY <2>3, <2>4
<1>. QED
  BY <1>3, <1>4, <1>7, <1>8, <1>9 DEF new

(* Both ways to bind: the guest's call, and the end of its thread. *)
LEMMA BindIInv ==
  ASSUME IInv, NEW t \in Threads,
         ThreadUnbinds(t) \/ \E c, d, r \in Handles \cup {None} : BindContext(t, c, d, r)
  PROVE  IInv'
<1>0. TypeOK /\ ObjectsOwned /\ EndSoFar
  BY DEF IInv
<1>1. UNCHANGED <<nextHandle, creates, contexts, windows, count, contextSet, windowSet, owner>>
      /\ thread[t] = "running"
  BY DEF ThreadUnbinds, BindContext, tableVars, guestVars
<1>2. /\ current' \in [Threads -> CurrentType] /\ bound' \in [Handles -> MaybeHandle]
      /\ ThreadUnbinds(t) => current'[t] = NothingCurrent
      /\ \A u \in Threads : u # t => current'[u] = current[u]
      /\ CurrentApart' /\ HandlesBehind' /\ DrawBound'
  <2>1. CASE ThreadUnbinds(t)
    <3>1. EglMakesCurrent(t, None, None, None)
      BY DEF EglMakesCurrent
    <3>2. Binds(t, [context |-> None, draw |-> None, read |-> None])
      BY <2>1 DEF ThreadUnbinds, NothingCurrent
    <3>3. None \in MaybeHandle /\ {None, None, None} \subseteq contexts \cup windows \cup {None}
      BY DEF MaybeHandle
    <3>4. UNCHANGED <<nextHandle, creates, contexts, windows>>
      BY <1>1
    <3>. QED
      BY <3>1, <3>2, <3>3, <3>4, BindsFrame DEF NothingCurrent
  <2>2. CASE ~ThreadUnbinds(t)
    <3>1. PICK c, d, r \in MaybeHandle : BindContext(t, c, d, r)
      BY <2>2 DEF MaybeHandle
    <3>2. EglMakesCurrent(t, c, d, r)
          /\ Binds(t, [context |-> c, draw |-> d, read |-> r])
      BY <3>1 DEF BindContext
    <3>3. {c, d, r} \subseteq contexts \cup windows \cup {None}
      BY <3>1 DEF BindContext
    <3>4. UNCHANGED <<nextHandle, creates, contexts, windows>>
      BY <1>1
    <3>. QED
      BY <2>2, <3>2, <3>3, <3>4, BindsFrame
  <2>. QED
    BY <2>1, <2>2
<1>3. /\ thread' \in [Threads -> {"running", "unbound", "drained", "exited"}]
      /\ \A u \in Threads : u # t => thread'[u] = thread[u]
      /\ thread'[t] = "running" \/ (ThreadUnbinds(t) /\ thread'[t] = "unbound")
  BY <1>0, <1>1 DEF TypeOK, ThreadUnbinds, BindContext
<1>4. TypeOK'
  BY <1>0, <1>1, <1>2, <1>3 DEF TypeOK
<1>5. ObjectsOwned'
  BY <1>0, <1>1 DEF ObjectsOwned, Owned
<1>6. EndSoFar'
  <2>1. SUFFICES ASSUME NEW u \in Threads
                 PROVE  /\ thread'[u] # "running" => current'[u] = NothingCurrent
                        /\ thread'[u] \in {"drained", "exited"} => windowSet[u] = {}
                        /\ thread'[u] = "exited" => contextSet[u] = {}
    BY <1>1 DEF EndSoFar
  <2>2. CASE u = t
    BY <1>2, <1>3, <2>2
  <2>3. CASE u # t
    BY <1>0, <1>2, <1>3, <2>3 DEF EndSoFar
  <2>. QED
    BY <2>2, <2>3
<1>. QED
  BY <1>2, <1>4, <1>5, <1>6 DEF IInv

(* What drainWindowSurface drops of a buffer is at most its count. *)
LEMMA DropsBounded ==
  ASSUME TypeOK, NEW t \in Threads, NEW h \in Handles
  PROVE  /\ count[h] - Min({count[h], Drops(t, h)}) \in Nat
         /\ Min({count[h], Drops(t, h)}) \in Nat /\ Min({count[h], Drops(t, h)}) <= count[h]
<1>1. count[h] \in Nat
  BY DEF TypeOK
<1>2. Drops(t, h) \in Nat
  <2> DEFINE W == {w \in windowSet[t] \cap windows : attached[w] = h}
  <2>1. W \subseteq Handles
    BY DEF TypeOK
  <2>2. IsFiniteSet(W)
    BY <2>1, HandleFacts, FS_Subset, Zenon
  <2>. QED
    BY <2>2, FS_CardinalityType DEF Drops
<1> DEFINE m == Min({count[h], Drops(t, h)})
<1>3. m \in {count[h], Drops(t, h)} /\ \A y \in {count[h], Drops(t, h)} : m <= y
  <2>1. {count[h], Drops(t, h)} \in SUBSET Nat /\ {count[h], Drops(t, h)} # {}
    BY <1>1, <1>2
  <2>. QED
    BY <2>1, MinIsLeast
<1>4. m \in Nat /\ m <= count[h]
  BY <1>1, <1>2, <1>3
<1>. QED
  BY <1>1, <1>4

(* The end of a thread takes out of the tables only what is in its own     *)
(* sets, so what another thread created keeps its owner.                   *)
LEMMA DrainIInv ==
  ASSUME IInv, NEW t \in Threads, DrainWindowSurface(t) \/ DrainRenderContext(t)
  PROVE  IInv'
<1>0. TypeOK /\ ObjectsOwned /\ EndSoFar
  BY DEF IInv
<1>1. UNCHANGED <<nextHandle, creates, current, bound, owner>>
  BY DEF DrainWindowSurface, DrainRenderContext, guestVars
<1>2. contexts' \subseteq contexts /\ windows' \subseteq windows
  BY DEF DrainWindowSurface, DrainRenderContext
<1>3. CurrentApart' /\ HandlesBehind' /\ DrawBound'
  BY <1>1, <1>2, CurrentFrame
<1>4. count' \in [Handles -> Nat]
  <2>1. CASE DrainWindowSurface(t)
    <3>1. count' = [h \in Handles |-> count[h] - Min({count[h], Drops(t, h)})]
      BY <2>1 DEF DrainWindowSurface
    <3>2. \A h \in Handles : count[h] - Min({count[h], Drops(t, h)}) \in Nat
      BY <1>0, DropsBounded
    <3>. QED
      BY <3>1, <3>2
  <2>2. CASE DrainRenderContext(t)
    BY <1>0, <2>2 DEF DrainRenderContext, TypeOK
  <2>. QED
    BY <2>1, <2>2
<1>5. /\ thread[t] # "running" /\ thread' \in [Threads -> {"running", "unbound", "drained", "exited"}]
      /\ thread'[t] \in {"drained", "exited"}
      /\ thread'[t] = "exited" => DrainRenderContext(t)
      /\ \A u \in Threads : u # t => thread'[u] = thread[u]
  BY <1>0 DEF TypeOK, DrainWindowSurface, DrainRenderContext
<1>6. /\ windowSet' \in [Threads -> SUBSET Handles] /\ windowSet'[t] = {}
      /\ \A u \in Threads : u # t => windowSet'[u] = windowSet[u]
      /\ windows' = windows \ windowSet[t]
  <2>1. CASE DrainWindowSurface(t)
    BY <1>0, <2>1 DEF TypeOK, DrainWindowSurface
  <2>2. CASE DrainRenderContext(t)
    <3>1. windowSet[t] = {}
      BY <1>0, <2>2 DEF EndSoFar, DrainRenderContext
    <3>. QED
      BY <1>0, <2>2, <3>1 DEF TypeOK, DrainRenderContext
  <2>. QED
    BY <2>1, <2>2
<1>7. /\ contextSet' \in [Threads -> SUBSET Handles]
      /\ DrainRenderContext(t) => contextSet'[t] = {}
      /\ \A u \in Threads : u # t => contextSet'[u] = contextSet[u]
      /\ \A h \in contextSet[t] : h \in contexts' => h \in contextSet'[t]
  BY <1>0 DEF TypeOK, DrainWindowSurface, DrainRenderContext
<1>8. TypeOK'
  BY <1>0, <1>1, <1>2, <1>4, <1>5, <1>6, <1>7 DEF TypeOK
<1>9. ObjectsOwned'
  <2>1. ASSUME NEW h \in contexts' PROVE Owned(h, contextSet)'
    <3>1. PICK u \in Threads : owner[h] = {u} /\ h \in contextSet[u]
      BY <1>0, <1>2, <2>1 DEF ObjectsOwned, Owned
    <3>2. h \in contextSet'[u]
      BY <1>7, <2>1, <3>1
    <3>. QED
      BY <1>1, <3>1, <3>2 DEF Owned
  <2>2. ASSUME NEW h \in windows' PROVE Owned(h, windowSet)'
    <3>1. PICK u \in Threads : owner[h] = {u} /\ h \in windowSet[u]
      BY <1>0, <1>2, <2>2 DEF ObjectsOwned, Owned
    <3>2. h \in windowSet'[u]
      BY <1>6, <2>2, <3>1
    <3>. QED
      BY <1>1, <3>1, <3>2 DEF Owned
  <2>3. contexts' \cap windows' = {}
    BY <1>0, <1>2 DEF ObjectsOwned
  <2>. QED
    BY <2>1, <2>2, <2>3 DEF ObjectsOwned
<1>10. EndSoFar'
  <2>1. SUFFICES ASSUME NEW u \in Threads
                 PROVE  /\ thread'[u] # "running" => current[u] = NothingCurrent
                        /\ thread'[u] \in {"drained", "exited"} => windowSet'[u] = {}
                        /\ thread'[u] = "exited" => contextSet'[u] = {}
    BY <1>1 DEF EndSoFar
  <2>2. CASE u = t
    BY <1>0, <1>5, <1>6, <1>7, <2>2 DEF EndSoFar
  <2>3. CASE u # t
    BY <1>0, <1>5, <1>6, <1>7, <2>3 DEF EndSoFar
  <2>. QED
    BY <2>2, <2>3
<1>. QED
  BY <1>3, <1>8, <1>9, <1>10 DEF IInv

LEMMA NextIInv == IInv /\ [Next]_vars => IInv'
<1> SUFFICES ASSUME IInv, [Next]_vars PROVE IInv'
  OBVIOUS
<1>1. CASE UNCHANGED vars
  <2>1. UNCHANGED <<nextHandle, creates, contexts, windows, threadVars, owner>> /\ count' = count
    BY <1>1 DEF vars, tableVars, guestVars
  <2>2. count' \in [Handles -> Nat]
    BY <2>1 DEF IInv, TypeOK
  <2>. QED
    BY <2>1, <2>2, BuffersIInv
<1>2. CASE Next
  <2>1. PICK t \in Threads :
          \/ CreateColorBuffer(t) \/ CreateRenderContext(t) \/ CreateWindowSurface(t)
          \/ \E h \in Handles : \/ DestroyRenderContext(t, h) \/ DestroyWindowSurface(t, h)
                                \/ OpenColorBuffer(t, h) \/ CloseColorBuffer(t, h)
          \/ \E w, h \in Handles : SetWindowSurfaceColorBuffer(t, w, h)
          \/ \E c, d, r \in Handles \cup {None} : BindContext(t, c, d, r)
          \/ ThreadUnbinds(t) \/ DrainWindowSurface(t) \/ DrainRenderContext(t)
    BY <1>2 DEF Next
  <2>2. CASE CreateColorBuffer(t)
    BY <2>2, CreateColorBufferIInv
  <2>3. CASE CreateRenderContext(t)
    BY <2>3, CreateContextIInv
  <2>4. CASE CreateWindowSurface(t)
    BY <2>4, CreateWindowIInv
  <2>5. CASE \E h \in Handles : DestroyRenderContext(t, h) \/ DestroyWindowSurface(t, h)
    BY <2>5, DestroyIInv
  <2>6. CASE \E h \in Handles : OpenColorBuffer(t, h) \/ CloseColorBuffer(t, h)
    BY <2>6, CountsIInv
  <2>7. CASE \E w, h \in Handles : SetWindowSurfaceColorBuffer(t, w, h)
    <3>1. PICK h \in Handles : \E w \in Handles : SetWindowSurfaceColorBuffer(t, w, h)
      BY <2>7
    <3>. QED
      BY <3>1, CountsIInv
  <2>8. CASE ThreadUnbinds(t) \/ \E c, d, r \in Handles \cup {None} : BindContext(t, c, d, r)
    BY <2>8, BindIInv
  <2>9. CASE DrainWindowSurface(t) \/ DrainRenderContext(t)
    BY <2>9, DrainIInv
  <2>. QED
    BY <2>1, <2>2, <2>3, <2>4, <2>5, <2>6, <2>7, <2>8, <2>9
<1>. QED
  BY <1>1, <1>2

LEMMA AlwaysIInv == Spec => []IInv
BY InitIInv, NextIInv, PTL DEF Spec

(* Whatever guests did to each other's contexts and window surfaces before *)
(* they crashed, every object in the tables is still in the set of a       *)
(* thread whose drain will reach it, for any number of connections, and    *)
(* also after genHandle's 32-bit counter has wrapped.                      *)
THEOREM NothingLeaks == Spec => []DrainReachesAll
<1>1. IInv => DrainReachesAll
  BY DEF IInv, ObjectsOwned, Owned, DrainReachesAll
<1>. QED
  BY <1>1, AlwaysIInv, PTL

(* Until a handle is used again, the draw surface a thread has current is  *)
(* bound to its context whatever other threads bind, unbind or drain, and  *)
(* a thread that has ended leaves nothing current and nothing of its own.  *)
THEOREM FlushFindsContext == Spec => []CurrentSurfaceBound
<1>1. IInv => CurrentSurfaceBound
  <2>1. SUFFICES ASSUME IInv, HandlesFresh, NEW t \in Threads
                 PROVE  /\ current[t].draw # None => bound[current[t].draw] = current[t].context
                        /\ thread[t] = "exited" => /\ current[t] = NothingCurrent
                                                   /\ \A h \in contexts \cup windows : owner[h] # {t}
    BY DEF CurrentSurfaceBound
  <2>2. current[t].draw # None => bound[current[t].draw] = current[t].context
    BY <2>1 DEF IInv, DrawBound
  <2>3. ASSUME thread[t] = "exited"
        PROVE  current[t] = NothingCurrent /\ windowSet[t] = {} /\ contextSet[t] = {}
    BY <2>1, <2>3 DEF IInv, EndSoFar
  <2>4. ASSUME thread[t] = "exited", NEW h \in contexts \cup windows PROVE owner[h] # {t}
    <3>1. PICK u \in Threads : owner[h] = {u} /\ (h \in contextSet[u] \/ h \in windowSet[u])
      BY <2>1, <2>4 DEF IInv, ObjectsOwned, Owned
    <3>2. u # t
      BY <2>3, <2>4, <3>1
    <3>. QED
      BY <3>1, <3>2
  <2>. QED
    BY <2>2, <2>3, <2>4
<1>. QED
  BY <1>1, AlwaysIInv, PTL

----------------------------------------------------------------------------
(* The references of the clients to a buffer, for given numbers of them. *)
RefsIn(rf, h) == UNION {{t} \X (1 .. rf[t][h]) : t \in Threads}
RefsType == [Threads -> [Handles -> Nat]]

(* The members of RefsIn. *)
LEMMA RefsInMembers ==
  ASSUME NEW rf \in RefsType, NEW h \in Handles, NEW p
  PROVE  p \in RefsIn(rf, h) <=> \E t \in Threads : \E i \in 1 .. rf[t][h] : p = <<t, i>>
<1>1. ASSUME p \in RefsIn(rf, h)
      PROVE  \E t \in Threads : \E i \in 1 .. rf[t][h] : p = <<t, i>>
  <2>1. PICK t \in Threads : p \in {t} \X (1 .. rf[t][h])
    BY <1>1 DEF RefsIn
  <2>2. p[1] = t /\ p[2] \in 1 .. rf[t][h] /\ p = <<p[1], p[2]>>
    BY <2>1
  <2>. QED
    BY <2>2
<1>2. ASSUME NEW t \in Threads, NEW i \in 1 .. rf[t][h], p = <<t, i>>
      PROVE  p \in RefsIn(rf, h)
  <2>1. p \in {t} \X (1 .. rf[t][h])
    BY <1>2
  <2>. QED
    BY <2>1 DEF RefsIn
<1>. QED
  BY <1>1, <1>2

(* The clients hold finitely many references. *)
LEMMA RefsInFinite ==
  ASSUME NEW rf \in RefsType, NEW h \in Handles
  PROVE  IsFiniteSet(RefsIn(rf, h)) /\ Cardinality(RefsIn(rf, h)) \in Nat
<1> DEFINE C == {{t} \X (1 .. rf[t][h]) : t \in Threads}
           f == [t \in Threads |-> {t} \X (1 .. rf[t][h])]
<1>1. IsFiniteSet(Threads)
  BY RendererAssumption
<1>2. f \in Surjection(Threads, C)
  BY DEF Surjection
<1>3. IsFiniteSet(C)
  <2> HIDE DEF C, f
  <2>. QED
    BY <1>1, <1>2, FS_Surjection
<1>4. ASSUME NEW X \in C PROVE IsFiniteSet(X)
  <2>1. PICK t \in Threads : X = {t} \X (1 .. rf[t][h])
    OBVIOUS
  <2>2. rf[t][h] \in Nat
    BY DEF RefsType
  <2>3. IsFiniteSet(1 .. rf[t][h])
    BY <2>2, FS_Interval
  <2>4. IsFiniteSet({t})
    BY FS_Singleton
  <2>5. IsFiniteSet({t} \X (1 .. rf[t][h]))
    BY <2>3, <2>4, FS_Product
  <2>. QED
    BY <2>1, <2>5
<1>5. IsFiniteSet(UNION C)
  <2> HIDE DEF C
  <2>. QED
    BY <1>3, <1>4, FS_UNION
<1>6. IsFiniteSet(RefsIn(rf, h))
  BY <1>5 DEF RefsIn
<1>. QED
  BY <1>6, FS_CardinalityType

(* A client takes one more reference. *)
LEMMA OneMoreRef ==
  ASSUME NEW rf \in RefsType, NEW rg \in RefsType, NEW h \in Handles, NEW t \in Threads,
         rg[t][h] = rf[t][h] + 1,
         \A u \in Threads : u # t => rg[u][h] = rf[u][h]
  PROVE  Cardinality(RefsIn(rg, h)) = Cardinality(RefsIn(rf, h)) + 1
<1>0. \A u \in Threads : rf[u][h] \in Nat /\ rg[u][h] \in Nat
  BY DEF RefsType
<1> DEFINE x == <<t, rf[t][h] + 1>>
<1>1. x \notin RefsIn(rf, h)
  <2>1. ASSUME NEW u \in Threads, NEW i \in 1 .. rf[u][h], x = <<u, i>> PROVE FALSE
    <3>1. u = t /\ i = rf[t][h] + 1
      BY <2>1
    <3>. QED
      BY <1>0, <2>1, <3>1
  <2>. QED
    BY <2>1, RefsInMembers
<1>2. ASSUME NEW p PROVE p \in RefsIn(rg, h) <=> p \in RefsIn(rf, h) \cup {x}
  <2>1. ASSUME p \in RefsIn(rg, h) PROVE p \in RefsIn(rf, h) \cup {x}
    <3>1. PICK u \in Threads : \E i \in 1 .. rg[u][h] : p = <<u, i>>
      BY <2>1, RefsInMembers
    <3>2. PICK i \in 1 .. rg[u][h] : p = <<u, i>>
      BY <3>1
    <3>3. CASE u = t /\ i = rf[t][h] + 1
      BY <3>2, <3>3
    <3>4. CASE ~(u = t /\ i = rf[t][h] + 1)
      <4>1. i \in 1 .. rf[u][h]
        BY <1>0, <3>2, <3>4
      <4>. QED
        BY <3>2, <4>1, RefsInMembers
    <3>. QED
      BY <3>3, <3>4
  <2>2. ASSUME p \in RefsIn(rf, h) PROVE p \in RefsIn(rg, h)
    <3>1. PICK u \in Threads : \E i \in 1 .. rf[u][h] : p = <<u, i>>
      BY <2>2, RefsInMembers
    <3>2. PICK i \in 1 .. rf[u][h] : p = <<u, i>>
      BY <3>1
    <3>3. i \in 1 .. rg[u][h]
      BY <1>0, <3>2
    <3>. QED
      BY <3>2, <3>3, RefsInMembers
  <2>3. ASSUME p = x PROVE p \in RefsIn(rg, h)
    <3>1. rf[t][h] + 1 \in 1 .. rg[t][h]
      BY <1>0
    <3>. QED
      BY <2>3, <3>1, RefsInMembers
  <2>. QED
    BY <2>1, <2>2, <2>3
<1> HIDE DEF x
<1>3. RefsIn(rg, h) = RefsIn(rf, h) \cup {x}
  BY <1>2
<1>4. IsFiniteSet(RefsIn(rf, h))
  BY RefsInFinite
<1>. QED
  BY <1>1, <1>3, <1>4, FS_AddElement

(* Nobody has a reference. *)
LEMMA NoRefs ==
  ASSUME NEW rf \in RefsType, NEW h \in Handles, \A t \in Threads : rf[t][h] = 0
  PROVE  Cardinality(RefsIn(rf, h)) = 0
<1>1. ASSUME NEW p \in RefsIn(rf, h) PROVE FALSE
  <2>1. PICK t \in Threads : \E i \in 1 .. rf[t][h] : p = <<t, i>>
    BY RefsInMembers
  <2>. QED
    BY <2>1
<1>2. RefsIn(rf, h) = {}
  BY <1>1
<1>. QED
  BY <1>2, FS_EmptySet

(* References to a buffer depend on the numbers of that buffer only. *)
LEMMA SameRefs ==
  ASSUME NEW rf \in RefsType, NEW rg \in RefsType, NEW h \in Handles,
         \A t \in Threads : rf[t][h] = rg[t][h]
  PROVE  RefsIn(rf, h) = RefsIn(rg, h)
<1>1. ASSUME NEW p PROVE p \in RefsIn(rf, h) <=> p \in RefsIn(rg, h)
  BY RefsInMembers
<1>. QED
  BY <1>1

(* A buffer not created yet has no count and no references. *)
NotYetCreated == HandlesFresh => \A h \in Handles : h > creates =>
  count[h] = 0 /\ \A t \in Threads : refs[t][h] = 0
CountInv ==
  /\ refs \in RefsType /\ drained \in [Handles -> Nat]
  /\ NotYetCreated /\ CountExplained

(* CountExplained, by RefsIn. *)
Explained(ct, dr, rf, h) == ct[h] > 0 => ct[h] + dr[h] = Cardinality(RefsIn(rf, h))

(* Both readings of CountExplained are the same. *)
LEMMA ExplainedHere ==
  CountExplained <=> (HandlesFresh => \A h \in Handles : Explained(count, drained, refs, h))
BY DEF CountExplained, Explained, HasColorBuffer, References, RefsIn

(* The same in the next state. *)
LEMMA ExplainedNext ==
  CountExplained' <=> (HandlesFresh' => \A h \in Handles : Explained(count', drained', refs', h))
BY DEF CountExplained, Explained, HasColorBuffer, References, RefsIn

LEMMA InitCountInv == Init => CountInv
<1> SUFFICES ASSUME Init PROVE CountInv
  OBVIOUS
<1>1. refs \in RefsType /\ drained \in [Handles -> Nat]
  BY DEF Init, RefsType
<1>2. NotYetCreated
  BY DEF Init, NotYetCreated
<1>3. \A h \in Handles : ~HasColorBuffer(h)
  BY DEF Init, HasColorBuffer
<1>. QED
  BY <1>1, <1>2, <1>3 DEF CountInv, CountExplained

(* A step that leaves counts and references alone, and creates at most an  *)
(* object that is not a buffer.                                            *)
LEMMA CountFrame ==
  ASSUME IInv, CountInv, UNCHANGED <<count, refs, drained>>,
         creates' = creates \/ creates' = creates + 1
  PROVE  CountInv'
<1>0. creates \in Nat /\ HandleSpace \in Nat
  BY HandleFacts DEF IInv, TypeOK
<1>1. HandlesFresh' => HandlesFresh
  BY <1>0 DEF HandlesFresh
<1>2. NotYetCreated'
  BY <1>0, <1>1, HandleFacts DEF NotYetCreated, CountInv
<1>3. CountExplained'
  <2>1. \A h : References(h)' = References(h) /\ (HasColorBuffer(h)' <=> HasColorBuffer(h))
    BY DEF References, HasColorBuffer
  <2>. QED
    BY <1>1, <2>1 DEF CountExplained, CountInv
<1>. QED
  BY <1>2, <1>3 DEF CountInv

(* rcCreateColorBuffer: the creator holds the first reference, and nobody  *)
(* held one under a handle that was never given out.                       *)
LEMMA CreateCountInv ==
  ASSUME IInv, CountInv, NEW t \in Threads, CreateColorBuffer(t)
  PROVE  CountInv'
<1>0. TypeOK /\ CanCreate(t) /\ NewHandle
  BY DEF IInv, CreateColorBuffer
<1>1. /\ GenHandle \in Handles /\ creates' = creates + 1
      /\ HandlesFresh' => HandlesFresh /\ GenHandle = creates + 1
  BY <1>0, NewIsFresh
<1>2. PICK g \in Handles : g = GenHandle
  BY <1>1
<1>3. /\ count' = [count EXCEPT ![g] = 1] /\ drained' = [drained EXCEPT ![g] = 0]
      /\ refs' = [refs EXCEPT ![t][g] = 1]
  BY <1>2 DEF CreateColorBuffer
<1>4. /\ count \in [Handles -> Nat] /\ refs \in RefsType /\ drained \in [Handles -> Nat]
      /\ creates \in Nat
  BY <1>0 DEF TypeOK, CountInv
<1>5. /\ count'[g] = 1 /\ drained'[g] = 0
      /\ \A h \in Handles : h # g => count'[h] = count[h] /\ drained'[h] = drained[h]
      /\ drained' \in [Handles -> Nat]
  BY <1>3, <1>4
<1>6. /\ refs' \in RefsType /\ refs'[t][g] = 1
      /\ \A u \in Threads : \A h \in Handles : u # t \/ h # g => refs'[u][h] = refs[u][h]
  BY <1>3, <1>4 DEF RefsType
<1>7. HandlesFresh' => HandlesFresh /\ g = creates + 1
  BY <1>1, <1>2
<1>8. NotYetCreated'
  <2>1. SUFFICES ASSUME HandlesFresh', NEW h \in Handles, h > creates'
                 PROVE  count'[h] = 0 /\ \A u \in Threads : refs'[u][h] = 0
    BY DEF NotYetCreated
  <2>2. h \in Nat /\ h > creates /\ h # g
    BY <1>1, <1>4, <1>7, <2>1, HandleFacts
  <2>3. count[h] = 0 /\ \A u \in Threads : refs[u][h] = 0
    BY <1>7, <2>1, <2>2 DEF CountInv, NotYetCreated
  <2>. QED
    BY <1>5, <1>6, <2>2, <2>3
<1>9. CountExplained'
  <2>1. SUFFICES ASSUME HandlesFresh', NEW h \in Handles
                 PROVE  Explained(count', drained', refs', h)
    BY ExplainedNext
  <2>2. CASE h = g
    <3>1. \A u \in Threads : refs[u][g] = 0
      BY <1>4, <1>7, <2>1 DEF CountInv, NotYetCreated
    <3>2. Cardinality(RefsIn(refs, g)) = 0
      BY <1>4, <3>1, NoRefs
    <3>3. refs'[t][g] = refs[t][g] + 1 /\ \A u \in Threads : u # t => refs'[u][g] = refs[u][g]
      BY <1>6, <3>1
    <3>4. Cardinality(RefsIn(refs', g)) = Cardinality(RefsIn(refs, g)) + 1
      BY <1>4, <1>6, <3>3, OneMoreRef
    <3>. QED
      BY <1>5, <2>2, <3>2, <3>4 DEF Explained
  <2>3. CASE h # g
    <3>1. RefsIn(refs', h) = RefsIn(refs, h)
      BY <1>4, <1>6, <2>3, SameRefs
    <3>2. Explained(count, drained, refs, h)
      BY <1>7, <2>1, ExplainedHere DEF CountInv
    <3>. QED
      BY <1>5, <2>3, <3>1, <3>2 DEF Explained
  <2>. QED
    BY <2>2, <2>3
<1>. QED
  BY <1>5, <1>6, <1>8, <1>9 DEF CountInv

(* rcOpenColorBuffer and rcCloseColorBuffer: the count moves with the      *)
(* client's references, as long as there is an entry.                      *)
LEMMA OpenCloseCountInv ==
  ASSUME IInv, CountInv, NEW t \in Threads, NEW g \in Handles,
         OpenColorBuffer(t, g) \/ CloseColorBuffer(t, g)
  PROVE  CountInv'
<1>0. TypeOK
  BY DEF IInv
<1>1. UNCHANGED <<creates, drained>>
  BY DEF OpenColorBuffer, CloseColorBuffer
<1>2. /\ count \in [Handles -> Nat] /\ refs \in RefsType /\ drained \in [Handles -> Nat]
      /\ creates \in Nat /\ \A u \in Threads : \A h \in Handles : refs[u][h] \in Nat
  BY <1>0 DEF TypeOK, CountInv, RefsType
<1>3. PICK i \in Nat : refs' = [refs EXCEPT ![t][g] = i]
  <2>1. CASE OpenColorBuffer(t, g)
    <3>1. refs' = [refs EXCEPT ![t][g] = refs[t][g] + 1] /\ refs[t][g] + 1 \in Nat
      BY <1>2, <2>1 DEF OpenColorBuffer
    <3>. QED
      BY <3>1
  <2>2. CASE CloseColorBuffer(t, g)
    <3>1. refs' = [refs EXCEPT ![t][g] = refs[t][g] - 1] /\ refs[t][g] - 1 \in Nat
      BY <1>2, <2>2 DEF CloseColorBuffer
    <3>. QED
      BY <3>1
  <2>. QED
    BY <2>1, <2>2
<1>4. PICK n \in Nat : count' = [count EXCEPT ![g] = n]
  <2>1. CASE OpenColorBuffer(t, g)
    <3>1. count' = [count EXCEPT ![g] = count[g] + 1] /\ count[g] + 1 \in Nat
      BY <1>2, <2>1 DEF OpenColorBuffer
    <3>. QED
      BY <3>1
  <2>2. CASE CloseColorBuffer(t, g)
    <3>1. count' = [count EXCEPT ![g] = IF count[g] > 0 THEN count[g] - 1 ELSE 0]
      BY <1>2, <2>2 DEF CloseColorBuffer, HasColorBuffer
    <3>2. (IF count[g] > 0 THEN count[g] - 1 ELSE 0) \in Nat
      BY <1>2
    <3>. QED
      BY <3>1, <3>2
  <2>. QED
    BY <2>1, <2>2
<1>5. /\ refs' \in RefsType /\ refs'[t][g] = i
      /\ \A u \in Threads : \A h \in Handles : u # t \/ h # g => refs'[u][h] = refs[u][h]
  BY <1>2, <1>3 DEF RefsType
<1>6. count'[g] = n /\ \A h \in Handles : h # g => count'[h] = count[h]
  BY <1>2, <1>4
<1>7. \/ count[g] > 0 /\ refs'[t][g] = refs[t][g] + 1 /\ count'[g] = count[g] + 1
      \/ /\ refs[t][g] > 0 /\ refs[t][g] = refs'[t][g] + 1
         /\ count'[g] > 0 => count[g] = count'[g] + 1
  <2>1. CASE OpenColorBuffer(t, g)
    BY <1>2, <2>1 DEF OpenColorBuffer, HasColorBuffer, RefsType
  <2>2. CASE CloseColorBuffer(t, g)
    <3>1. refs[t][g] > 0 /\ refs'[t][g] = refs[t][g] - 1
      BY <1>2, <2>2 DEF CloseColorBuffer, RefsType
    <3>2. count'[g] = (IF count[g] > 0 THEN count[g] - 1 ELSE 0)
      BY <1>2, <2>2 DEF CloseColorBuffer, HasColorBuffer
    <3>. QED
      BY <1>2, <3>1, <3>2
  <2>. QED
    BY <2>1, <2>2
<1>8. HandlesFresh' <=> HandlesFresh
  BY <1>1 DEF HandlesFresh
<1>9. NotYetCreated'
  <2>1. SUFFICES ASSUME HandlesFresh, NEW h \in Handles, h > creates
                 PROVE  count'[h] = 0 /\ \A u \in Threads : refs'[u][h] = 0
    BY <1>1, <1>8 DEF NotYetCreated
  <2>2. count[h] = 0 /\ \A u \in Threads : refs[u][h] = 0
    BY <2>1 DEF CountInv, NotYetCreated
  <2>3. h # g
    BY <1>2, <1>7, <2>2
  <2>. QED
    BY <1>5, <1>6, <2>2, <2>3
<1>10. CountExplained'
  <2>1. SUFFICES ASSUME HandlesFresh, NEW h \in Handles
                 PROVE  Explained(count', drained, refs', h)
    BY <1>1, <1>8, ExplainedNext
  <2>2. Explained(count, drained, refs, h)
    BY <2>1, ExplainedHere DEF CountInv
  <2>3. CASE h # g
    <3>1. RefsIn(refs', h) = RefsIn(refs, h)
      BY <1>2, <1>5, <2>3, SameRefs
    <3>. QED
      BY <1>6, <2>2, <2>3, <3>1 DEF Explained
  <2>4. CASE h = g
    <3>1. Cardinality(RefsIn(refs, g)) \in Nat /\ Cardinality(RefsIn(refs', g)) \in Nat
      BY <1>2, <1>5, RefsInFinite
    <3>2. \A u \in Threads : u # t => refs'[u][g] = refs[u][g]
      BY <1>5
    <3>3. CASE refs'[t][g] = refs[t][g] + 1 /\ count[g] > 0 /\ count'[g] = count[g] + 1
      <4>1. Cardinality(RefsIn(refs', g)) = Cardinality(RefsIn(refs, g)) + 1
        BY <1>2, <1>5, <3>2, <3>3, OneMoreRef
      <4>. QED
        BY <1>2, <2>2, <2>4, <3>1, <3>3, <4>1 DEF Explained
    <3>4. CASE refs[t][g] = refs'[t][g] + 1 /\ (count'[g] > 0 => count[g] = count'[g] + 1)
      <4>1. \A u \in Threads : u # t => refs[u][g] = refs'[u][g]
        BY <3>2
      <4>2. Cardinality(RefsIn(refs, g)) = Cardinality(RefsIn(refs', g)) + 1
        BY <1>2, <1>5, <3>4, <4>1, OneMoreRef
      <4>3. count'[g] \in Nat /\ drained[g] \in Nat /\ count[g] \in Nat
        BY <1>2, <1>6
      <4>. QED
        BY <2>2, <2>4, <3>1, <3>4, <4>2, <4>3 DEF Explained
    <3>. QED
      BY <1>7, <3>3, <3>4
  <2>. QED
    BY <2>3, <2>4
<1>. QED
  BY <1>1, <1>2, <1>5, <1>9, <1>10 DEF CountInv

(* drainWindowSurface: what the count loses the history records. *)
LEMMA DrainCountInv ==
  ASSUME IInv, CountInv, NEW t \in Threads, DrainWindowSurface(t)
  PROVE  CountInv'
<1>0. TypeOK
  BY DEF IInv
<1> DEFINE m(h) == Min({count[h], Drops(t, h)})
<1>1. /\ count' = [h \in Handles |-> count[h] - m(h)]
      /\ drained' = [h \in Handles |-> drained[h] + m(h)]
      /\ UNCHANGED <<creates, refs>>
  BY DEF DrainWindowSurface
<1>2. ASSUME NEW h \in Handles PROVE m(h) \in Nat /\ m(h) <= count[h]
  BY <1>0, DropsBounded
<1> HIDE DEF m
<1>3. /\ count \in [Handles -> Nat] /\ refs \in RefsType /\ drained \in [Handles -> Nat]
  BY <1>0 DEF TypeOK, CountInv
<1>4. drained' \in [Handles -> Nat]
  BY <1>1, <1>2, <1>3
<1>5. \A h \in Handles : /\ count[h] \in Nat /\ drained[h] \in Nat
                         /\ count'[h] \in Nat /\ count'[h] <= count[h]
                         /\ count'[h] + drained'[h] = count[h] + drained[h]
  BY <1>1, <1>2, <1>3
<1>6. HandlesFresh' <=> HandlesFresh
  BY <1>1 DEF HandlesFresh
<1>7. NotYetCreated'
  BY <1>1, <1>5, <1>6 DEF NotYetCreated, CountInv
<1>8. CountExplained'
  <2>1. SUFFICES ASSUME HandlesFresh, NEW h \in Handles
                 PROVE  Explained(count', drained', refs, h)
    BY <1>1, <1>6, ExplainedNext
  <2>2. Explained(count, drained, refs, h)
    BY <2>1, ExplainedHere DEF CountInv
  <2>. QED
    BY <1>5, <2>2 DEF Explained
<1>. QED
  BY <1>1, <1>3, <1>4, <1>7, <1>8 DEF CountInv

(* Every step of the threads. *)
LEMMA NextCountInv == IInv /\ CountInv /\ [Next]_vars => CountInv'
<1> SUFFICES ASSUME IInv, CountInv, [Next]_vars PROVE CountInv'
  OBVIOUS
<1>1. CASE UNCHANGED vars
  <2>1. UNCHANGED <<count, refs, drained>> /\ creates' = creates
    BY <1>1 DEF vars, guestVars
  <2>. QED
    BY <2>1, CountFrame
<1>2. CASE Next
  <2>1. PICK t \in Threads :
          \/ CreateColorBuffer(t) \/ CreateRenderContext(t) \/ CreateWindowSurface(t)
          \/ \E h \in Handles : \/ DestroyRenderContext(t, h) \/ DestroyWindowSurface(t, h)
                                \/ OpenColorBuffer(t, h) \/ CloseColorBuffer(t, h)
          \/ \E w, h \in Handles : SetWindowSurfaceColorBuffer(t, w, h)
          \/ \E c, d, r \in Handles \cup {None} : BindContext(t, c, d, r)
          \/ ThreadUnbinds(t) \/ DrainWindowSurface(t) \/ DrainRenderContext(t)
    BY <1>2 DEF Next
  <2>2. CASE CreateColorBuffer(t)
    BY <2>2, CreateCountInv
  <2>3. CASE CreateRenderContext(t) \/ CreateWindowSurface(t)
    <3>1. UNCHANGED <<count, refs, drained>> /\ creates' = creates + 1
      BY <2>3 DEF CreateRenderContext, CreateWindowSurface, NewHandle
    <3>. QED
      BY <3>1, CountFrame
  <2>4. CASE \E h \in Handles : OpenColorBuffer(t, h) \/ CloseColorBuffer(t, h)
    BY <2>4, OpenCloseCountInv
  <2>5. CASE DrainWindowSurface(t)
    BY <2>5, DrainCountInv
  <2>6. CASE \/ \E h \in Handles : DestroyRenderContext(t, h) \/ DestroyWindowSurface(t, h)
             \/ \E w, h \in Handles : SetWindowSurfaceColorBuffer(t, w, h)
             \/ \E c, d, r \in Handles \cup {None} : BindContext(t, c, d, r)
             \/ ThreadUnbinds(t) \/ DrainRenderContext(t)
    <3>1. UNCHANGED <<count, refs, drained>> /\ creates' = creates
      BY <2>6 DEF DestroyRenderContext, DestroyWindowSurface, SetWindowSurfaceColorBuffer,
                  BindContext, ThreadUnbinds, DrainRenderContext, guestVars
    <3>. QED
      BY <3>1, CountFrame
  <2>. QED
    BY <2>1, <2>2, <2>3, <2>4, <2>5, <2>6
<1>. QED
  BY <1>1, <1>2

(* Until a handle is used again, the count of a colour buffer is what all  *)
(* clients hold less what the end of threads dropped for them, for any     *)
(* number of connections: opening, closing and draining neither leak a     *)
(* reference nor take the count below zero.                                *)
THEOREM ReferencesExplained == Spec => []CountExplained
<1>1. CountInv => CountExplained
  BY DEF CountInv
<1>. QED
  BY <1>1, AlwaysIInv, InitCountInv, NextCountInv, PTL DEF Spec
=============================================================================
