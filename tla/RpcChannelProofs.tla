-------------------------- MODULE RpcChannelProofs --------------------------
(***************************************************************************)
(* The safety of remote calls, for any finite set of calls, any sharing of *)
(* WaitHandles the stubs do, any number of message ids and any             *)
(* interleaving of the callers, the I/O thread and the peer; and of the    *)
(* framing below them, for any number of senders, any messages whose size  *)
(* fits into the header, and any cuts that reads and writes make.          *)
(***************************************************************************)
EXTENDS RpcChannel, MessageFraming, FiniteSetTheorems, SequenceTheorems, TLAPS

PcValues == {"idle", "refused", "loadId", "storeId", "save", "send", "wait",
             "returned", "timedOut", "gaveUp", "failed"}

TypeOK ==
  /\ channelSet \in BOOLEAN
  /\ pc \in [Calls -> PcValues]
  /\ nextId \in Ids /\ id \in [Calls -> Ids]
  /\ pending \in [Ids -> Calls \cup {NoCall}]
  /\ expecting \in [Handles -> Nat] /\ received \in [Handles -> Nat]
  /\ requests \in Seq(Ids) /\ answers \in Seq(Ids)
  /\ peer \in {"up", "down"}
  /\ reader \in {"reading", "completing", "stuck", "closed"}
  /\ runs \in [Calls -> {0, 1}]

(* The calls that have an id, and those whose entry was made. *)
HasId(c) == pc[c] \notin {"idle", "refused", "loadId"}
Saved(c) == HasId(c) /\ pc[c] \notin {"storeId", "save"}

(* An entry of pending_calls_ is at the id of its call, whose closure has  *)
(* not run; a closure has run only after its entry was made.               *)
EntriesUnrun ==
  /\ \A i \in Ids : pending[i] # NoCall =>
       id[pending[i]] = i /\ Saved(pending[i]) /\ runs[pending[i]] = 0
  /\ \A c \in Calls : runs[c] = 1 => Saved(c)

(* The calls of a handle that expect a result, and those that have it. *)
Expected(h) == {c \in Calls : HandleOf[c] = h /\ pc[c] \notin {"idle", "refused"}}
Ran(h) == {c \in Calls : HandleOf[c] = h /\ runs[c] = 1}

(* wait_for_all has reset the handle: its only call is over. *)
Reset(h) == \E c \in Calls \ Timed : HandleOf[c] = h /\ pc[c] = "returned"

(* The counters of a WaitHandle count its calls. *)
HandlesCount ==
  \A h \in Handles : ~Reset(h) =>
    expecting[h] = Cardinality(Expected(h)) /\ received[h] = Cardinality(Ran(h))

ReturnedRan == \A c \in Calls : pc[c] = "returned" => runs[c] = 1

(* No two calls have the same id, and no send has failed. *)
NoClash == /\ \A c, d \in Calls : HasId(c) /\ HasId(d) /\ id[c] = id[d] => c = d
           /\ \A c \in Calls : pc[c] # "failed"

(* An id on the wire is that of a call that was sent. *)
Sent(i) == \E c \in Calls : Saved(c) /\ pc[c] # "send" /\ id[c] = i

(* Without a clash each id is on the wire once, on one of its two ways,    *)
(* and its entry is there until the answer has been handled.               *)
WireHasEntries ==
  /\ \A k \in DOMAIN requests : Sent(requests[k]) /\ pending[requests[k]] # NoCall
  /\ \A k \in DOMAIN answers : Sent(answers[k]) /\ pending[answers[k]] # NoCall
  /\ \A k, l \in DOMAIN requests : requests[k] = requests[l] => k = l
  /\ \A k, l \in DOMAIN answers : answers[k] = answers[l] => k = l
  /\ \A k \in DOMAIN requests, l \in DOMAIN answers : requests[k] # answers[l]
  /\ \A c \in Calls : pc[c] = "send" => pending[id[c]] = c

NoClashNoStuck == NoClash => reader # "stuck" /\ WireHasEntries

Completing == reader = "completing" => answers # << >>

IInv == /\ TypeOK /\ EntriesUnrun /\ HandlesCount /\ ReturnedRan /\ NoClashNoStuck
        /\ Completing /\ FalseSuccessIsShared

----------------------------------------------------------------------------
(* The initial state satisfies the invariant. *)
LEMMA InitIInv == Init => IInv
<1> SUFFICES ASSUME Init PROVE IInv
  OBVIOUS
<1> USE RpcAssumption DEF Init
<1>1. TypeOK
  <2>1. 0 \in Ids /\ << >> \in Seq(Ids)
    BY DEF Ids
  <2>. QED
    BY <2>1 DEF TypeOK, PcValues
<1>2. EntriesUnrun /\ ReturnedRan /\ Completing /\ FalseSuccessIsShared
  BY DEF EntriesUnrun, ReturnedRan, Completing, FalseSuccessIsShared
<1>3. HandlesCount
  <2>1. \A h \in Handles : Expected(h) = {} /\ Ran(h) = {}
    BY DEF Expected, Ran
  <2>. QED
    BY <2>1, FS_EmptySet DEF HandlesCount
<1>4. NoClashNoStuck
  BY DEF NoClashNoStuck, WireHasEntries
<1>. QED
  BY <1>1, <1>2, <1>3, <1>4 DEF IInv

(* The calls of a handle are finitely many. *)
LEMMA HandleFinite ==
  ASSUME NEW h
  PROVE  /\ IsFiniteSet(Expected(h)) /\ Cardinality(Expected(h)) \in Nat
         /\ IsFiniteSet(Ran(h)) /\ Cardinality(Ran(h)) \in Nat
<1>1. Expected(h) \in SUBSET Calls /\ Ran(h) \in SUBSET Calls
  BY DEF Expected, Ran
<1>2. IsFiniteSet(Expected(h)) /\ IsFiniteSet(Ran(h))
  BY <1>1, RpcAssumption, FS_Subset
<1>. QED
  BY <1>2, FS_CardinalityType

(* A step that starts and completes no call leaves the counters right. *)
LEMMA CountsFrame ==
  ASSUME HandlesCount, expecting' = expecting, received' = received, runs' = runs,
         \A c \in Calls : pc'[c] \in {"idle", "refused"} <=> pc[c] \in {"idle", "refused"},
         \A h \in Handles : Reset(h) => Reset(h)'
  PROVE  HandlesCount'
<1>1. \A h \in Handles : Expected(h)' = Expected(h) /\ Ran(h)' = Ran(h)
  BY DEF Expected, Ran
<1>. QED
  BY <1>1 DEF HandlesCount

(* Running the closures of calls that had none run: each is counted once   *)
(* on the handle of its call.                                              *)
LEMMA RunOnce ==
  ASSUME TypeOK, HandlesCount, NEW S \in SUBSET Calls, \A c \in S : runs[c] = 0,
         RunClosures(S)
  PROVE  /\ runs' \in [Calls -> {0, 1}] /\ received' \in [Handles -> Nat]
         /\ \A c \in Calls : runs'[c] = IF c \in S THEN 1 ELSE runs[c]
         /\ \A h \in Handles : received[h] = Cardinality(Ran(h)) =>
              received'[h] = Cardinality(Ran(h)')
<1>1. \A c \in Calls : runs[c] \in {0, 1} /\ runs'[c] = IF c \in S THEN runs[c] + 1 ELSE runs[c]
  BY DEF TypeOK, RunClosures
<1>2. \A c \in Calls : runs'[c] = IF c \in S THEN 1 ELSE runs[c]
  BY <1>1
<1>3. runs' \in [Calls -> {0, 1}]
  <2>1. \A c \in Calls : runs'[c] \in {0, 1}
    BY <1>1, <1>2
  <2>2. runs' = [c \in Calls |-> runs'[c]]
    BY DEF RunClosures
  <2>. QED
    BY <2>1, <2>2
<1>4. ASSUME NEW h \in Handles
      PROVE  /\ received'[h] \in Nat
             /\ received[h] = Cardinality(Ran(h)) => received'[h] = Cardinality(Ran(h)')
  <2> DEFINE T == {c \in S : HandleOf[c] = h}
  <2>1. received'[h] = received[h] + Cardinality(T) /\ received[h] \in Nat
    BY DEF RunClosures, TypeOK
  <2>2. T \in SUBSET Calls
    OBVIOUS
  <2>3. IsFiniteSet(T) /\ Cardinality(T) \in Nat
    BY <2>2, RpcAssumption, FS_Subset, FS_CardinalityType
  <2>4. Ran(h)' = Ran(h) \cup T
    BY <1>1, <1>2 DEF Ran
  <2>5. Ran(h) \cap T = {}
    BY DEF Ran
  <2> HIDE DEF T
  <2>6. Cardinality(Ran(h) \cup T) = Cardinality(Ran(h)) + Cardinality(T)
    <3>1. IsFiniteSet(Ran(h)) /\ Cardinality(Ran(h)) \in Nat
      BY HandleFinite
    <3>2. Cardinality(Ran(h) \cup T)
            = Cardinality(Ran(h)) + Cardinality(T) - Cardinality(Ran(h) \cap T)
      BY <2>3, <3>1, FS_Union, Zenon
    <3>3. Cardinality(Ran(h) \cap T) = 0
      BY <2>5, FS_EmptySet, Zenon
    <3>. QED
      BY <2>3, <3>1, <3>2, <3>3
  <2>. QED
    BY <2>1, <2>3, <2>4, <2>6
<1>5. received' = [h \in Handles |-> received'[h]]
  BY DEF RunClosures
<1>6. received' \in [Handles -> Nat]
  BY <1>4, <1>5
<1>. QED
  BY <1>2, <1>3, <1>4, <1>6

(* Calls keep their ids and a failed send stays failed, so a clash stays.  *)
LEMMA ClashStays ==
  ASSUME NoClash', \A c \in Calls : HasId(c) => HasId(c)' /\ id'[c] = id[c],
         \A c \in Calls : pc[c] = "failed" => pc'[c] = "failed"
  PROVE  NoClash
BY DEF NoClash

(* The wire keeps its entries in a step that leaves it and them alone.     *)
LEMMA WireFrame ==
  ASSUME WireHasEntries, requests' = requests, answers' = answers, pending' = pending,
         \A c \in Calls : Saved(c) /\ pc[c] # "send" =>
           Saved(c)' /\ pc'[c] # "send" /\ id'[c] = id[c],
         \A c \in Calls : pc'[c] = "send" => pc[c] = "send" /\ id'[c] = id[c]
  PROVE  WireHasEntries'
<1>1. \A i : Sent(i) => Sent(i)'
  BY DEF Sent
<1>. QED
  BY <1>1 DEF WireHasEntries

(* The invariant is kept by a step of one call that touches no counter, no *)
(* entry and no wire, and that neither loads an id nor saves an entry.     *)
LEMMA CallStep ==
  ASSUME IInv, NEW c \in Calls, NEW p \in PcValues,
         pc' = [pc EXCEPT ![c] = p],
         UNCHANGED <<id, pending, expecting, received, requests, answers, peer, reader,
                     runs>>,
         nextId' \in Ids, channelSet' \in BOOLEAN,
         pc[c] \in {"idle", "refused"} <=> p \in {"idle", "refused"},
         HasId(c) <=> HasId(c)', Saved(c) <=> Saved(c)',
         pc[c] \notin {"failed", "returned", "send"}, p # "send",
         pc[c] # "gaveUp",
         p = "returned" => runs[c] = 1,
         p = "gaveUp" /\ runs[c] = 0 /\ c \in Checked =>
           \E d \in Calls \ {c} : HandleOf[d] = HandleOf[c] /\ runs[d] > 0
  PROVE  IInv'
<1>0. TypeOK /\ EntriesUnrun /\ HandlesCount /\ ReturnedRan /\ NoClashNoStuck
      /\ Completing /\ FalseSuccessIsShared
  BY DEF IInv
<1>1. \A d \in Calls : pc'[d] = IF d = c THEN p ELSE pc[d]
  BY <1>0 DEF TypeOK
<1>2. TypeOK'
  BY <1>0 DEF TypeOK
<1>3. \A d \in Calls : (HasId(d) <=> HasId(d)') /\ (Saved(d) <=> Saved(d)')
  BY <1>1 DEF HasId, Saved
<1>4. EntriesUnrun'
  <2>1. \A i \in Ids : pending[i] # NoCall => pending[i] \in Calls
    BY <1>0 DEF TypeOK
  <2>. QED
    BY <1>0, <1>3, <2>1 DEF EntriesUnrun
<1>5. HandlesCount'
  <2>1. \A d \in Calls : pc'[d] \in {"idle", "refused"} <=> pc[d] \in {"idle", "refused"}
    BY <1>1
  <2>2. \A h \in Handles : Reset(h) => Reset(h)'
    BY <1>1 DEF Reset
  <2>. QED
    BY <1>0, <2>1, <2>2, CountsFrame
<1>6. ReturnedRan'
  BY <1>0, <1>1 DEF ReturnedRan
<1>7. NoClashNoStuck'
  <2>1. SUFFICES ASSUME NoClash' PROVE reader' # "stuck" /\ WireHasEntries'
    BY DEF NoClashNoStuck
  <2>2. NoClash
    BY <1>1, <1>3, <2>1, ClashStays
  <2>3. WireHasEntries /\ reader # "stuck"
    BY <1>0, <2>2 DEF NoClashNoStuck
  <2>4. \A d \in Calls : pc'[d] = "send" => pc[d] = "send"
    BY <1>1
  <2>5. \A d \in Calls : Saved(d) /\ pc[d] # "send" => Saved(d)' /\ pc'[d] # "send"
    BY <1>1, <1>3
  <2>. QED
    BY <2>3, <2>4, <2>5, WireFrame
<1>8. Completing' /\ FalseSuccessIsShared'
  <2>1. \A d \in Checked : d \in Calls
    BY RpcAssumption
  <2>. QED
    BY <1>0, <1>1, <2>1 DEF Completing, FalseSuccessIsShared
<1>. QED
  BY <1>2, <1>4, <1>5, <1>6, <1>7, <1>8 DEF IInv

(* What IInv says, for the proofs of the actions below. *)
LEMMA Parts ==
  ASSUME IInv
  PROVE  /\ TypeOK /\ EntriesUnrun /\ HandlesCount /\ ReturnedRan /\ NoClashNoStuck
         /\ Completing /\ FalseSuccessIsShared
BY DEF IInv

(* A call that still waits has a handle that was not reset: the reset is   *)
(* done by the only call of the handle, at its end.                        *)
LEMMA NotReset ==
  ASSUME NEW c \in Calls, pc[c] # "returned"
  PROVE  HandleOf[c] \in Handles /\ ~Reset(HandleOf[c])
<1>1. \A d \in Calls \ Timed : HandleOf[d] = HandleOf[c] => d = c
  BY RpcAssumption
<1>. QED
  BY <1>1, RpcAssumption DEF Reset

(* When a handle has received what it expects, all its calls have run. *)
LEMMA AllReceived ==
  ASSUME TypeOK, EntriesUnrun, HandlesCount, NEW c \in Calls, pc[c] = "wait",
         received[HandleOf[c]] = expecting[HandleOf[c]]
  PROVE  runs[c] = 1
<1> DEFINE h == HandleOf[c]
<1>1. h \in Handles /\ ~Reset(h)
  BY NotReset
<1>2. Cardinality(Ran(h)) = Cardinality(Expected(h))
  BY <1>1 DEF HandlesCount
<1>3. Ran(h) \in SUBSET Expected(h)
  BY DEF Ran, Expected, EntriesUnrun, Saved, HasId
<1>4. Ran(h) = Expected(h)
  <2>1. IsFiniteSet(Expected(h))
    BY HandleFinite
  <2>. QED
    BY <1>2, <1>3, <2>1, FS_Subset, Zenon
<1>5. c \in Expected(h)
  BY DEF Expected
<1>. QED
  BY <1>4, <1>5 DEF Ran

(* ensure_rpc_channel throws. *)
LEMMA RefusedIInv ==
  ASSUME IInv, NEW c \in Calls, CallRefused(c)
  PROVE  IInv'
<1>1. pc' = [pc EXCEPT ![c] = "refused"] /\ pc[c] = "idle"
  BY DEF CallRefused
<1>2. pc'[c] = "refused"
  BY <1>1, Parts DEF TypeOK
<1>3. (HasId(c) <=> HasId(c)') /\ (Saved(c) <=> Saved(c)')
  BY <1>1, <1>2 DEF HasId, Saved
<1>4. /\ UNCHANGED <<id, pending, expecting, received, requests, answers, peer, reader, runs>>
      /\ nextId' \in Ids /\ channelSet' \in BOOLEAN
  BY Parts DEF CallRefused, netVars, TypeOK
<1>. QED
  BY <1>1, <1>3, <1>4, CallStep DEF PcValues

(* The store of next_message_id. *)
LEMMA StoreIInv ==
  ASSUME IInv, NEW c \in Calls, StoreNextId(c)
  PROVE  IInv'
<1>1. pc' = [pc EXCEPT ![c] = "save"] /\ pc[c] = "storeId"
  BY DEF StoreNextId
<1>2. pc'[c] = "save"
  BY <1>1, Parts DEF TypeOK
<1>3. (HasId(c) <=> HasId(c)') /\ (Saved(c) <=> Saved(c)')
  BY <1>1, <1>2 DEF HasId, Saved
<1>4. nextId' \in Ids
  <2>1. id[c] \in Nat /\ IdSpace \in Nat \ {0}
    BY Parts, RpcAssumption DEF TypeOK, Ids
  <2>2. nextId' = (id[c] + 1) % IdSpace
    BY DEF StoreNextId
  <2>. QED
    BY <2>1, <2>2 DEF Ids
<1>5. /\ UNCHANGED <<id, pending, expecting, received, requests, answers, peer, reader, runs>>
      /\ channelSet' \in BOOLEAN
  BY Parts DEF StoreNextId, netVars, TypeOK
<1>. QED
  BY <1>1, <1>3, <1>4, <1>5, CallStep DEF PcValues

(* The limit of wait_for_pending: when has_result says yes for a call that *)
(* has no answer, another call of its handle has one.                      *)
LEMMA TimesOutIInv ==
  ASSUME IInv, NEW c \in Calls, WaitTimesOut(c)
  PROVE  IInv'
<1> DEFINE h == HandleOf[c]
           p == IF c \in Checked /\ received[h] = 0 THEN "timedOut" ELSE "gaveUp"
<1>1. pc' = [pc EXCEPT ![c] = p] /\ pc[c] = "wait"
  BY DEF WaitTimesOut
<1>2. pc'[c] = p /\ p \in {"timedOut", "gaveUp"} /\ p \in PcValues
  BY <1>1, Parts DEF TypeOK, PcValues
<1>3. (HasId(c) <=> HasId(c)') /\ (Saved(c) <=> Saved(c)')
  BY <1>1, <1>2 DEF HasId, Saved
<1>4. /\ UNCHANGED <<id, pending, expecting, received, requests, answers, peer, reader, runs>>
      /\ nextId' \in Ids /\ channelSet' \in BOOLEAN
  BY Parts DEF WaitTimesOut, netVars, TypeOK
<1>5. p = "gaveUp" /\ runs[c] = 0 /\ c \in Checked =>
        \E d \in Calls \ {c} : HandleOf[d] = HandleOf[c] /\ runs[d] > 0
  <2>1. SUFFICES ASSUME received[h] # 0, runs[c] = 0
                 PROVE  \E d \in Calls \ {c} : HandleOf[d] = h /\ runs[d] > 0
    OBVIOUS
  <2>2. h \in Handles /\ ~Reset(h)
    BY <1>1, NotReset
  <2>3. Cardinality(Ran(h)) # 0
    BY <2>1, <2>2, Parts DEF HandlesCount
  <2>4. Ran(h) # {}
    BY <2>3, FS_EmptySet
  <2>5. PICK d \in Calls : HandleOf[d] = h /\ runs[d] = 1
    BY <2>4 DEF Ran
  <2>. QED
    BY <2>1, <2>5
<1> HIDE DEF p
<1>. QED
  BY <1>1, <1>2, <1>3, <1>4, <1>5, CallStep

(* The wait ends by its predicate: the closure of the call has run. *)
LEMMA WaitEndsIInv ==
  ASSUME IInv, NEW c \in Calls, WaitEnds(c)
  PROVE  IInv'
<1> DEFINE h == HandleOf[c]
<1>0. TypeOK /\ EntriesUnrun /\ HandlesCount /\ ReturnedRan /\ NoClashNoStuck
      /\ Completing /\ FalseSuccessIsShared
  BY Parts
<1>1. pc' = [pc EXCEPT ![c] = "returned"] /\ pc[c] = "wait"
  BY DEF WaitEnds
<1>2. \A d \in Calls : pc'[d] = IF d = c THEN "returned" ELSE pc[d]
  BY <1>0, <1>1 DEF TypeOK
<1>3. runs[c] = 1
  BY <1>0, <1>1, AllReceived DEF WaitEnds
<1>4. /\ UNCHANGED <<id, pending, requests, answers, peer, reader, runs, nextId, channelSet>>
  BY DEF WaitEnds, netVars
<1>5. nextId' \in Ids /\ channelSet' \in BOOLEAN
  BY <1>0, <1>4 DEF TypeOK
<1>6. \A d \in Calls : (HasId(d) <=> HasId(d)') /\ (Saved(d) <=> Saved(d)')
  BY <1>1, <1>2 DEF HasId, Saved
<1>7. CASE c \in Timed
  <2>1. UNCHANGED <<expecting, received>>
    BY <1>7 DEF WaitEnds
  <2>2. "returned" \in PcValues
    BY DEF PcValues
  <2>. QED
    BY <1>1, <1>3, <1>4, <1>5, <1>6, <2>1, <2>2, CallStep
<1>8. CASE c \notin Timed
  <2>1. expecting' = [expecting EXCEPT ![h] = 0] /\ received' = [received EXCEPT ![h] = 0]
    BY <1>8 DEF WaitEnds
  <2>2. \A g \in Handles \ {h} : expecting'[g] = expecting[g] /\ received'[g] = received[g]
    BY <1>0, <2>1 DEF TypeOK
  <2>3. TypeOK'
    <3>1. expecting' \in [Handles -> Nat] /\ received' \in [Handles -> Nat]
      BY <1>0, <2>1 DEF TypeOK
    <3>2. pc' \in [Calls -> PcValues]
      BY <1>0, <1>1 DEF TypeOK, PcValues
    <3>. QED
      BY <1>0, <1>4, <3>1, <3>2 DEF TypeOK
  <2>4. EntriesUnrun'
    <3>1. \A i \in Ids : pending[i] # NoCall => pending[i] \in Calls
      BY <1>0 DEF TypeOK
    <3>. QED
      BY <1>0, <1>4, <1>6, <3>1 DEF EntriesUnrun
  <2>5. HandlesCount'
    <3>1. SUFFICES ASSUME NEW g \in Handles, ~Reset(g)'
                   PROVE  /\ expecting'[g] = Cardinality(Expected(g)')
                          /\ received'[g] = Cardinality(Ran(g)')
      BY DEF HandlesCount
    <3>2. g # h
      BY <1>2, <1>8, <3>1 DEF Reset
    <3>3. ~Reset(g)
      BY <1>1, <1>2, <3>1 DEF Reset
    <3>4. Expected(g)' = Expected(g) /\ Ran(g)' = Ran(g)
      BY <1>1, <1>2, <1>4 DEF Expected, Ran
    <3>. QED
      BY <1>0, <2>2, <3>2, <3>3, <3>4 DEF HandlesCount
  <2>6. ReturnedRan'
    BY <1>0, <1>2, <1>3, <1>4 DEF ReturnedRan
  <2>7. NoClashNoStuck'
    <3>1. SUFFICES ASSUME NoClash' PROVE reader' # "stuck" /\ WireHasEntries'
      BY DEF NoClashNoStuck
    <3>2. \A d \in Calls : pc[d] = "failed" => pc'[d] = "failed"
      BY <1>1, <1>2
    <3>3. NoClash
      BY <1>4, <1>6, <3>1, <3>2, ClashStays
    <3>4. WireHasEntries /\ reader # "stuck"
      BY <1>0, <3>3 DEF NoClashNoStuck
    <3>5. \A d \in Calls : pc'[d] = "send" => pc[d] = "send"
      BY <1>2
    <3>6. \A d \in Calls : Saved(d) /\ pc[d] # "send" => Saved(d)' /\ pc'[d] # "send"
      BY <1>2, <1>6
    <3>. QED
      BY <1>4, <3>4, <3>5, <3>6, WireFrame
  <2>8. Completing' /\ FalseSuccessIsShared'
    <3>1. \A d \in Checked : d \in Calls
      BY RpcAssumption
    <3>. QED
      BY <1>0, <1>2, <1>4, <3>1 DEF Completing, FalseSuccessIsShared
  <2>. QED
    BY <2>3, <2>4, <2>5, <2>6, <2>7, <2>8 DEF IInv
<1>. QED
  BY <1>7, <1>8

(* expect_result of a call that begins. *)
LEMMA ExpectsIInv ==
  ASSUME IInv, NEW c \in Calls, CallExpects(c)
  PROVE  IInv'
<1> DEFINE h == HandleOf[c]
<1>0. TypeOK /\ EntriesUnrun /\ HandlesCount /\ ReturnedRan /\ NoClashNoStuck
      /\ Completing /\ FalseSuccessIsShared
  BY Parts
<1>1. pc' = [pc EXCEPT ![c] = "loadId"] /\ pc[c] = "idle"
  BY DEF CallExpects
<1>2. \A d \in Calls : pc'[d] = IF d = c THEN "loadId" ELSE pc[d]
  BY <1>0, <1>1 DEF TypeOK
<1>3. UNCHANGED <<channelSet, nextId, id, pending, received, requests, answers, peer, reader,
                  runs>>
  BY DEF CallExpects, netVars
<1>4. \A d \in Calls : (HasId(d) <=> HasId(d)') /\ (Saved(d) <=> Saved(d)')
  BY <1>1, <1>2 DEF HasId, Saved
<1>5. expecting' = [expecting EXCEPT ![h] = @ + 1] /\ h \in Handles
  BY RpcAssumption DEF CallExpects
<1>6. TypeOK'
  <2>1. expecting' \in [Handles -> Nat]
    BY <1>0, <1>5 DEF TypeOK
  <2>2. pc' \in [Calls -> PcValues]
    BY <1>0, <1>1 DEF TypeOK, PcValues
  <2>. QED
    BY <1>0, <1>3, <2>1, <2>2 DEF TypeOK
<1>7. EntriesUnrun'
  <2>1. \A i \in Ids : pending[i] # NoCall => pending[i] \in Calls
    BY <1>0 DEF TypeOK
  <2>. QED
    BY <1>0, <1>3, <1>4, <2>1 DEF EntriesUnrun
<1>8. HandlesCount'
  <2>1. SUFFICES ASSUME NEW g \in Handles, ~Reset(g)'
                 PROVE  /\ expecting'[g] = Cardinality(Expected(g)')
                        /\ received'[g] = Cardinality(Ran(g)')
    BY DEF HandlesCount
  <2>2. ~Reset(g)
    BY <1>1, <1>2, <2>1 DEF Reset
  <2>3. expecting[g] = Cardinality(Expected(g)) /\ received[g] = Cardinality(Ran(g))
    BY <1>0, <2>2 DEF HandlesCount
  <2>4. Ran(g)' = Ran(g)
    BY <1>3 DEF Ran
  <2>5. CASE g # h
    <3>1. expecting'[g] = expecting[g]
      BY <1>0, <1>5, <2>5 DEF TypeOK
    <3>2. Expected(g)' = Expected(g)
      BY <1>2, <2>5 DEF Expected
    <3>. QED
      BY <1>3, <2>3, <2>4, <3>1, <3>2
  <2>6. CASE g = h
    <3>1. expecting'[g] = expecting[g] + 1
      BY <1>0, <1>5, <2>6 DEF TypeOK
    <3>2. Expected(g)' = Expected(g) \cup {c} /\ c \notin Expected(g)
      BY <1>1, <1>2, <2>6 DEF Expected
    <3>3. IsFiniteSet(Expected(g))
      BY HandleFinite
    <3>4. Cardinality(Expected(g) \cup {c}) = Cardinality(Expected(g)) + 1
      BY <3>2, <3>3, FS_AddElement, Zenon
    <3>. QED
      BY <1>3, <2>3, <2>4, <3>1, <3>2, <3>4
  <2>. QED
    BY <2>5, <2>6
<1>9. ReturnedRan'
  BY <1>0, <1>2, <1>3 DEF ReturnedRan
<1>10. NoClashNoStuck'
  <2>1. SUFFICES ASSUME NoClash' PROVE reader' # "stuck" /\ WireHasEntries'
    BY DEF NoClashNoStuck
  <2>2. \A d \in Calls : pc[d] = "failed" => pc'[d] = "failed"
    BY <1>1, <1>2
  <2>3. NoClash
    BY <1>3, <1>4, <2>1, <2>2, ClashStays
  <2>4. WireHasEntries /\ reader # "stuck"
    BY <1>0, <2>3 DEF NoClashNoStuck
  <2>5. \A d \in Calls : pc'[d] = "send" => pc[d] = "send"
    BY <1>2
  <2>6. \A d \in Calls : Saved(d) /\ pc[d] # "send" => Saved(d)' /\ pc'[d] # "send"
    BY <1>2, <1>4
  <2>. QED
    BY <1>3, <2>4, <2>5, <2>6, WireFrame
<1>11. Completing' /\ FalseSuccessIsShared'
  <2>1. \A d \in Checked : d \in Calls
    BY RpcAssumption
  <2>. QED
    BY <1>0, <1>2, <1>3, <2>1 DEF Completing, FalseSuccessIsShared
<1>. QED
  BY <1>6, <1>7, <1>8, <1>9, <1>10, <1>11 DEF IInv

(* The load of next_message_id: from here on the call has an id. *)
LEMMA LoadIInv ==
  ASSUME IInv, NEW c \in Calls, LoadNextId(c)
  PROVE  IInv'
<1>0. TypeOK /\ EntriesUnrun /\ HandlesCount /\ ReturnedRan /\ NoClashNoStuck
      /\ Completing /\ FalseSuccessIsShared
  BY Parts
<1>1. pc' = [pc EXCEPT ![c] = "storeId"] /\ pc[c] = "loadId"
  BY DEF LoadNextId
<1>2. \A d \in Calls : pc'[d] = IF d = c THEN "storeId" ELSE pc[d]
  BY <1>0, <1>1 DEF TypeOK
<1>3. UNCHANGED <<channelSet, nextId, pending, expecting, received, requests, answers, peer,
                  reader, runs>>
  BY DEF LoadNextId, netVars
<1>4. id' \in [Calls -> Ids] /\ \A d \in Calls : d # c => id'[d] = id[d]
  BY <1>0 DEF LoadNextId, TypeOK
<1>5. ~HasId(c) /\ \A d \in Calls : Saved(d) <=> Saved(d)'
  BY <1>1, <1>2 DEF HasId, Saved
<1>6. \A d \in Calls : HasId(d) => HasId(d)' /\ id'[d] = id[d]
  BY <1>1, <1>2, <1>4 DEF HasId
<1>7. TypeOK'
  <2>1. pc' \in [Calls -> PcValues]
    BY <1>0, <1>1 DEF TypeOK, PcValues
  <2>. QED
    BY <1>0, <1>3, <1>4, <2>1 DEF TypeOK
<1>8. EntriesUnrun'
  <2>1. \A i \in Ids : pending[i] # NoCall =>
          pending[i] \in Calls /\ id[pending[i]] = i /\ Saved(pending[i]) /\ runs[pending[i]] = 0
    BY <1>0 DEF TypeOK, EntriesUnrun
  <2>2. \A d \in Calls : Saved(d) => id'[d] = id[d]
    BY <1>6 DEF Saved
  <2>3. \A d \in Calls : runs[d] = 1 => Saved(d)
    BY <1>0 DEF EntriesUnrun
  <2>. QED
    BY <1>3, <1>5, <2>1, <2>2, <2>3 DEF EntriesUnrun
<1>9. HandlesCount'
  <2>1. \A d \in Calls : pc'[d] \in {"idle", "refused"} <=> pc[d] \in {"idle", "refused"}
    BY <1>1, <1>2
  <2>2. \A h \in Handles : Reset(h) => Reset(h)'
    BY <1>1, <1>2 DEF Reset
  <2>. QED
    BY <1>0, <1>3, <2>1, <2>2, CountsFrame
<1>10. ReturnedRan'
  BY <1>0, <1>2, <1>3 DEF ReturnedRan
<1>11. NoClashNoStuck'
  <2>1. SUFFICES ASSUME NoClash' PROVE reader' # "stuck" /\ WireHasEntries'
    BY DEF NoClashNoStuck
  <2>2. \A d \in Calls : pc[d] = "failed" => pc'[d] = "failed"
    BY <1>1, <1>2
  <2>3. NoClash
    BY <1>6, <2>1, <2>2, ClashStays
  <2>4. WireHasEntries /\ reader # "stuck"
    BY <1>0, <2>3 DEF NoClashNoStuck
  <2>5. \A d \in Calls : pc'[d] = "send" => pc[d] = "send" /\ id'[d] = id[d]
    BY <1>2, <1>4
  <2>6. \A d \in Calls : Saved(d) /\ pc[d] # "send" =>
          Saved(d)' /\ pc'[d] # "send" /\ id'[d] = id[d]
    BY <1>2, <1>5, <1>6 DEF Saved
  <2>. QED
    BY <1>3, <2>4, <2>5, <2>6, WireFrame
<1>12. Completing' /\ FalseSuccessIsShared'
  <2>1. \A d \in Checked : d \in Calls
    BY RpcAssumption
  <2>. QED
    BY <1>0, <1>2, <1>3, <2>1 DEF Completing, FalseSuccessIsShared
<1>. QED
  BY <1>7, <1>8, <1>9, <1>10, <1>11, <1>12 DEF IInv

(* save_completion_details: the entry of a call is made before its closure *)
(* can run, and hides no other entry unless two calls have the same id.    *)
LEMMA SaveIInv ==
  ASSUME IInv, NEW c \in Calls, SaveCompletionDetails(c)
  PROVE  IInv'
<1>0. TypeOK /\ EntriesUnrun /\ HandlesCount /\ ReturnedRan /\ NoClashNoStuck
      /\ Completing /\ FalseSuccessIsShared
  BY Parts
<1>1. pc' = [pc EXCEPT ![c] = "send"] /\ pc[c] = "save"
  BY DEF SaveCompletionDetails
<1>2. \A d \in Calls : pc'[d] = IF d = c THEN "send" ELSE pc[d]
  BY <1>0, <1>1 DEF TypeOK
<1>3. UNCHANGED <<channelSet, nextId, id, expecting, received, requests, answers, peer,
                  reader, runs>>
  BY DEF SaveCompletionDetails, netVars
<1>4. id[c] \in Ids /\ pending' \in [Ids -> Calls \cup {NoCall}]
      /\ pending'[id[c]] = c /\ \A i \in Ids : i # id[c] => pending'[i] = pending[i]
  BY <1>0 DEF SaveCompletionDetails, TypeOK
<1>5. \A d \in Calls : (HasId(d) <=> HasId(d)') /\ (Saved(d) => Saved(d)')
  BY <1>1, <1>2 DEF HasId, Saved
<1>6. ~Saved(c) /\ Saved(c)'
  BY <1>1, <1>2 DEF HasId, Saved
<1>7. runs[c] = 0
  BY <1>0, <1>6 DEF EntriesUnrun, TypeOK
<1>8. TypeOK'
  <2>1. pc' \in [Calls -> PcValues]
    BY <1>0, <1>1 DEF TypeOK, PcValues
  <2>. QED
    BY <1>0, <1>3, <1>4, <2>1 DEF TypeOK
<1>9. EntriesUnrun'
  <2>1. \A i \in Ids : pending[i] # NoCall =>
          pending[i] \in Calls /\ id[pending[i]] = i /\ Saved(pending[i]) /\ runs[pending[i]] = 0
    BY <1>0 DEF TypeOK, EntriesUnrun
  <2>2. \A d \in Calls : runs[d] = 1 => Saved(d)
    BY <1>0 DEF EntriesUnrun
  <2>. QED
    BY <1>3, <1>4, <1>5, <1>6, <1>7, <2>1, <2>2 DEF EntriesUnrun
<1>10. HandlesCount'
  <2>1. \A d \in Calls : pc'[d] \in {"idle", "refused"} <=> pc[d] \in {"idle", "refused"}
    BY <1>1, <1>2
  <2>2. \A h \in Handles : Reset(h) => Reset(h)'
    BY <1>1, <1>2 DEF Reset
  <2>. QED
    BY <1>0, <1>3, <2>1, <2>2, CountsFrame
<1>11. ReturnedRan'
  BY <1>0, <1>2, <1>3 DEF ReturnedRan
<1>12. NoClashNoStuck'
  <2>1. SUFFICES ASSUME NoClash' PROVE reader' # "stuck" /\ WireHasEntries'
    BY DEF NoClashNoStuck
  <2>2. \A d \in Calls : pc[d] = "failed" => pc'[d] = "failed"
    BY <1>1, <1>2
  <2>3. NoClash
    BY <1>3, <1>5, <2>1, <2>2, ClashStays
  <2>4. WireHasEntries /\ reader # "stuck"
    BY <1>0, <2>3 DEF NoClashNoStuck
  <2>5. \A i : Sent(i) => Sent(i)'
    <3>1. \A d \in Calls : Saved(d) /\ pc[d] # "send" => Saved(d)' /\ pc'[d] # "send"
      BY <1>2, <1>5, <1>6
    <3>. QED
      BY <1>3, <3>1 DEF Sent
  <2>6. \A i \in Ids : pending[i] # NoCall => pending'[i] # NoCall
    BY <1>4, RpcAssumption
  <2>7. \A d \in Calls : pc'[d] = "send" => pending'[id'[d]] = d
    <3>1. SUFFICES ASSUME NEW d \in Calls, d # c, pc[d] = "send"
                   PROVE  pending'[id[d]] = d
      BY <1>2, <1>3, <1>4
    <3>2. HasId(c) /\ HasId(d) /\ id[d] \in Ids
      BY <1>0, <1>1, <3>1 DEF HasId, TypeOK
    <3>3. id[d] # id[c]
      BY <2>3, <3>1, <3>2 DEF NoClash
    <3>4. pending[id[d]] = d
      BY <2>4, <3>1 DEF WireHasEntries
    <3>. QED
      BY <1>4, <3>2, <3>3, <3>4
  <2>8. /\ \A k \in DOMAIN requests : requests[k] \in Ids
        /\ \A k \in DOMAIN answers : answers[k] \in Ids
    BY <1>0 DEF TypeOK
  <2>. QED
    BY <1>3, <2>4, <2>5, <2>6, <2>7, <2>8 DEF WireHasEntries
<1>13. Completing' /\ FalseSuccessIsShared'
  <2>1. \A d \in Checked : d \in Calls
    BY RpcAssumption
  <2>. QED
    BY <1>0, <1>2, <1>3, <2>1 DEF Completing, FalseSuccessIsShared
<1>. QED
  BY <1>8, <1>9, <1>10, <1>11, <1>12, <1>13 DEF IInv

(* A request is sent: its id is on the wire for the first time. *)
LEMMA SendIInv ==
  ASSUME IInv, NEW c \in Calls, SendMessage(c)
  PROVE  IInv'
<1>0. TypeOK /\ EntriesUnrun /\ HandlesCount /\ ReturnedRan /\ NoClashNoStuck
      /\ Completing /\ FalseSuccessIsShared
  BY Parts
<1>1. pc' = [pc EXCEPT ![c] = "wait"] /\ pc[c] = "send"
  BY DEF SendMessage
<1>2. \A d \in Calls : pc'[d] = IF d = c THEN "wait" ELSE pc[d]
  BY <1>0, <1>1 DEF TypeOK
<1>3. UNCHANGED <<channelSet, nextId, id, pending, expecting, received, answers, peer,
                  reader, runs>>
  BY DEF SendMessage
<1>4. requests' = Append(requests, id[c]) /\ id[c] \in Ids /\ requests \in Seq(Ids)
  BY <1>0 DEF SendMessage, TypeOK
<1>5. \A d \in Calls : (HasId(d) <=> HasId(d)') /\ (Saved(d) <=> Saved(d)')
  BY <1>1, <1>2 DEF HasId, Saved
<1>6. TypeOK'
  <2>1. pc' \in [Calls -> PcValues]
    BY <1>0, <1>1 DEF TypeOK, PcValues
  <2>2. requests' \in Seq(Ids)
    BY <1>4
  <2>. QED
    BY <1>0, <1>3, <2>1, <2>2 DEF TypeOK
<1>7. EntriesUnrun'
  <2>1. \A i \in Ids : pending[i] # NoCall => pending[i] \in Calls
    BY <1>0 DEF TypeOK
  <2>. QED
    BY <1>0, <1>3, <1>5, <2>1 DEF EntriesUnrun
<1>8. HandlesCount'
  <2>1. \A d \in Calls : pc'[d] \in {"idle", "refused"} <=> pc[d] \in {"idle", "refused"}
    BY <1>1, <1>2
  <2>2. \A h \in Handles : Reset(h) => Reset(h)'
    BY <1>1, <1>2 DEF Reset
  <2>. QED
    BY <1>0, <1>3, <2>1, <2>2, CountsFrame
<1>9. ReturnedRan'
  BY <1>0, <1>2, <1>3 DEF ReturnedRan
<1>10. NoClashNoStuck'
  <2>1. SUFFICES ASSUME NoClash' PROVE reader' # "stuck" /\ WireHasEntries'
    BY DEF NoClashNoStuck
  <2>2. \A d \in Calls : pc[d] = "failed" => pc'[d] = "failed"
    BY <1>1, <1>2
  <2>3. NoClash
    BY <1>3, <1>5, <2>1, <2>2, ClashStays
  <2>4. WireHasEntries /\ reader # "stuck"
    BY <1>0, <2>3 DEF NoClashNoStuck
  <2>5. \A i : Sent(i) => Sent(i)'
    <3>1. \A d \in Calls : Saved(d) /\ pc[d] # "send" => Saved(d)' /\ pc'[d] # "send"
      BY <1>2, <1>5
    <3>. QED
      BY <1>3, <3>1 DEF Sent
  <2>6. Sent(id[c])' /\ pending[id[c]] # NoCall
    <3>1. Saved(c)' /\ pc'[c] # "send"
      BY <1>1, <1>2 DEF Saved, HasId
    <3>2. pending[id[c]] = c
      BY <1>1, <2>4 DEF WireHasEntries
    <3>. QED
      BY <1>3, <3>1, <3>2, RpcAssumption DEF Sent
  <2>7. ~Sent(id[c])
    <3>1. HasId(c)
      BY <1>1 DEF HasId
    <3>. QED
      BY <1>1, <2>3, <3>1 DEF Sent, NoClash, Saved
  <2>8. /\ DOMAIN requests = 1 .. Len(requests)
        /\ DOMAIN requests' = 1 .. (Len(requests) + 1) /\ Len(requests) \in Nat
        /\ \A k \in 1 .. Len(requests) : requests'[k] = requests[k]
        /\ requests'[Len(requests) + 1] = id[c]
    BY <1>4
  <2>9. \A k \in DOMAIN requests' :
          \/ k \in DOMAIN requests /\ requests'[k] = requests[k]
          \/ k = Len(requests) + 1 /\ requests'[k] = id[c]
    BY <2>8
  <2>10. \A k \in DOMAIN requests' : Sent(requests[k])' /\ pending'[requests'[k]] # NoCall
    BY <1>3, <2>4, <2>5, <2>6, <2>9 DEF WireHasEntries
  <2>11. \A k, l \in DOMAIN requests' : requests'[k] = requests'[l] => k = l
    BY <2>4, <2>7, <2>9 DEF WireHasEntries
  <2>12. \A k \in DOMAIN requests', l \in DOMAIN answers : requests'[k] # answers[l]
    BY <2>4, <2>7, <2>9 DEF WireHasEntries
  <2>13. \A k \in DOMAIN answers : Sent(answers[k])' /\ pending[answers[k]] # NoCall
    BY <1>3, <2>4, <2>5 DEF WireHasEntries
  <2>14. \A d \in Calls : pc'[d] = "send" => pending[id[d]] = d
    BY <1>2, <2>4 DEF WireHasEntries
  <2>15. \A k, l \in DOMAIN answers : answers[k] = answers[l] => k = l
    BY <2>4 DEF WireHasEntries
  <2>. QED
    BY <1>3, <2>4, <2>10, <2>11, <2>12, <2>13, <2>14, <2>15 DEF WireHasEntries
<1>11. Completing' /\ FalseSuccessIsShared'
  <2>1. \A d \in Checked : d \in Calls
    BY RpcAssumption
  <2>. QED
    BY <1>0, <1>2, <1>3, <2>1 DEF Completing, FalseSuccessIsShared
<1>. QED
  BY <1>6, <1>7, <1>8, <1>9, <1>10, <1>11 DEF IInv

(* Calls of pending_calls_ are completed: their closures have not run, so  *)
(* the handles still count their calls and every other part that speaks of *)
(* runs[c] stays right.                                                    *)
LEMMA CompletesCount ==
  ASSUME IInv, NEW S \in SUBSET PendingCalls, RunClosures(S),
         expecting' = expecting, id' = id,
         \A c \in Calls : pc'[c] = pc[c] \/ (pc[c] = "send" /\ pc'[c] = "failed")
  PROVE  /\ \A c \in S : c \in Calls /\ runs[c] = 0 /\ Saved(c)
         /\ \A c \in Calls : runs'[c] = IF c \in S THEN 1 ELSE runs[c]
         /\ runs' \in [Calls -> {0, 1}] /\ received' \in [Handles -> Nat]
         /\ HandlesCount' /\ ReturnedRan' /\ FalseSuccessIsShared'
         /\ \A c \in Calls : (HasId(c) <=> HasId(c)') /\ (Saved(c) <=> Saved(c)')
<1>0. TypeOK /\ EntriesUnrun /\ HandlesCount /\ ReturnedRan /\ FalseSuccessIsShared
  BY Parts
<1>1. \A c \in S : c \in Calls /\ runs[c] = 0 /\ Saved(c)
  BY <1>0 DEF PendingCalls, TypeOK, EntriesUnrun
<1>2. S \in SUBSET Calls
  BY <1>1
<1>3. /\ runs' \in [Calls -> {0, 1}] /\ received' \in [Handles -> Nat]
      /\ \A c \in Calls : runs'[c] = IF c \in S THEN 1 ELSE runs[c]
      /\ \A h \in Handles : received[h] = Cardinality(Ran(h)) =>
           received'[h] = Cardinality(Ran(h)')
  BY <1>0, <1>1, <1>2, RunOnce
<1>4. HandlesCount'
  <2>1. SUFFICES ASSUME NEW h \in Handles, ~Reset(h)'
                 PROVE  /\ expecting'[h] = Cardinality(Expected(h)')
                        /\ received'[h] = Cardinality(Ran(h)')
    BY DEF HandlesCount
  <2>2. ~Reset(h)
    BY <2>1 DEF Reset
  <2>3. Expected(h)' = Expected(h)
    BY DEF Expected
  <2>. QED
    BY <1>0, <1>3, <2>2, <2>3 DEF HandlesCount
<1>5. \A c \in Calls : runs[c] \in {0, 1} /\ runs'[c] \in {0, 1}
                       /\ (runs[c] = 1 => runs'[c] = 1)
  BY <1>0, <1>1, <1>3 DEF TypeOK
<1>6. ReturnedRan'
  BY <1>0, <1>5 DEF ReturnedRan
<1>7. FalseSuccessIsShared'
  <2>1. SUFFICES ASSUME NEW c \in Checked, pc'[c] = "gaveUp", runs'[c] = 0
                 PROVE  \E d \in Calls \ {c} : HandleOf[d] = HandleOf[c] /\ runs'[d] > 0
    BY DEF FalseSuccessIsShared
  <2>2. c \in Calls
    BY RpcAssumption
  <2>3. pc[c] = "gaveUp" /\ runs[c] = 0
    BY <1>5, <2>1, <2>2
  <2>4. PICK d \in Calls \ {c} : HandleOf[d] = HandleOf[c] /\ runs[d] > 0
    BY <1>0, <2>3 DEF FalseSuccessIsShared
  <2>5. runs'[d] > 0
    BY <1>5, <2>4
  <2>. QED
    BY <2>4, <2>5
<1>8. \A c \in Calls : (HasId(c) <=> HasId(c)') /\ (Saved(c) <=> Saved(c)')
  BY DEF HasId, Saved
<1>. QED
  BY <1>1, <1>3, <1>4, <1>6, <1>7, <1>8

(* A send fails: force_completion completes all pending calls. *)
LEMMA SendFailsIInv ==
  ASSUME IInv, NEW c \in Calls, SendFails(c)
  PROVE  IInv'
<1>0. TypeOK /\ EntriesUnrun /\ Completing
  BY Parts
<1>1. pc' = [pc EXCEPT ![c] = "failed"] /\ pc[c] = "send"
  BY DEF SendFails
<1>2. \A d \in Calls : pc'[d] = IF d = c THEN "failed" ELSE pc[d]
  BY <1>0, <1>1 DEF TypeOK
<1>3. UNCHANGED <<channelSet, nextId, id, expecting, requests, answers, peer, reader>>
  BY DEF SendFails, netVars
<1>4. pending' = [i \in Ids |-> NoCall] /\ RunClosures(PendingCalls)
  BY DEF SendFails
<1>5. \A d \in Calls : pc'[d] = pc[d] \/ (pc[d] = "send" /\ pc'[d] = "failed")
  BY <1>1, <1>2
<1>6. /\ \A d \in PendingCalls : d \in Calls /\ runs[d] = 0 /\ Saved(d)
      /\ \A d \in Calls : runs'[d] = IF d \in PendingCalls THEN 1 ELSE runs[d]
      /\ runs' \in [Calls -> {0, 1}] /\ received' \in [Handles -> Nat]
      /\ HandlesCount' /\ ReturnedRan' /\ FalseSuccessIsShared'
      /\ \A d \in Calls : (HasId(d) <=> HasId(d)') /\ (Saved(d) <=> Saved(d)')
  BY <1>3, <1>4, <1>5, CompletesCount
<1>7. TypeOK'
  <2>1. pc' \in [Calls -> PcValues]
    BY <1>0, <1>1 DEF TypeOK, PcValues
  <2>2. pending' \in [Ids -> Calls \cup {NoCall}]
    BY <1>4
  <2>. QED
    BY <1>0, <1>3, <1>6, <2>1, <2>2 DEF TypeOK
<1>8. EntriesUnrun'
  <2>1. \A i \in Ids : pending'[i] = NoCall
    BY <1>4
  <2>2. \A d \in Calls : runs'[d] = 1 => Saved(d)'
    BY <1>0, <1>6 DEF EntriesUnrun
  <2>. QED
    BY <2>1, <2>2 DEF EntriesUnrun
<1>9. NoClashNoStuck'
  BY <1>2 DEF NoClashNoStuck, NoClash
<1>10. Completing'
  BY <1>0, <1>3 DEF Completing
<1>. QED
  BY <1>6, <1>7, <1>8, <1>9, <1>10 DEF IInv

(* A step of the peer or of the reader that runs no closure: the calls are *)
(* where they were, and the wire is left in order.                         *)
LEMMA WireStep ==
  ASSUME IInv, UNCHANGED <<pc, nextId, id, pending, expecting, received, runs>>,
         channelSet' \in BOOLEAN,
         requests' \in Seq(Ids), answers' \in Seq(Ids), peer' \in {"up", "down"},
         reader' \in {"reading", "completing", "stuck", "closed"},
         NoClash => reader' # "stuck" /\ WireHasEntries',
         Completing'
  PROVE  IInv'
<1>0. TypeOK /\ EntriesUnrun /\ HandlesCount /\ ReturnedRan /\ FalseSuccessIsShared
  BY Parts
<1>1. TypeOK'
  BY <1>0 DEF TypeOK
<1>2. EntriesUnrun'
  BY <1>0 DEF EntriesUnrun, Saved, HasId
<1>3. HandlesCount'
  <2>1. \A h \in Handles : Reset(h) => Reset(h)'
    BY DEF Reset
  <2>. QED
    BY <1>0, <2>1, CountsFrame
<1>4. ReturnedRan' /\ FalseSuccessIsShared'
  BY <1>0 DEF ReturnedRan, FalseSuccessIsShared
<1>5. NoClashNoStuck'
  BY DEF NoClashNoStuck, NoClash, HasId
<1>. QED
  BY <1>1, <1>2, <1>3, <1>4, <1>5 DEF IInv

(* The peer takes a request and answers it: its id changes its way. *)
LEMMA PeerAnswersIInv ==
  ASSUME IInv, PeerAnswers
  PROVE  IInv'
<1>0. TypeOK /\ NoClashNoStuck /\ Completing
  BY Parts
<1>1. UNCHANGED <<channelSet, pc, nextId, id, pending, expecting, received, runs, peer, reader>>
  BY DEF PeerAnswers, callVars
<1>2. /\ requests \in Seq(Ids) /\ answers \in Seq(Ids) /\ requests # << >>
      /\ requests' = Tail(requests) /\ answers' = Append(answers, Head(requests))
  BY <1>0 DEF PeerAnswers, TypeOK
<1>3. /\ requests' \in Seq(Ids) /\ answers' \in Seq(Ids) /\ Head(requests) = requests[1]
      /\ 1 \in DOMAIN requests
  BY <1>2
<1>4. \A k \in DOMAIN requests' : k + 1 \in DOMAIN requests /\ k + 1 # 1
                                  /\ k \in Nat /\ requests'[k] = requests[k + 1]
  BY <1>2
<1>5. \A k \in DOMAIN answers' :
        \/ k \in DOMAIN answers /\ answers'[k] = answers[k]
        \/ k = Len(answers) + 1 /\ answers'[k] = requests[1]
  BY <1>2, <1>3
<1>6. ASSUME NoClash PROVE reader' # "stuck" /\ WireHasEntries'
  <2>1. WireHasEntries /\ reader # "stuck"
    BY <1>0, <1>6 DEF NoClashNoStuck
  <2>2. \A i : Sent(i) <=> Sent(i)'
    BY <1>1 DEF Sent, Saved, HasId
  <2>3. \A k \in DOMAIN requests : Sent(requests[k]) /\ pending[requests[k]] # NoCall
    BY <2>1 DEF WireHasEntries
  <2>4. \A k \in DOMAIN answers : Sent(answers[k]) /\ pending[answers[k]] # NoCall
    BY <2>1 DEF WireHasEntries
  <2>5. \A k \in DOMAIN requests' : Sent(requests[k])' /\ pending'[requests'[k]] # NoCall
    BY <1>1, <1>4, <2>2, <2>3
  <2>6. \A k \in DOMAIN answers' : Sent(answers[k])' /\ pending'[answers'[k]] # NoCall
    BY <1>1, <1>3, <1>5, <2>2, <2>3, <2>4
  <2>7. \A k, l \in DOMAIN requests' : requests'[k] = requests'[l] => k = l
    <3>1. SUFFICES ASSUME NEW k \in DOMAIN requests', NEW l \in DOMAIN requests',
                          requests'[k] = requests'[l]
                   PROVE  k = l
      OBVIOUS
    <3>2. k + 1 = l + 1
      BY <1>4, <2>1, <3>1 DEF WireHasEntries
    <3>. QED
      BY <1>4, <3>2
  <2>8. \A k, l \in DOMAIN answers' : answers'[k] = answers'[l] => k = l
    BY <1>3, <1>5, <2>1 DEF WireHasEntries
  <2>9. \A k \in DOMAIN requests', l \in DOMAIN answers' : requests'[k] # answers'[l]
    BY <1>3, <1>4, <1>5, <2>1 DEF WireHasEntries
  <2>10. \A c \in Calls : pc'[c] = "send" => pending'[id'[c]] = c
    BY <1>1, <2>1 DEF WireHasEntries
  <2>. QED
    BY <1>1, <2>1, <2>5, <2>6, <2>7, <2>8, <2>9, <2>10 DEF WireHasEntries
<1>7. Completing'
  <2>1. answers' # << >>
    BY <1>2
  <2>. QED
    BY <2>1 DEF Completing
<1>8. channelSet' \in BOOLEAN /\ peer' \in {"up", "down"}
      /\ reader' \in {"reading", "completing", "stuck", "closed"}
  BY <1>0, <1>1 DEF TypeOK
<1>. QED
  BY <1>1, <1>3, <1>6, <1>7, <1>8, WireStep

(* The channel is given, the peer dies, or the reader looks at an answer   *)
(* or closes: without a clash the answer has its entry.                    *)
LEMMA QuietIInv ==
  ASSUME IInv, SetRpcChannel \/ PeerDies \/ PopulateMessage \/ PopulateThrows
               \/ ReaderCloses \/ UNCHANGED vars
  PROVE  IInv'
<1>0. TypeOK /\ NoClashNoStuck /\ Completing
  BY Parts
<1>1. UNCHANGED <<pc, nextId, id, pending, expecting, received, runs, answers>>
  BY DEF SetRpcChannel, PeerDies, PopulateMessage, PopulateThrows, ReaderCloses, vars,
         callVars, netVars
<1>2. channelSet' \in BOOLEAN
  BY <1>0 DEF TypeOK, SetRpcChannel, PeerDies, PopulateMessage, PopulateThrows, ReaderCloses,
              vars, callVars
<1>3. /\ requests' = requests \/ requests' = << >>
      /\ peer' \in {"up", "down"}
      /\ reader' \in {"reading", "completing", "stuck", "closed"}
  BY <1>0 DEF TypeOK, SetRpcChannel, PeerDies, PopulateMessage, PopulateThrows, ReaderCloses,
              vars, netVars
<1>4. requests' \in Seq(Ids) /\ answers' \in Seq(Ids)
  <2>1. << >> \in Seq(Ids)
    OBVIOUS
  <2>2. requests \in Seq(Ids) /\ answers \in Seq(Ids)
    BY <1>0 DEF TypeOK
  <2>. QED
    BY <1>1, <1>3, <2>1, <2>2
<1>5. Completing'
  BY <1>0, <1>1 DEF Completing, SetRpcChannel, PeerDies, PopulateMessage, PopulateThrows,
                    ReaderCloses, vars
<1>6. ASSUME NoClash PROVE reader' # "stuck" /\ WireHasEntries'
  <2>1. WireHasEntries /\ reader # "stuck"
    BY <1>0, <1>6 DEF NoClashNoStuck
  <2>2. answers # << >> => pending[Head(answers)] # NoCall
    <3>1. SUFFICES ASSUME answers # << >> PROVE pending[Head(answers)] # NoCall
      OBVIOUS
    <3>2. Head(answers) = answers[1] /\ 1 \in DOMAIN answers
      BY <1>0, <3>1 DEF TypeOK
    <3>. QED
      BY <2>1, <3>2 DEF WireHasEntries
  <2>3. reader' # "stuck"
    BY <2>1, <2>2 DEF SetRpcChannel, PeerDies, PopulateMessage, PopulateThrows, ReaderCloses,
                      vars
  <2>4. \A i : Sent(i) <=> Sent(i)'
    BY <1>1 DEF Sent, Saved, HasId
  <2>5. WireHasEntries'
    <3>1. CASE requests' = requests
      BY <1>1, <2>1, <2>4, <3>1 DEF WireHasEntries
    <3>2. CASE requests' = << >>
      BY <1>1, <2>1, <2>4, <3>2 DEF WireHasEntries
    <3>. QED
      BY <1>3, <3>1, <3>2
  <2>. QED
    BY <2>3, <2>5
<1>. QED
  BY <1>1, <1>2, <1>3, <1>4, <1>5, <1>6, WireStep

(* complete_response: the closure at the entry of the answer runs. *)
LEMMA CompleteIInv ==
  ASSUME IInv, CompleteResponse
  PROVE  IInv'
<1> DEFINE i == Head(answers)
           S == {pending[i]} \ {NoCall}
<1>0. TypeOK /\ EntriesUnrun /\ NoClashNoStuck /\ Completing
  BY Parts
<1>1. UNCHANGED <<channelSet, pc, nextId, id, expecting, requests, peer>> /\ reader' = "reading"
  BY DEF CompleteResponse, callVars
<1>2. /\ answers \in Seq(Ids) /\ answers # << >> /\ answers' = Tail(answers)
  BY <1>0 DEF CompleteResponse, Completing, TypeOK
<1>3. i \in Ids /\ i = answers[1] /\ 1 \in DOMAIN answers
  BY <1>2
<1>4. pending' = [pending EXCEPT ![i] = NoCall] /\ RunClosures(S)
  BY DEF CompleteResponse
<1>5. /\ pending' \in [Ids -> Calls \cup {NoCall}] /\ pending'[i] = NoCall
      /\ \A j \in Ids : j # i => pending'[j] = pending[j]
  BY <1>0, <1>3, <1>4 DEF TypeOK
<1>6. S \in SUBSET PendingCalls
  BY <1>3 DEF PendingCalls
<1> HIDE DEF i
<1>7. /\ \A c \in S : c \in Calls /\ runs[c] = 0 /\ Saved(c)
      /\ \A c \in Calls : runs'[c] = IF c \in S THEN 1 ELSE runs[c]
      /\ runs' \in [Calls -> {0, 1}] /\ received' \in [Handles -> Nat]
      /\ HandlesCount' /\ ReturnedRan' /\ FalseSuccessIsShared'
      /\ \A c \in Calls : (HasId(c) <=> HasId(c)') /\ (Saved(c) <=> Saved(c)')
  <2> HIDE DEF S
  <2>. QED
    BY <1>1, <1>4, <1>6, CompletesCount
<1>8. TypeOK'
  <2>1. answers' \in Seq(Ids)
    BY <1>2
  <2>. QED
    BY <1>0, <1>1, <1>5, <1>7, <2>1 DEF TypeOK
<1>9. EntriesUnrun'
  <2>1. \A j \in Ids : pending[j] # NoCall =>
          pending[j] \in Calls /\ id[pending[j]] = j /\ Saved(pending[j]) /\ runs[pending[j]] = 0
    BY <1>0 DEF TypeOK, EntriesUnrun
  <2>2. \A j \in Ids : pending'[j] # NoCall => j # i /\ pending'[j] = pending[j]
    BY <1>5
  <2>3. \A j \in Ids : pending[j] # NoCall /\ j # i => pending[j] \notin S
    BY <1>3, <2>1
  <2>4. \A c \in Calls : runs'[c] = 1 => Saved(c)'
    BY <1>0, <1>7 DEF EntriesUnrun
  <2> HIDE DEF S
  <2>5. \A j \in Ids : pending'[j] # NoCall =>
          id'[pending'[j]] = j /\ Saved(pending[j])' /\ runs'[pending'[j]] = 0
    BY <1>1, <1>7, <2>1, <2>2, <2>3
  <2>. QED
    BY <2>4, <2>5 DEF EntriesUnrun
<1>10. NoClashNoStuck'
  <2>1. SUFFICES ASSUME NoClash' PROVE WireHasEntries'
    BY <1>1 DEF NoClashNoStuck
  <2>2. NoClash
    BY <1>1, <1>7, <2>1, ClashStays
  <2>3. WireHasEntries
    BY <1>0, <2>2 DEF NoClashNoStuck
  <2>4. \A j : Sent(j) <=> Sent(j)'
    BY <1>1 DEF Sent, Saved, HasId
  <2>5. \A k \in DOMAIN answers' : k + 1 \in DOMAIN answers /\ k + 1 # 1
                                   /\ k \in Nat /\ answers'[k] = answers[k + 1]
    BY <1>2
  <2>6. /\ \A k \in DOMAIN requests : requests[k] \in Ids
        /\ \A k \in DOMAIN answers : answers[k] \in Ids
        /\ \A c \in Calls : id[c] \in Ids
    BY <1>0 DEF TypeOK
  <2>7. \A k \in DOMAIN requests : Sent(requests[k])' /\ pending'[requests[k]] # NoCall
    <3>1. \A k \in DOMAIN requests : Sent(requests[k]) /\ pending[requests[k]] # NoCall
                                     /\ requests[k] # i
      BY <1>3, <2>3 DEF WireHasEntries
    <3>. QED
      BY <1>1, <1>5, <2>4, <2>6, <3>1
  <2>8. \A k \in DOMAIN answers' : Sent(answers[k])' /\ pending'[answers'[k]] # NoCall
    <3>1. \A k \in DOMAIN answers : Sent(answers[k]) /\ pending[answers[k]] # NoCall
                                    /\ (k # 1 => answers[k] # i)
      BY <1>3, <2>3 DEF WireHasEntries
    <3>. QED
      BY <1>5, <2>4, <2>5, <2>6, <3>1
  <2>9. \A k, l \in DOMAIN answers' : answers'[k] = answers'[l] => k = l
    <3>1. SUFFICES ASSUME NEW k \in DOMAIN answers', NEW l \in DOMAIN answers',
                          answers'[k] = answers'[l]
                   PROVE  k = l
      OBVIOUS
    <3>2. k + 1 = l + 1
      BY <2>3, <2>5, <3>1 DEF WireHasEntries
    <3>. QED
      BY <2>5, <3>2
  <2>10. \A k \in DOMAIN requests, l \in DOMAIN answers' : requests[k] # answers'[l]
    BY <2>3, <2>5 DEF WireHasEntries
  <2>11. \A c \in Calls : pc[c] = "send" => pending'[id[c]] = c
    <3>1. SUFFICES ASSUME NEW c \in Calls, pc[c] = "send" PROVE pending'[id[c]] = c
      OBVIOUS
    <3>2. PICK d \in Calls : Saved(d) /\ pc[d] # "send" /\ id[d] = i
      BY <1>3, <2>3 DEF WireHasEntries, Sent
    <3>3. HasId(c) /\ HasId(d) /\ d # c
      BY <3>1, <3>2 DEF HasId, Saved
    <3>4. id[c] # i
      BY <2>2, <3>2, <3>3 DEF NoClash
    <3>5. pending[id[c]] = c
      BY <2>3, <3>1 DEF WireHasEntries
    <3>. QED
      BY <1>5, <2>6, <3>4, <3>5
  <2>12. \A k, l \in DOMAIN requests : requests[k] = requests[l] => k = l
    BY <2>3 DEF WireHasEntries
  <2>. QED
    BY <1>1, <2>7, <2>8, <2>9, <2>10, <2>11, <2>12 DEF WireHasEntries
<1>11. Completing'
  BY <1>1 DEF Completing
<1>. QED
  BY <1>7, <1>8, <1>9, <1>10, <1>11 DEF IInv

----------------------------------------------------------------------------
(* Every step keeps the invariant. *)
LEMMA NextIInv == IInv /\ [Next]_vars => IInv'
<1> SUFFICES ASSUME IInv, [Next]_vars PROVE IInv'
  OBVIOUS
<1>1. CASE \E c \in Calls : \/ CallRefused(c) \/ CallExpects(c) \/ CallMethod(c)
                            \/ WaitEnds(c) \/ WaitTimesOut(c)
  <2>1. PICK c \in Calls : \/ CallRefused(c) \/ CallExpects(c) \/ CallMethod(c)
                           \/ WaitEnds(c) \/ WaitTimesOut(c)
    BY <1>1
  <2>2. CASE CallMethod(c)
    BY <2>2, LoadIInv, StoreIInv, SaveIInv, SendIInv, SendFailsIInv DEF CallMethod
  <2>. QED
    BY <2>1, <2>2, RefusedIInv, ExpectsIInv, WaitEndsIInv, TimesOutIInv
<1>2. CASE PeerAnswers
  BY <1>2, PeerAnswersIInv
<1>3. CASE Reader \/ SetRpcChannel \/ PeerDies
  BY <1>3, QuietIInv, CompleteIInv DEF Reader
<1>4. CASE UNCHANGED vars
  BY <1>4, QuietIInv
<1>. QED
  BY <1>1, <1>2, <1>3, <1>4 DEF Next

LEMMA AlwaysIInv == Spec => []IInv
BY InitIInv, NextIInv, PTL DEF Spec

(* The closure of a call runs at most once, whatever the race on           *)
(* next_message_id, the peer's death and the failed sends do, and it has   *)
(* run when the wait of the call ended by its predicate.                   *)
THEOREM ClosuresRunOnce == Spec => []ClosureRunsOnce
<1>1. IInv => ClosureRunsOnce
  <2>1. ASSUME IInv PROVE ClosureRunsOnce
    <3>1. \A c \in Calls : runs[c] \in {0, 1} /\ (pc[c] = "returned" => runs[c] = 1)
      BY <2>1, Parts DEF TypeOK, ReturnedRan
    <3>. QED
      BY <3>1 DEF ClosureRunsOnce
  <2>. QED
    BY <2>1
<1>. QED
  BY <1>1, AlwaysIInv, PTL

(* The I/O thread is lost to an answer without an entry only after two     *)
(* calls got the same id or a send failed.                                 *)
THEOREM ReaderLostOnlyByClash == Spec => []StuckOnlyAfterClash
<1>1. IInv => StuckOnlyAfterClash
  <2>1. ASSUME IInv, reader = "stuck" PROVE ~NoClash
    BY <2>1, Parts DEF NoClashNoStuck
  <2>2. \A c, d \in Calls : HasId(c) /\ HasId(d) =>
          {pc[c], pc[d]} \cap {"idle", "loadId", "refused"} = {}
    BY DEF HasId
  <2>. QED
    BY <2>1, <2>2 DEF StuckOnlyAfterClash, NoClash
<1>. QED
  BY <1>1, AlwaysIInv, PTL

(* A timed-out call is taken for a success only when another call of its   *)
(* method was answered.                                                    *)
THEOREM FalseSuccessNeedsSharing == Spec => []FalseSuccessIsShared
<1>1. IInv => FalseSuccessIsShared
  BY DEF IInv
<1>. QED
  BY <1>1, AlwaysIInv, PTL

----------------------------------------------------------------------------
(* The framing: MessageFraming.                                            *)

(* Quotient and remainder, and that they are the only ones. *)
LEMMA DivMod ==
  ASSUME NEW a \in Nat, NEW b \in Nat \ {0}
  PROVE  a = b * (a \div b) + (a % b) /\ a % b \in 0 .. (b - 1) /\ a \div b \in Nat
OBVIOUS

(* The converse. *)
LEMMA DivUnique ==
  ASSUME NEW a \in Nat, NEW b \in Nat \ {0}, NEW q \in Nat, NEW r \in 0 .. (b - 1),
         a = b * q + r
  PROVE  q = a \div b /\ r = a % b
OBVIOUS

(* Three digits are enough for every number below b * b * b. *)
LEMMA ThreeDigits ==
  ASSUME NEW b \in Nat \ {0}, NEW n \in Nat, n < b * b * b
  PROVE  ((n \div (b * b)) % b) * b * b + ((n \div b) % b) * b + (n % b) = n
<1>1. PICK q \in Nat : q = n \div b
  BY DivMod
<1>2. PICK r \in 0 .. (b - 1) : r = n % b
  BY DivMod
<1>3. n = b * q + r
  BY <1>1, <1>2, DivMod
<1>4. PICK p \in Nat : p = q \div b
  BY DivMod
<1>5. PICK s \in 0 .. (b - 1) : s = q % b
  BY DivMod
<1>6. q = b * p + s
  BY <1>4, <1>5, DivMod
<1>7. b * b \in Nat \ {0} /\ b * s + r \in 0 .. (b * b - 1)
  <2>1. b * s \in 0 .. (b * (b - 1)) /\ b * (b - 1) = b * b - b
    OBVIOUS
  <2>. QED
    BY <2>1
<1>8. n = (b * b) * p + (b * s + r)
  <2>1. b * (b * p + s) = (b * b) * p + b * s
    OBVIOUS
  <2>. QED
    BY <1>3, <1>6, <2>1
<1>9. p = n \div (b * b)
  BY <1>7, <1>8, DivUnique
<1>10. p < b
  <2>1. SUFFICES ASSUME ~(p < b) PROVE FALSE
    OBVIOUS
  <2>2. (b * b) * p >= (b * b) * b
    BY <1>7, <2>1
  <2>. QED
    BY <1>7, <1>8, <2>2
<1>11. p % b = p
  <2>1. p = b * 0 + p /\ p \in 0 .. (b - 1)
    BY <1>10
  <2>. QED
    BY <2>1, DivUnique
<1>12. p * b * b + s * b + r = n
  BY <1>8
<1>. QED
  BY <1>1, <1>2, <1>4, <1>5, <1>9, <1>11, <1>12

(* What a sender sends. *)
Frames == {Framed(m) : m \in Messages}

(* The header says how long the message is. *)
LEMMA FrameHeader ==
  ASSUME NEW f \in Frames
  PROVE  f \in Seq(Byte) /\ Len(f) \in Nat /\ Len(f) >= HeaderSize
         /\ HeaderSize + MessageSize(f) = Len(f)
<1>1. PICK m \in Messages : f = Framed(m)
  BY DEF Frames
<1>2. PICK p \in Payloads : p = m.payload
  BY DEF Messages
<1>3. Base \in Nat \ {0} /\ p \in Seq(Byte) /\ Len(p) < Base * Base * Base /\ m.type \in Byte
  BY <1>2, FramingAssumption DEF Messages, Byte, Invocation, Response
<1>4. PICK n \in Nat : n = Len(p)
  BY <1>3
<1>5. PICK a \in Byte : a = (n \div (Base * Base)) % Base
  <2>1. Base * Base \in Nat \ {0}
    BY <1>3
  <2>2. n \div (Base * Base) \in Nat
    BY <2>1, DivMod
  <2>. QED
    BY <1>3, <2>2, DivMod DEF Byte
<1>6. PICK b \in Byte : b = (n \div Base) % Base
  <2>1. n \div Base \in Nat
    BY <1>3, DivMod
  <2>. QED
    BY <1>3, <2>1, DivMod DEF Byte
<1>7. PICK c \in Byte : c = n % Base
  BY <1>3, DivMod DEF Byte
<1>8. PICK h \in Seq(Byte) : h = <<a, b, c, m.type>>
  <2>1. PICK d \in Byte : d = m.type
    BY <1>3
  <2>2. <<a, b, c, d>> \in Seq(Byte)
    OBVIOUS
  <2>. QED
    BY <2>1, <2>2
<1>9. f = h \o p
  BY <1>1, <1>2, <1>4, <1>5, <1>6, <1>7, <1>8 DEF Framed
<1>10. Len(h) = 4 /\ h[1] = a /\ h[2] = b /\ h[3] = c
  BY <1>8
<1>11. f \in Seq(Byte) /\ Len(f) = 4 + n /\ f[1] = a /\ f[2] = b /\ f[3] = c
  <2>1. f \in Seq(Byte) /\ Len(f) = 4 + n
    <3>1. p \in Seq(Byte) /\ Len(p) = n
      BY <1>3, <1>4
    <3>2. h \o p \in Seq(Byte) /\ Len(h \o p) = Len(h) + Len(p)
      BY <3>1, ConcatProperties
    <3>. QED
      BY <1>9, <1>10, <3>1, <3>2
  <2>2. \A i \in 1 .. 3 : f[i] = h[i]
    <3>1. ASSUME NEW i \in 1 .. 3 PROVE f[i] = h[i]
      <4>1. i \in 1 .. (Len(h) + Len(p)) /\ i <= Len(h)
        BY <1>4, <1>10
      <4>. QED
        BY <1>3, <1>9, <4>1, ConcatProperties
    <3>. QED
      BY <3>1
  <2>3. f[1] = h[1] /\ f[2] = h[2] /\ f[3] = h[3]
    BY <2>2
  <2>. QED
    BY <1>10, <2>1, <2>3
<1>12. a * Base * Base + b * Base + c = n
  BY <1>3, <1>4, <1>5, <1>6, <1>7, ThreeDigits
<1>. QED
  BY <1>11, <1>12 DEF HeaderSize, MessageSize

----------------------------------------------------------------------------
(* What lies somewhere still lies there after more was written. *)
LEMMA LiesOn ==
  ASSUME NEW S, NEW s \in Seq(S), NEW p \in Seq(S), NEW x, NEW n \in Nat, NEW at \in Nat,
         LiesAt(x, n, s, at)
  PROVE  LiesAt(x, n, s \o p, at)
<1>1. Len(s \o p) = Len(s) + Len(p) /\ Len(s) \in Nat /\ Len(p) \in Nat
  BY ConcatProperties
<1>2. ASSUME NEW k \in 1 .. n PROVE (s \o p)[at + k] = x[k]
  <2>1. at + k \in 1 .. (Len(s) + Len(p)) /\ at + k <= Len(s) /\ s[at + k] = x[k]
    BY <1>1 DEF LiesAt
  <2>. QED
    BY <2>1, ConcatProperties
<1>. QED
  BY <1>1, <1>2 DEF LiesAt

(* Two pieces that lie one behind the other lie there as one. *)
LEMMA LiesJoined ==
  ASSUME NEW S, NEW s \in Seq(S), NEW b \in Seq(S), NEW w \in Seq(S), NEW at \in Nat,
         LiesAt(b, Len(b), s, at), LiesAt(w, Len(w), s, at + Len(b))
  PROVE  b \o w \in Seq(S) /\ Len(b \o w) = Len(b) + Len(w) /\ LiesAt(b \o w, Len(b \o w), s, at)
<1> DEFINE c == b \o w
<1>0. Len(b) \in Nat /\ Len(w) \in Nat /\ Len(s) \in Nat
  OBVIOUS
<1>1. c \in Seq(S) /\ Len(c) = Len(b) + Len(w)
  BY ConcatProperties
<1>2. ASSUME NEW k \in 1 .. (Len(b) + Len(w)) PROVE s[at + k] = c[k]
  <2>1. CASE k <= Len(b)
    <3>1. c[k] = b[k]
      BY <2>1, ConcatProperties
    <3>. QED
      BY <1>0, <2>1, <3>1 DEF LiesAt
  <2>2. CASE ~(k <= Len(b))
    <3>0. k - Len(b) \in 1 .. Len(w)
      BY <1>0, <2>2
    <3>1. PICK j \in 1 .. Len(w) : j = k - Len(b)
      BY <3>0
    <3>2. c[k] = w[j]
      BY <2>2, <3>1, ConcatProperties
    <3>3. (at + Len(b)) + j = at + k
      BY <1>0, <3>1
    <3>4. s[(at + Len(b)) + j] = w[j]
      BY <3>1 DEF LiesAt
    <3>. QED
      BY <3>2, <3>3, <3>4
  <2>. QED
    BY <2>1, <2>2
<1> HIDE DEF c
<1>3. at + (Len(b) + Len(w)) <= Len(s)
  BY <1>0 DEF LiesAt
<1>4. LiesAt(c, Len(c), s, at)
  BY <1>1, <1>2, <1>3 DEF LiesAt
<1>. QED
  BY <1>1, <1>4 DEF c

(* What is written lies at the end. *)
LEMMA LiesLast ==
  ASSUME NEW S, NEW s \in Seq(S), NEW p \in Seq(S)
  PROVE  LiesAt(p, Len(p), s \o p, Len(s))
<1>0. Len(s \o p) = Len(s) + Len(p) /\ Len(s) \in Nat /\ Len(p) \in Nat
  BY ConcatProperties
<1>1. ASSUME NEW k \in 1 .. Len(p) PROVE (s \o p)[Len(s) + k] = p[k]
  <2>1. Len(s) + k \in 1 .. (Len(s) + Len(p)) /\ ~(Len(s) + k <= Len(s))
        /\ (Len(s) + k) - Len(s) = k
    BY <1>0
  <2>. QED
    BY <2>1, ConcatProperties
<1>. QED
  BY <1>0, <1>1 DEF LiesAt

(* A read moves the first bytes of the socket behind buffer_. *)
LEMMA LiesReceived ==
  ASSUME NEW S, NEW s \in Seq(S), NEW b \in Seq(S), NEW w \in Seq(S), NEW at \in Nat,
         NEW n \in 1 .. Len(w),
         LiesAt(b, Len(b), s, at), LiesAt(w, Len(w), s, at + Len(b))
  PROVE  LET c == b \o SubSeq(w, 1, n)
             v == SubSeq(w, n + 1, Len(w))
         IN  /\ c \in Seq(S) /\ Len(c) = Len(b) + n /\ LiesAt(c, Len(c), s, at)
             /\ v \in Seq(S) /\ Len(v) = Len(w) - n /\ LiesAt(v, Len(v), s, at + Len(c))
<1> DEFINE u == SubSeq(w, 1, n)
           c == b \o u
           v == SubSeq(w, n + 1, Len(w))
<1>0. Len(b) \in Nat /\ Len(w) \in Nat /\ n \in Nat /\ Len(s) \in Nat
  OBVIOUS
<1>1. u \in Seq(S) /\ Len(u) = n /\ \A k \in 1 .. n : u[k] = w[k]
  BY <1>0
<1>2. v \in Seq(S) /\ Len(v) = Len(w) - n /\ \A k \in 1 .. (Len(w) - n) : v[k] = w[n + k]
  BY <1>0
<1> HIDE DEF u, v
<1>3. LiesAt(u, Len(u), s, at + Len(b))
  <2>1. (at + Len(b)) + n <= Len(s)
    BY <1>0 DEF LiesAt
  <2>2. ASSUME NEW k \in 1 .. n PROVE s[(at + Len(b)) + k] = u[k]
    <3>1. k \in 1 .. Len(w)
      BY <1>0
    <3>2. s[(at + Len(b)) + k] = w[k]
      BY <3>1 DEF LiesAt
    <3>. QED
      BY <1>1, <3>2
  <2>. QED
    BY <1>1, <2>1, <2>2 DEF LiesAt
<1>4. c \in Seq(S) /\ Len(c) = Len(b) + n /\ LiesAt(c, Len(c), s, at)
  <2>1. b \o u \in Seq(S) /\ Len(b \o u) = Len(b) + Len(u) /\ LiesAt(b \o u, Len(b \o u), s, at)
    BY <1>1, <1>3, LiesJoined
  <2>. QED
    BY <1>1, <2>1
<1> HIDE DEF c
<1>5. (at + Len(c)) + (Len(w) - n) <= Len(s)
  BY <1>0, <1>4 DEF LiesAt
<1>6. ASSUME NEW k \in 1 .. (Len(w) - n) PROVE s[(at + Len(c)) + k] = v[k]
  <2>1. n + k \in 1 .. Len(w) /\ (at + Len(b)) + (n + k) = (at + Len(c)) + k
    BY <1>0, <1>4
  <2>2. s[(at + Len(b)) + (n + k)] = w[n + k]
    BY <2>1 DEF LiesAt
  <2>. QED
    BY <1>2, <2>1, <2>2
<1>7. LiesAt(v, Len(v), s, at + Len(c))
  BY <1>2, <1>5, <1>6 DEF LiesAt
<1>. QED
  BY <1>2, <1>4, <1>7 DEF c, v, u

(* What remains after the first n bytes lies n bytes further. *)
LEMMA LiesBehind ==
  ASSUME NEW S, NEW s, NEW b \in Seq(S), NEW at \in Nat, NEW n \in 0 .. Len(b),
         LiesAt(b, Len(b), s, at), Len(s) \in Nat
  PROVE  LET c == SubSeq(b, n + 1, Len(b))
         IN  c \in Seq(S) /\ Len(c) = Len(b) - n /\ LiesAt(c, Len(c), s, at + n)
<1> DEFINE c == SubSeq(b, n + 1, Len(b))
<1>0. Len(b) \in Nat /\ n \in Nat
  OBVIOUS
<1>1. c \in Seq(S) /\ Len(c) = Len(b) - n /\ \A k \in 1 .. (Len(b) - n) : c[k] = b[n + k]
  BY <1>0
<1> HIDE DEF c
<1>2. ASSUME NEW k \in 1 .. (Len(b) - n) PROVE s[(at + n) + k] = c[k]
  <2>1. n + k \in 1 .. Len(b) /\ at + (n + k) = (at + n) + k
    BY <1>0
  <2>2. s[at + (n + k)] = b[n + k]
    BY <2>1 DEF LiesAt
  <2>. QED
    BY <1>1, <2>1, <2>2
<1>3. (at + n) + (Len(b) - n) <= Len(s)
  BY <1>0 DEF LiesAt
<1>4. LiesAt(c, Len(c), s, at + n)
  BY <1>1, <1>2, <1>3 DEF LiesAt
<1>. QED
  BY <1>1, <1>4 DEF c

(* One write_some: the next n bytes of the message go behind the stream    *)
(* and behind what is in the socket.                                       *)
LEMMA LiesWritten ==
  ASSUME NEW S, NEW s \in Seq(S), NEW m \in Seq(S), NEW w \in Seq(S),
         NEW o \in Nat, NEW n \in Nat, o + n <= Len(m),
         NEW at \in Nat, at + o = Len(s), LiesAt(m, o, s, at),
         NEW a \in Nat, a + Len(w) = Len(s), LiesAt(w, Len(w), s, a)
  PROVE  LET p == SubSeq(m, o + 1, o + n)
         IN  /\ p \in Seq(S) /\ Len(p) = n
             /\ s \o p \in Seq(S) /\ Len(s \o p) = Len(s) + n
             /\ LiesAt(m, o + n, s \o p, at)
             /\ w \o p \in Seq(S) /\ Len(w \o p) = Len(w) + n
             /\ LiesAt(w \o p, Len(w \o p), s \o p, a)
<1> DEFINE p == SubSeq(m, o + 1, o + n)
<1>0. Len(s) \in Nat /\ Len(m) \in Nat /\ Len(w) \in Nat
  OBVIOUS
<1>1. p \in Seq(S) /\ Len(p) = n /\ \A k \in 1 .. n : p[k] = m[o + k]
  BY <1>0
<1> HIDE DEF p
<1> DEFINE t == s \o p
<1>2. t \in Seq(S) /\ Len(t) = Len(s) + n
  BY <1>1, ConcatProperties
<1>3. LiesAt(p, Len(p), t, Len(s))
  BY <1>1, LiesLast
<1>4. LiesAt(m, o, t, at) /\ LiesAt(w, Len(w), t, a)
  BY <1>0, <1>1, LiesOn
<1> HIDE DEF t
<1>5. w \o p \in Seq(S) /\ Len(w \o p) = Len(w) + n /\ LiesAt(w \o p, Len(w \o p), t, a)
  <2>1. LiesAt(p, Len(p), t, a + Len(w))
    BY <1>3
  <2>2. w \o p \in Seq(S) /\ Len(w \o p) = Len(w) + Len(p) /\ LiesAt(w \o p, Len(w \o p), t, a)
    BY <1>1, <1>2, <1>4, <2>1, LiesJoined
  <2>. QED
    BY <1>1, <2>2
<1>6. ASSUME NEW k \in 1 .. (o + n) PROVE t[at + k] = m[k]
  <2>1. CASE k <= o
    BY <1>4, <2>1 DEF LiesAt
  <2>2. CASE ~(k <= o)
    <3>1. PICK j \in 1 .. n : j = k - o
      BY <2>2
    <3>2. Len(s) + j = at + k /\ o + j = k
      BY <1>0, <3>1
    <3>3. t[Len(s) + j] = p[j]
      BY <1>1, <1>3, <3>1 DEF LiesAt
    <3>. QED
      BY <1>1, <3>2, <3>3
  <2>. QED
    BY <2>1, <2>2
<1>7. LiesAt(m, o + n, t, at)
  BY <1>0, <1>2, <1>6 DEF LiesAt
<1>. QED
  BY <1>1, <1>2, <1>5, <1>7 DEF p, t

(* The next message begins where buffer_ begins: its size is read right,   *)
(* and if buffer_ has it to its end, then what is cut out is the message.  *)
LEMMA FrameFound ==
  ASSUME NEW s \in Seq(Byte), NEW b \in Seq(Byte), NEW f \in Frames,
         NEW at \in Nat, NEW j \in HeaderSize .. Len(f),
         LiesAt(f, j, s, at), LiesAt(b, Len(b), s, at), HeaderSize <= Len(b)
  PROVE  /\ HeaderSize + MessageSize(b) = Len(f)
         /\ (Len(f) <= Len(b) /\ j = Len(f)) => SubSeq(b, 1, Len(f)) = f
<1>1. f \in Seq(Byte) /\ Len(f) \in Nat /\ HeaderSize + MessageSize(f) = Len(f)
  BY FrameHeader
<1>2. \A k \in 1 .. j : k <= Len(b) => b[k] = f[k]
  BY <1>1 DEF LiesAt, HeaderSize
<1>3. b[1] = f[1] /\ b[2] = f[2] /\ b[3] = f[3]
  BY <1>1, <1>2 DEF HeaderSize
<1>4. HeaderSize + MessageSize(b) = Len(f)
  BY <1>1, <1>3 DEF MessageSize
<1>5. ASSUME Len(f) <= Len(b), j = Len(f) PROVE SubSeq(b, 1, Len(f)) = f
  <2>1. PICK n \in Nat : n = Len(f)
    BY <1>1
  <2>2. Len(b) \in Nat /\ n <= Len(b) /\ n > 0
    BY <1>5, <2>1, FrameHeader DEF HeaderSize
  <2>3. SubSeq(b, 1, n) \in Seq(Byte) /\ Len(SubSeq(b, 1, n)) = n
        /\ \A k \in 1 .. n : SubSeq(b, 1, n)[k] = b[k]
    BY <2>2
  <2>4. \A k \in 1 .. n : b[k] = f[k]
    BY <1>2, <1>5, <2>1, <2>2
  <2>. QED
    BY <1>1, <2>1, <2>3, <2>4, SeqEqual
<1>. QED
  BY <1>4, <1>5

(* EndOf, for given ends in a given stream. *)
EndIn(i, e, s) == IF i = 0 THEN 0 ELSE IF i <= Len(e) THEN e[i] ELSE Len(s)

(* The messages sn lie in the stream one behind the other. *)
AllLie(sn, e, s) ==
  \A i \in 1 .. Len(sn) : /\ EndIn(i, e, s) = EndIn(i - 1, e, s) + Len(sn[i])
                          /\ LiesAt(sn[i], Len(sn[i]), s, EndIn(i - 1, e, s))

(* A sender that does not write has written nothing of its message. *)
Sending ==
  /\ message \in [Senders -> Frames \cup {<< >>}] /\ offset \in [Senders -> Nat]
  /\ lock \in Senders \cup {NoSender}
  /\ \A t \in Senders : IF t = lock THEN message[t] # << >> /\ offset[t] <= Len(message[t])
                        ELSE offset[t] = 0
(* The messages sent lie in the stream one behind the other, ... *)
SentLie ==
  /\ sent \in Seq(Frames) /\ ends \in Seq(Nat) /\ Len(ends) = Len(sent)
  /\ stream \in Seq(Byte) /\ AllLie(sent, ends, stream)
(* ... then what was taken of the message being sent ... *)
PartLies ==
  LET last == EndIn(Len(sent), ends, stream)
  IN  /\ last + (IF lock = NoSender THEN 0 ELSE offset[lock]) = Len(stream)
      /\ lock # NoSender => LiesAt(message[lock], offset[lock], stream, last)
(* ... and buffer_ and the socket hold what comes behind the messages      *)
(* processed.                                                              *)
RestLies ==
  LET done == EndIn(Len(dispatched), ends, stream)
  IN  /\ buffer \in Seq(Byte) /\ wire \in Seq(Byte) /\ dispatched \in Seq(Frames)
      /\ Len(dispatched) <= Len(Written)
      /\ \A i \in 1 .. Len(dispatched) : dispatched[i] = Written[i]
      /\ done + Len(buffer) + Len(wire) = Len(stream)
      /\ LiesAt(buffer, Len(buffer), stream, done)
      /\ LiesAt(wire, Len(wire), stream, done + Len(buffer))
(* The inductive invariant, while no message is torn. *)
FramingInv == Sending /\ SentLie /\ PartLies /\ RestLies

(* Ends are numbers. *)
LEMMA EndsAreNat ==
  ASSUME NEW e \in Seq(Nat), NEW S, NEW s \in Seq(S), NEW i \in Nat
  PROVE  EndIn(i, e, s) \in Nat
<1>1. Len(e) \in Nat /\ Len(s) \in Nat /\ \A k \in 1 .. Len(e) : e[k] \in Nat
  OBVIOUS
<1>. QED
  BY <1>1 DEF EndIn

(* The messages written are the messages sent and perhaps the current one. *)
LEMMA WrittenIs ==
  ASSUME Sending, SentLie
  PROVE  /\ Len(sent) \in Nat /\ Len(stream) \in Nat /\ Written \in Seq(Frames)
         /\ \A i \in 1 .. Len(sent) : Written[i] = sent[i]
         /\ lock = NoSender => Written = sent
         /\ lock # NoSender => /\ lock \in Senders /\ message[lock] \in Frames
                               /\ offset[lock] \in 0 .. Len(message[lock])
                               /\ offset[lock] < Len(message[lock]) => Written = sent
                               /\ offset[lock] = Len(message[lock]) =>
                                    Written = Append(sent, message[lock])
<1>1. Len(sent) \in Nat /\ Len(stream) \in Nat /\ sent \in Seq(Frames)
  BY DEF SentLie
<1>2. CASE lock = NoSender
  BY <1>1, <1>2 DEF Written
<1>3. CASE lock # NoSender
  <2>1. PICK t \in Senders : t = lock
    BY <1>3 DEF Sending
  <2>2. message[t] \in Frames /\ offset[t] \in Nat /\ offset[t] <= Len(message[t])
    BY <2>1 DEF Sending
  <2>3. Len(message[t]) \in Nat
    BY <2>2, FrameHeader
  <2>4. CASE offset[t] < Len(message[t])
    BY <1>1, <1>3, <2>1, <2>2, <2>3, <2>4 DEF Written, Rest
  <2>5. CASE ~(offset[t] < Len(message[t]))
    <3>1. Written = Append(sent, message[t])
      BY <1>3, <2>1, <2>2, <2>3, <2>5 DEF Written, Rest
    <3>2. Append(sent, message[t]) \in Seq(Frames)
          /\ \A i \in 1 .. Len(sent) : Append(sent, message[t])[i] = sent[i]
      BY <1>1, <2>2
    <3>. QED
      BY <1>1, <1>3, <2>1, <2>2, <2>3, <2>5, <3>1, <3>2
  <2>. QED
    BY <2>4, <2>5
<1>. QED
  BY <1>2, <1>3

(* Nothing is sent. *)
LEMMA FramingStarts == FramingInit => FramingInv
<1> SUFFICES ASSUME FramingInit PROVE FramingInv
  OBVIOUS
<1>1. NoSender \notin Senders
  BY FramingAssumption
<1>2. Sending
  BY <1>1 DEF FramingInit, Sending
<1>3. \A S : << >> \in Seq(S)
  OBVIOUS
<1>4. SentLie
  BY <1>3 DEF FramingInit, SentLie, AllLie
<1>5. EndIn(0, << >>, << >>) = 0 /\ Len(<< >>) = 0
  BY DEF EndIn
<1>6. PartLies
  BY <1>5 DEF FramingInit, PartLies
<1>7. Written = << >>
  BY DEF FramingInit, Written
<1>8. LiesAt(<< >>, 0, << >>, 0)
  BY <1>5 DEF LiesAt
<1>9. RestLies
  BY <1>3, <1>5, <1>7, <1>8 DEF FramingInit, RestLies
<1>. QED
  BY <1>2, <1>4, <1>6, <1>9 DEF FramingInv

(* What the processor of the messages does leaves the senders alone. *)
LEMMA SendersAlone ==
  ASSUME FramingInv, UNCHANGED <<sendVars, streamVars>>
  PROVE  /\ Sending' /\ SentLie' /\ PartLies' /\ Written' = Written
         /\ UNCHANGED <<message, offset, lock, sent, torn, stream, ends>>
<1>1. UNCHANGED <<message, offset, lock, sent, torn, stream, ends>>
  BY DEF sendVars, streamVars
<1>2. Sending' /\ SentLie' /\ PartLies'
  BY <1>1 DEF FramingInv, Sending, SentLie, PartLies
<1>3. Written' = Written
  BY <1>1 DEF Written, Rest
<1>. QED
  BY <1>1, <1>2, <1>3

(* A read cuts the stream anywhere. *)
LEMMA ReceiveKeeps ==
  ASSUME FramingInv, NEW n \in 1 .. MaxRead, Receive(n)
  PROVE  FramingInv'
<1>1. /\ Sending' /\ SentLie' /\ PartLies' /\ Written' = Written
      /\ UNCHANGED <<stream, ends, dispatched>>
  BY SendersAlone DEF Receive
<1>2. SentLie /\ RestLies /\ stream \in Seq(Byte) /\ ends \in Seq(Nat)
  BY DEF FramingInv, SentLie
<1>3. PICK at \in Nat : at = EndIn(Len(dispatched), ends, stream)
  <2>1. Len(dispatched) \in Nat
    BY <1>2 DEF RestLies
  <2>. QED
    BY <1>2, <2>1, EndsAreNat
<1>4. /\ buffer \in Seq(Byte) /\ wire \in Seq(Byte) /\ dispatched \in Seq(Frames)
      /\ LiesAt(buffer, Len(buffer), stream, at) /\ LiesAt(wire, Len(wire), stream, at + Len(buffer))
      /\ at + Len(buffer) + Len(wire) = Len(stream)
      /\ Len(dispatched) <= Len(Written)
      /\ \A i \in 1 .. Len(dispatched) : dispatched[i] = Written[i]
  BY <1>2, <1>3 DEF RestLies
<1>5. n \in 1 .. Len(wire) /\ Len(wire) \in Nat /\ Len(buffer) \in Nat
  <2>1. MaxRead \in Nat
    BY FramingAssumption
  <2>. QED
    BY <1>4, <2>1 DEF Receive
<1>6. PICK s \in Seq(Byte) : s = stream
  BY <1>2
<1>7. PICK b \in Seq(Byte) : b = buffer
  BY <1>4
<1>8. PICK w \in Seq(Byte) : w = wire
  BY <1>4
<1>9. /\ b \o SubSeq(w, 1, n) \in Seq(Byte) /\ Len(b \o SubSeq(w, 1, n)) = Len(b) + n
      /\ LiesAt(b \o SubSeq(w, 1, n), Len(b \o SubSeq(w, 1, n)), s, at)
      /\ SubSeq(w, n + 1, Len(w)) \in Seq(Byte) /\ Len(SubSeq(w, n + 1, Len(w))) = Len(w) - n
      /\ LiesAt(SubSeq(w, n + 1, Len(w)), Len(SubSeq(w, n + 1, Len(w))), s,
                at + Len(b \o SubSeq(w, 1, n)))
  <2>1. n \in 1 .. Len(w) /\ LiesAt(b, Len(b), s, at) /\ LiesAt(w, Len(w), s, at + Len(b))
    BY <1>4, <1>5, <1>6, <1>7, <1>8
  <2>. QED
    BY <2>1, LiesReceived
<1>10. buffer' = b \o SubSeq(w, 1, n) /\ wire' = SubSeq(w, n + 1, Len(w))
  BY <1>7, <1>8 DEF Receive
<1>11. /\ buffer' \in Seq(Byte) /\ wire' \in Seq(Byte)
       /\ at + Len(buffer') + Len(wire') = Len(stream)
       /\ LiesAt(buffer', Len(buffer'), stream, at)
       /\ LiesAt(wire', Len(wire'), stream, at + Len(buffer'))
  <2>1. Len(buffer') = Len(buffer) + n /\ Len(wire') = Len(wire) - n
    BY <1>7, <1>8, <1>9, <1>10
  <2>2. at + Len(buffer') + Len(wire') = Len(stream)
    <3>1. at + Len(buffer) + Len(wire) = Len(stream) /\ n \in Nat
      BY <1>4, <1>5
    <3>2. at + (Len(buffer) + n) + (Len(wire) - n) = at + Len(buffer) + Len(wire)
      BY <1>5, <3>1
    <3>. QED
      BY <2>1, <3>1, <3>2
  <2>. QED
    BY <1>6, <1>9, <1>10, <2>2
<1>12. RestLies'
  BY <1>1, <1>3, <1>4, <1>11 DEF RestLies
<1>. QED
  BY <1>1, <1>12 DEF FramingInv

(* Where the messages processed end, the next message begins; if buffer_   *)
(* has all of it, then it was written completely.                          *)
LEMMA NextFrame ==
  ASSUME FramingInv, HeaderSize <= Len(buffer),
         NEW d \in Nat, d = Len(dispatched), NEW at \in Nat, at = EndIn(d, ends, stream)
  PROVE  \E f \in Frames : \E j \in HeaderSize .. Len(f) :
           /\ LiesAt(f, j, stream, at)
           /\ Len(f) <= Len(buffer) => /\ j = Len(f) /\ d + 1 <= Len(Written) /\ Written[d + 1] = f
                                       /\ EndIn(d + 1, ends, stream) = at + Len(f)
<1>1. Sending /\ SentLie /\ PartLies /\ RestLies
  BY DEF FramingInv
<1>2. PICK l \in Nat : l = Len(sent)
  BY <1>1, WrittenIs
<1>3. /\ Len(ends) = l /\ sent \in Seq(Frames) /\ Len(stream) \in Nat
      /\ Len(buffer) \in Nat /\ Len(wire) \in Nat
      /\ at + Len(buffer) + Len(wire) = Len(stream) /\ d <= Len(Written)
  BY <1>1, <1>2, WrittenIs DEF SentLie, RestLies
<1>4. at < Len(stream)
  BY <1>3 DEF HeaderSize
<1>5. CASE d < l
  <2>1. d + 1 \in 1 .. l /\ (d + 1) - 1 = d
    BY <1>5
  <2>2. PICK f \in Frames : f = sent[d + 1]
    BY <1>2, <1>3, <2>1
  <2>3. EndIn(d + 1, ends, stream) = at + Len(f) /\ LiesAt(f, Len(f), stream, at)
    BY <1>1, <1>2, <2>1, <2>2 DEF SentLie, AllLie
  <2>4. d + 1 <= Len(Written) /\ Written[d + 1] = f
    <3>1. Len(Written) \in Nat /\ l <= Len(Written)
      <4>1. CASE lock = NoSender
        BY <1>1, <1>2, <4>1, WrittenIs
      <4>2. CASE lock # NoSender
        <5>1. Written = sent \/ Written = Append(sent, message[lock])
          BY <1>1, <4>2, WrittenIs
        <5>. QED
          BY <1>2, <1>3, <5>1
      <4>. QED
        BY <4>1, <4>2
    <3>. QED
      BY <1>1, <1>2, <2>1, <2>2, <3>1, WrittenIs
  <2>5. Len(f) \in HeaderSize .. Len(f)
    BY FrameHeader DEF HeaderSize
  <2>. QED
    BY <2>3, <2>4, <2>5
<1>6. CASE d = l
  <2>1. lock # NoSender
    BY <1>1, <1>2, <1>3, <1>4, <1>6 DEF PartLies
  <2>2. PICK f \in Frames : f = message[lock]
    BY <1>1, <2>1, WrittenIs
  <2>3. PICK j \in Nat : j = offset[lock]
    BY <1>1, <2>1, WrittenIs
  <2>4. Len(f) \in Nat /\ j <= Len(f)
    BY <1>1, <2>1, <2>2, <2>3, WrittenIs, FrameHeader
  <2>5. at + j = Len(stream) /\ LiesAt(f, j, stream, at)
    BY <1>1, <1>2, <1>6, <2>1, <2>2, <2>3 DEF PartLies
  <2>6. j \in HeaderSize .. Len(f)
    BY <1>3, <2>4, <2>5 DEF HeaderSize
  <2>7. ASSUME Len(f) <= Len(buffer)
        PROVE  /\ j = Len(f) /\ d + 1 <= Len(Written) /\ Written[d + 1] = f
               /\ EndIn(d + 1, ends, stream) = at + Len(f)
    <3>1. j = Len(f)
      BY <1>3, <2>4, <2>5, <2>7
    <3>2. Written = Append(sent, f)
      BY <1>1, <2>1, <2>2, <2>3, <3>1, WrittenIs
    <3>3. Len(Written) = d + 1 /\ Written[d + 1] = f
      BY <1>2, <1>3, <1>6, <3>2
    <3>4. EndIn(d + 1, ends, stream) = Len(stream)
      BY <1>3, <1>6 DEF EndIn
    <3>. QED
      BY <2>5, <3>1, <3>3, <3>4
  <2>. QED
    BY <2>5, <2>6, <2>7
<1>7. CASE d > l
  <2>1. EndIn(d, ends, stream) = Len(stream)
    BY <1>3, <1>7 DEF EndIn
  <2>. QED
    BY <1>4, <2>1
<1>. QED
  BY <1>5, <1>6, <1>7

(* A round of process_data cuts out the next message, or nothing. *)
LEMMA ParseStepKeeps ==
  ASSUME FramingInv, ParseStep
  PROVE  FramingInv'
<1>1. /\ Sending' /\ SentLie' /\ PartLies' /\ Written' = Written
      /\ UNCHANGED <<stream, ends, wire>>
  BY SendersAlone DEF ParseStep
<1>2. SentLie /\ RestLies /\ stream \in Seq(Byte) /\ ends \in Seq(Nat) /\ Len(stream) \in Nat
  BY DEF FramingInv, SentLie
<1>3. PICK d \in Nat : d = Len(dispatched)
  BY <1>2 DEF RestLies
<1>4. PICK at \in Nat : at = EndIn(d, ends, stream)
  BY <1>2, EndsAreNat
<1>5. PICK s \in Seq(Byte) : s = stream
  BY <1>2
<1>6. PICK b \in Seq(Byte) : b = buffer
  BY <1>2 DEF RestLies
<1>7. /\ wire \in Seq(Byte) /\ dispatched \in Seq(Frames)
      /\ LiesAt(b, Len(b), s, at) /\ LiesAt(wire, Len(wire), s, at + Len(b))
      /\ at + Len(b) + Len(wire) = Len(s) /\ Len(wire) \in Nat /\ Len(b) \in Nat
      /\ d <= Len(Written)
      /\ \A i \in 1 .. d : dispatched[i] = Written[i]
  BY <1>2, <1>3, <1>4, <1>5, <1>6 DEF RestLies
<1>8. HeaderSize <= Len(b) /\ HeaderSize <= Len(buffer)
  BY <1>6, <1>7 DEF ParseStep, HeaderSize
<1>9. PICK f \in Frames : \E j \in HeaderSize .. Len(f) :
           /\ LiesAt(f, j, stream, at)
           /\ Len(f) <= Len(buffer) => /\ j = Len(f) /\ d + 1 <= Len(Written) /\ Written[d + 1] = f
                                       /\ EndIn(d + 1, ends, stream) = at + Len(f)
  BY <1>3, <1>4, <1>8, NextFrame
<1>10. PICK j \in HeaderSize .. Len(f) :
           /\ LiesAt(f, j, s, at)
           /\ Len(f) <= Len(b) => /\ j = Len(f) /\ d + 1 <= Len(Written) /\ Written[d + 1] = f
                                  /\ EndIn(d + 1, ends, s) = at + Len(f)
  BY <1>5, <1>6, <1>9
<1>11. /\ HeaderSize + MessageSize(b) = Len(f)
       /\ (Len(f) <= Len(b) /\ j = Len(f)) => SubSeq(b, 1, Len(f)) = f
  BY <1>7, <1>8, <1>10, FrameFound
<1>12. Len(f) \in Nat /\ Len(f) >= HeaderSize
  BY FrameHeader
<1>13. CASE Len(b) < Len(f)
  <2>1. UNCHANGED <<buffer, dispatched>>
    BY <1>6, <1>11, <1>13 DEF ParseStep
  <2>2. RestLies'
    BY <1>1, <1>2, <2>1 DEF RestLies
  <2>. QED
    BY <1>1, <2>2 DEF FramingInv
<1>14. CASE ~(Len(b) < Len(f))
  <2>1. /\ j = Len(f) /\ d + 1 <= Len(Written) /\ Written[d + 1] = f
        /\ EndIn(d + 1, ends, s) = at + Len(f) /\ Len(f) <= Len(b)
    BY <1>7, <1>10, <1>12, <1>14
  <2>2. dispatched' = Append(dispatched, f) /\ buffer' = SubSeq(b, Len(f) + 1, Len(b))
    <3>1. dispatched' = Append(dispatched, SubSeq(buffer, 1, Len(f)))
          /\ buffer' = SubSeq(buffer, Len(f) + 1, Len(buffer))
      BY <1>6, <1>11, <1>14 DEF ParseStep
    <3>. QED
      BY <1>6, <1>11, <2>1, <3>1
  <2>3. /\ buffer' \in Seq(Byte) /\ Len(buffer') = Len(b) - Len(f)
        /\ LiesAt(buffer', Len(buffer'), s, at + Len(f))
    <3>1. Len(f) \in 0 .. Len(b) /\ Len(s) \in Nat
      BY <1>7, <1>12, <2>1
    <3>2. /\ SubSeq(b, Len(f) + 1, Len(b)) \in Seq(Byte)
          /\ Len(SubSeq(b, Len(f) + 1, Len(b))) = Len(b) - Len(f)
          /\ LiesAt(SubSeq(b, Len(f) + 1, Len(b)), Len(SubSeq(b, Len(f) + 1, Len(b))), s, at + Len(f))
      BY <1>7, <3>1, LiesBehind
    <3>. QED
      BY <2>2, <3>2
  <2>4. /\ dispatched' \in Seq(Frames) /\ Len(dispatched') = d + 1
        /\ \A i \in 1 .. (d + 1) : dispatched'[i] = Written[i]
    <3>1. /\ Append(dispatched, f) \in Seq(Frames) /\ Len(Append(dispatched, f)) = d + 1
          /\ Append(dispatched, f)[d + 1] = f
          /\ \A i \in 1 .. d : Append(dispatched, f)[i] = dispatched[i]
      BY <1>3, <1>7
    <3>2. ASSUME NEW i \in 1 .. (d + 1) PROVE dispatched'[i] = Written[i]
      <4>1. CASE i <= d
        <5>1. i \in 1 .. d
          BY <4>1
        <5>. QED
          BY <1>7, <2>2, <3>1, <5>1
      <4>2. CASE i = d + 1
        BY <2>1, <2>2, <3>1, <4>2
      <4>. QED
        BY <4>1, <4>2
    <3>. QED
      BY <2>2, <3>1, <3>2
  <2>5. (at + Len(f)) + Len(buffer') + Len(wire) = Len(s) /\ (at + Len(f)) + Len(buffer') = at + Len(b)
    <3>1. Len(b) \in Nat /\ Len(wire) \in Nat /\ at + Len(b) + Len(wire) = Len(s)
          /\ Len(f) \in Nat /\ Len(buffer') = Len(b) - Len(f)
      BY <1>7, <1>12, <2>3
    <3>2. (at + Len(f)) + (Len(b) - Len(f)) = at + Len(b)
      BY <3>1
    <3>. QED
      BY <3>1, <3>2
  <2>6. EndIn(Len(dispatched'), ends', stream') = at + Len(f)
    BY <1>1, <1>5, <2>1, <2>4
  <2>7. RestLies'
    BY <1>1, <1>5, <1>7, <2>1, <2>3, <2>4, <2>5, <2>6 DEF RestLies
  <2>. QED
    BY <1>1, <2>7 DEF FramingInv
<1>. QED
  BY <1>13, <1>14

(* The other ends of the loop of process_data. *)
LEMMA ParseEndsKeeps ==
  ASSUME FramingInv, ParseEnds \/ ParseOverruns
  PROVE  FramingInv'
<1>1. UNCHANGED <<sendVars, streamVars, wire, buffer, dispatched>>
  BY DEF ParseEnds, ParseOverruns
<1>2. /\ Sending' /\ SentLie' /\ PartLies' /\ Written' = Written
      /\ UNCHANGED <<stream, ends>>
  BY <1>1, SendersAlone
<1>3. RestLies'
  BY <1>1, <1>2 DEF FramingInv, RestLies
<1>. QED
  BY <1>2, <1>3 DEF FramingInv

(* A sender begins while another may be writing. *)
LEMMA SendStartsKeeps ==
  ASSUME FramingInv, NEW t \in Senders, NEW m \in Messages, SendStarts(t, m)
  PROVE  FramingInv'
<1>1. Sending /\ SentLie /\ PartLies /\ RestLies
  BY DEF FramingInv
<1>2. /\ message[t] = << >> /\ message' = [message EXCEPT ![t] = Framed(m)]
      /\ UNCHANGED <<offset, lock, sent, torn, wire, stream, ends, buffer, dispatched>>
  BY DEF SendStarts, streamVars, processorVars
<1>3. t # lock /\ Framed(m) \in Frames
  BY <1>1, <1>2 DEF Sending, Frames
<1>4. \A u \in Senders : u # t => message'[u] = message[u]
  BY <1>1, <1>2 DEF Sending
<1>5. Sending'
  BY <1>1, <1>2, <1>3 DEF Sending
<1>6. lock # NoSender => message'[lock] = message[lock]
  BY <1>1, <1>3, <1>4 DEF Sending
<1>7. SentLie' /\ PartLies'
  BY <1>1, <1>2, <1>6 DEF SentLie, PartLies
<1>8. Written' = Written
  BY <1>2, <1>6 DEF Written, Rest
<1>9. RestLies'
  BY <1>1, <1>2, <1>8 DEF RestLies
<1>. QED
  BY <1>5, <1>7, <1>9 DEF FramingInv

(* The sender that gets the lock has written nothing yet. *)
LEMMA TakeLockKeeps ==
  ASSUME FramingInv, NEW t \in Senders, TakeLock(t)
  PROVE  FramingInv'
<1>1. Sending /\ SentLie /\ PartLies /\ RestLies
  BY DEF FramingInv
<1>2. /\ message[t] # << >> /\ lock = NoSender /\ lock' = t
      /\ UNCHANGED <<message, offset, sent, torn, wire, stream, ends, buffer, dispatched>>
  BY DEF TakeLock, streamVars, processorVars
<1>3. t # NoSender /\ \A u \in Senders : u # NoSender
  BY FramingAssumption
<1>4. offset[t] = 0 /\ message[t] \in Frames
  BY <1>1, <1>2, <1>3 DEF Sending
<1>5. Len(message[t]) \in Nat /\ Len(message[t]) > 0
  BY <1>4, FrameHeader DEF HeaderSize
<1>6. Sending'
  BY <1>1, <1>2, <1>3, <1>4, <1>5 DEF Sending
<1>7. SentLie'
  BY <1>1, <1>2 DEF SentLie
<1>8. PartLies'
  <2>1. PICK last \in Nat : last = EndIn(Len(sent), ends, stream)
    BY <1>1, EndsAreNat DEF SentLie
  <2>2. last + 0 = Len(stream) /\ Len(stream) \in Nat
    BY <1>1, <1>2, <2>1, WrittenIs DEF PartLies
  <2>3. LiesAt(message[t], 0, stream, last)
    BY <2>2 DEF LiesAt
  <2>. QED
    BY <1>2, <1>3, <1>4, <2>1, <2>2, <2>3 DEF PartLies
<1>9. Written = sent /\ Written' = sent
  BY <1>2, <1>4, <1>5 DEF Written, Rest
<1>10. RestLies'
  BY <1>1, <1>2, <1>9 DEF RestLies
<1>. QED
  BY <1>6, <1>7, <1>8, <1>10 DEF FramingInv

(* try_again before anything was taken: the sender waits for the lock. *)
LEMMA WriteAgainKeeps ==
  ASSUME FramingInv, NEW t \in Senders, WriteAgain(t), ~torn'
  PROVE  FramingInv'
<1>1. Sending /\ SentLie /\ PartLies /\ RestLies
  BY DEF FramingInv
<1>2. /\ lock = t /\ lock' = NoSender /\ offset' = [offset EXCEPT ![t] = 0] /\ ~(offset[t] > 0)
      /\ UNCHANGED <<message, sent, wire, stream, ends, buffer, dispatched>>
  BY DEF WriteAgain, streamVars, processorVars
<1>3. t # NoSender /\ \A u \in Senders : u # NoSender
  BY FramingAssumption
<1>4. offset[t] = 0 /\ message[t] \in Frames
  BY <1>1, <1>2 DEF Sending
<1>5. Len(message[t]) \in Nat /\ Len(message[t]) > 0
  BY <1>4, FrameHeader DEF HeaderSize
<1>6. Sending'
  BY <1>1, <1>2, <1>3 DEF Sending
<1>7. SentLie'
  BY <1>1, <1>2 DEF SentLie
<1>8. PartLies'
  BY <1>1, <1>2, <1>3, <1>4 DEF PartLies
<1>9. Written = sent /\ Written' = sent
  BY <1>2, <1>3, <1>4, <1>5 DEF Written, Rest
<1>10. RestLies'
  BY <1>1, <1>2, <1>9 DEF RestLies
<1>. QED
  BY <1>6, <1>7, <1>8, <1>10 DEF FramingInv

(* The message is complete: it is the next of the messages sent. *)
LEMMA SendEndsKeeps ==
  ASSUME FramingInv, NEW t \in Senders, SendEnds(t)
  PROVE  FramingInv'
<1>1. Sending /\ SentLie /\ PartLies /\ RestLies
  BY DEF FramingInv
<1>2. /\ lock = t /\ lock' = NoSender /\ offset[t] = Len(message[t])
      /\ sent' = Append(sent, message[t]) /\ ends' = Append(ends, Len(stream))
      /\ message' = [message EXCEPT ![t] = << >>] /\ offset' = [offset EXCEPT ![t] = 0]
      /\ UNCHANGED <<wire, stream, buffer, dispatched>>
  BY DEF SendEnds, processorVars
<1>3. t # NoSender /\ \A u \in Senders : u # NoSender
  BY FramingAssumption
<1>4. PICK f \in Frames : f = message[t]
  BY <1>1, <1>2 DEF Sending
<1>5. PICK l \in Nat : l = Len(sent)
  BY <1>1, WrittenIs
<1>6. PICK e \in Seq(Nat) : e = ends
  BY <1>1 DEF SentLie
<1>7. PICK s \in Seq(Byte) : s = stream
  BY <1>1 DEF SentLie
<1>8. PICK last \in Nat : last = EndIn(l, e, s)
  BY EndsAreNat
<1>9. Len(e) = l /\ Len(s) \in Nat /\ Len(f) \in Nat /\ AllLie(sent, e, s) /\ sent \in Seq(Frames)
  BY <1>1, <1>5, <1>6, <1>7, FrameHeader DEF SentLie
<1>10. last + Len(f) = Len(s) /\ LiesAt(f, Len(f), s, last)
  BY <1>1, <1>2, <1>3, <1>4, <1>5, <1>6, <1>7, <1>8 DEF PartLies
<1>11. Sending'
  BY <1>1, <1>2, <1>3 DEF Sending
<1>12. PICK g \in Seq(Nat) : g = ends'
  <2>1. Append(e, Len(s)) \in Seq(Nat)
    BY <1>9, AppendProperties
  <2>. QED
    BY <1>2, <1>6, <1>7, <2>1
<1>13. Len(g) = l + 1 /\ g[l + 1] = Len(s) /\ \A i \in 1 .. l : g[i] = e[i]
  BY <1>2, <1>6, <1>7, <1>9, <1>12
<1>14. \A i \in 0 .. (l + 1) : EndIn(i, g, s) = EndIn(i, e, s)
  <2>1. ASSUME NEW i \in 0 .. (l + 1) PROVE EndIn(i, g, s) = EndIn(i, e, s)
    <3>1. CASE i = 0
      BY <3>1 DEF EndIn
    <3>2. CASE i \in 1 .. l
      BY <1>9, <1>13, <3>2 DEF EndIn
    <3>3. CASE i = l + 1
      BY <1>9, <1>13, <3>3 DEF EndIn
    <3>. QED
      BY <3>1, <3>2, <3>3
  <2>. QED
    BY <2>1
<1>15. EndIn(l + 1, g, s) = Len(s)
  BY <1>13 DEF EndIn
<1>16. PICK n \in Seq(Frames) : n = sent'
  <2>1. Append(sent, f) \in Seq(Frames)
    BY <1>9, AppendProperties
  <2>. QED
    BY <1>2, <1>4, <2>1
<1>17. Len(n) = l + 1 /\ n[l + 1] = f /\ \A i \in 1 .. l : n[i] = sent[i]
  BY <1>2, <1>4, <1>5, <1>9, <1>16
<1>18. AllLie(n, g, s)
  <2>1. ASSUME NEW i \in 1 .. (l + 1)
        PROVE  /\ EndIn(i, g, s) = EndIn(i - 1, g, s) + Len(n[i])
               /\ LiesAt(n[i], Len(n[i]), s, EndIn(i - 1, g, s))
    <3>1. i \in 0 .. (l + 1) /\ i - 1 \in 0 .. (l + 1)
      OBVIOUS
    <3>2. EndIn(i, g, s) = EndIn(i, e, s) /\ EndIn(i - 1, g, s) = EndIn(i - 1, e, s)
      BY <1>14, <3>1
    <3>3. CASE i <= l
      <4>1. i \in 1 .. l /\ i \in 1 .. Len(sent)
        BY <1>5, <3>3
      <4>2. /\ EndIn(i, e, s) = EndIn(i - 1, e, s) + Len(sent[i])
            /\ LiesAt(sent[i], Len(sent[i]), s, EndIn(i - 1, e, s))
        BY <1>9, <4>1 DEF AllLie
      <4>. QED
        BY <1>17, <3>2, <4>1, <4>2
    <3>4. CASE i = l + 1
      <4>1. EndIn(i, g, s) = Len(s) /\ EndIn(i - 1, g, s) = last /\ n[i] = f
        BY <1>8, <1>15, <1>17, <3>2, <3>4
      <4>. QED
        BY <1>10, <4>1
    <3>. QED
      BY <3>3, <3>4
  <2>. QED
    BY <1>17, <2>1 DEF AllLie
<1>19. SentLie'
  BY <1>2, <1>7, <1>12, <1>13, <1>16, <1>17, <1>18 DEF SentLie
<1>20. PartLies'
  <2>1. EndIn(Len(sent'), ends', stream') = Len(s)
    BY <1>2, <1>7, <1>12, <1>15, <1>16, <1>17
  <2>. QED
    BY <1>2, <1>7, <1>9, <2>1 DEF PartLies
<1>21. Written' = Written
  <2>1. Written = Append(sent, message[t])
    BY <1>1, <1>2, <1>3, WrittenIs
  <2>. QED
    BY <1>2, <2>1 DEF Written
<1>22. RestLies'
  <2>1. PICK d \in Nat : d = Len(dispatched)
    BY <1>1 DEF RestLies
  <2>2. d \in 0 .. (l + 1)
    <3>1. d <= Len(Written) /\ Written = Append(sent, message[t])
      BY <1>1, <1>2, <1>3, <2>1, WrittenIs DEF RestLies
    <3>2. Len(Append(sent, f)) = l + 1
      BY <1>5, <1>9
    <3>. QED
      BY <1>4, <2>1, <3>1, <3>2
  <2>3. EndIn(d, ends', stream') = EndIn(d, ends, stream)
    BY <1>2, <1>6, <1>7, <1>12, <1>14, <2>2
  <2>4. EndIn(Len(dispatched'), ends', stream') = EndIn(Len(dispatched), ends, stream)
    BY <1>2, <2>1, <2>3
  <2>. QED
    BY <1>1, <1>2, <1>21, <2>4 DEF RestLies
<1>. QED
  BY <1>11, <1>19, <1>20, <1>22 DEF FramingInv

(* The messages sent stay where they are when more is written. *)
LEMMA AllLieOn ==
  ASSUME NEW sn \in Seq(Frames), NEW e \in Seq(Nat), NEW s \in Seq(Byte), NEW p \in Seq(Byte),
         Len(e) = Len(sn), AllLie(sn, e, s)
  PROVE  /\ AllLie(sn, e, s \o p)
         /\ \A i \in 0 .. Len(sn) : EndIn(i, e, s \o p) = EndIn(i, e, s)
<1>1. Len(sn) \in Nat
  OBVIOUS
<1>2. \A i \in 0 .. Len(sn) : EndIn(i, e, s \o p) = EndIn(i, e, s)
  BY <1>1 DEF EndIn
<1>3. ASSUME NEW i \in 1 .. Len(sn)
      PROVE  /\ EndIn(i, e, s \o p) = EndIn(i - 1, e, s \o p) + Len(sn[i])
             /\ LiesAt(sn[i], Len(sn[i]), s \o p, EndIn(i - 1, e, s \o p))
  <2>1. i \in 0 .. Len(sn) /\ i - 1 \in 0 .. Len(sn) /\ i - 1 \in Nat
    BY <1>1
  <2>2. EndIn(i, e, s \o p) = EndIn(i, e, s) /\ EndIn(i - 1, e, s \o p) = EndIn(i - 1, e, s)
    BY <1>2, <2>1
  <2>3. PICK at \in Nat : at = EndIn(i - 1, e, s)
    BY <2>1, EndsAreNat
  <2>4. PICK f \in Frames : f = sn[i]
    OBVIOUS
  <2>5. Len(f) \in Nat /\ LiesAt(f, Len(f), s, at) /\ EndIn(i, e, s) = at + Len(f)
    BY <2>3, <2>4, FrameHeader DEF AllLie
  <2>6. LiesAt(f, Len(f), s \o p, at)
    BY <2>5, LiesOn
  <2>. QED
    BY <2>2, <2>3, <2>4, <2>5, <2>6
<1>. QED
  BY <1>2, <1>3 DEF AllLie

(* What one write leaves in the stream and in the socket. *)
WrittenWell(p, s, f, w, o, n, last, a) ==
  /\ p \in Seq(Byte) /\ s \o p \in Seq(Byte) /\ w \o p \in Seq(Byte)
  /\ Len(s \o p) = Len(s) + n
  /\ last + (o + n) = Len(s \o p) /\ LiesAt(f, o + n, s \o p, last)
  /\ a + Len(w \o p) = Len(s \o p) /\ LiesAt(w \o p, Len(w \o p), s \o p, a)

(* A write leaves them well. *)
LEMMA WriteWell ==
  \A s, f, w \in Seq(Byte) : \A o, n, last, a \in Nat :
    (/\ o + n <= Len(f) /\ last + o = Len(s) /\ LiesAt(f, o, s, last)
     /\ a + Len(w) = Len(s) /\ LiesAt(w, Len(w), s, a))
    => WrittenWell(SubSeq(f, o + 1, o + n), s, f, w, o, n, last, a)
<1> TAKE s, f, w \in Seq(Byte)
<1> TAKE o, n, last, a \in Nat
<1> HAVE /\ o + n <= Len(f) /\ last + o = Len(s) /\ LiesAt(f, o, s, last)
         /\ a + Len(w) = Len(s) /\ LiesAt(w, Len(w), s, a)
<1> DEFINE p == SubSeq(f, o + 1, o + n)
<1>1. /\ p \in Seq(Byte) /\ Len(p) = n
      /\ s \o p \in Seq(Byte) /\ Len(s \o p) = Len(s) + n
      /\ LiesAt(f, o + n, s \o p, last)
      /\ w \o p \in Seq(Byte) /\ Len(w \o p) = Len(w) + n
      /\ LiesAt(w \o p, Len(w \o p), s \o p, a)
  BY LiesWritten
<1>2. Len(s) \in Nat /\ Len(w) \in Nat
  OBVIOUS
<1>3. PICK k \in Nat : k = Len(s)
  BY <1>2
<1>4. last + (o + n) = k + n
  <2>1. last + o = k
    BY <1>3
  <2>. QED
    BY <2>1
<1>5. a + (Len(w) + n) = k + n
  <2>1. PICK v \in Nat : v = Len(w)
    BY <1>2
  <2>2. a + v = k
    BY <1>3, <2>1
  <2>3. a + (v + n) = k + n
    BY <2>2
  <2>. QED
    BY <2>1, <2>3
<1>. QED
  BY <1>1, <1>3, <1>4, <1>5 DEF WrittenWell

(* A write of part of the message, or of its end. *)
LEMMA WriteSomeKeeps ==
  ASSUME FramingInv, NEW t \in Senders, WriteSome(t)
  PROVE  FramingInv'
<1>1. Sending /\ SentLie /\ PartLies /\ RestLies
  BY DEF FramingInv
<1>2. /\ lock = t /\ UNCHANGED <<message, lock, sent, torn, ends, buffer, dispatched>>
  BY DEF WriteSome, processorVars
<1>3. t # NoSender
  BY FramingAssumption
<1>4. PICK f \in Frames : f = message[t]
  BY <1>1, <1>2 DEF Sending
<1>5. PICK o \in Nat : o = offset[t]
  BY <1>1 DEF Sending
<1>6. f \in Seq(Byte) /\ Len(f) \in Nat /\ o <= Len(f)
  BY <1>1, <1>2, <1>4, <1>5, FrameHeader DEF Sending
<1>7. PICK s \in Seq(Byte) : s = stream
  BY <1>1 DEF SentLie
<1>8. PICK w \in Seq(Byte) : w = wire
  BY <1>1 DEF RestLies
<1>9. PICK n \in Nat : /\ n > 0 /\ o + n <= Len(f)
                       /\ wire' = w \o SubSeq(f, o + 1, o + n)
                       /\ stream' = s \o SubSeq(f, o + 1, o + n)
                       /\ offset' = [offset EXCEPT ![t] = o + n]
  <2> DEFINE n == IF Rest(t) <= Room THEN Rest(t) ELSE Room
  <2>1. Rest(t) = Len(f) - o /\ Rest(t) > 0 /\ Room > 0 /\ Room \in Int
    <3>1. Capacity \in Nat /\ Len(wire) \in Nat
      BY <1>8, FramingAssumption
    <3>. QED
      BY <1>4, <1>5, <3>1 DEF WriteSome, Rest, Room
  <2>2. n \in Nat /\ n > 0 /\ o + n <= Len(f)
    BY <1>6, <2>1
  <2>3. /\ wire' = w \o SubSeq(f, o + 1, o + n) /\ stream' = s \o SubSeq(f, o + 1, o + n)
        /\ offset' = [offset EXCEPT ![t] = o + n]
    BY <1>4, <1>5, <1>7, <1>8 DEF WriteSome
  <2>. QED
    BY <2>2, <2>3
<1>10. PICK p : p = SubSeq(f, o + 1, o + n)
  OBVIOUS
<1>11. PICK l \in Nat : l = Len(sent)
  BY <1>1, WrittenIs
<1>12. PICK e \in Seq(Nat) : e = ends
  BY <1>1 DEF SentLie
<1>13. Len(e) = l /\ AllLie(sent, e, s) /\ sent \in Seq(Frames) /\ Len(s) \in Nat /\ Len(w) \in Nat
  BY <1>1, <1>7, <1>11, <1>12 DEF SentLie
<1>14. PICK last \in Nat : last = EndIn(l, e, s)
  BY EndsAreNat
<1>15. last + o = Len(s) /\ LiesAt(f, o, s, last)
  BY <1>1, <1>2, <1>3, <1>4, <1>5, <1>7, <1>11, <1>12, <1>14 DEF PartLies
<1>16. Written = sent /\ offset[t] < Len(message[t])
  <2>1. offset[t] < Len(message[t])
    <3>1. n > 0 /\ o + n <= Len(f) /\ Len(f) \in Nat
      BY <1>6, <1>9
    <3>2. o < Len(f)
      BY <3>1
    <3>. QED
      BY <1>4, <1>5, <3>2
  <2>. QED
    BY <1>1, <1>2, <1>3, <2>1, WrittenIs
<1>17. PICK d \in Nat : d = Len(dispatched)
  BY <1>1 DEF RestLies
<1>18. d <= l
  BY <1>1, <1>11, <1>16, <1>17 DEF RestLies
<1>19. PICK at \in Nat : at = EndIn(d, e, s)
  BY EndsAreNat
<1>20. /\ buffer \in Seq(Byte) /\ Len(buffer) \in Nat /\ at + Len(buffer) + Len(w) = Len(s)
       /\ LiesAt(buffer, Len(buffer), s, at) /\ LiesAt(w, Len(w), s, at + Len(buffer))
  BY <1>1, <1>7, <1>8, <1>12, <1>17, <1>19 DEF RestLies
<1>21. /\ p \in Seq(Byte) /\ s \o p \in Seq(Byte) /\ w \o p \in Seq(Byte)
       /\ Len(s \o p) = Len(s) + n
       /\ last + (o + n) = Len(s \o p) /\ LiesAt(f, o + n, s \o p, last)
       /\ at + Len(buffer) + Len(w \o p) = Len(s \o p)
       /\ LiesAt(w \o p, Len(w \o p), s \o p, at + Len(buffer))
  <2>1. at + Len(buffer) \in Nat
    BY <1>20
  <2>2. PICK a \in Nat : a = at + Len(buffer)
    BY <2>1
  <2>3. /\ o + n <= Len(f) /\ last + o = Len(s) /\ LiesAt(f, o, s, last)
        /\ a + Len(w) = Len(s) /\ LiesAt(w, Len(w), s, a)
    BY <1>9, <1>15, <1>20, <2>2
  <2>4. f \in Seq(Byte)
    BY <1>6
  <2>5. WrittenWell(SubSeq(f, o + 1, o + n), s, f, w, o, n, last, a)
    BY <2>3, <2>4, WriteWell, Zenon
  <2>6. WrittenWell(p, s, f, w, o, n, last, at + Len(buffer))
    BY <1>10, <2>2, <2>5, Zenon
  <2>. QED
    BY <2>6 DEF WrittenWell
<1>22. PICK r \in Seq(Byte) : r = s \o p
  BY <1>21
<1>23. /\ stream' = r /\ wire' = w \o p /\ Len(r) = Len(s) + n
       /\ AllLie(sent, e, r) /\ EndIn(l, e, r) = last /\ EndIn(d, e, r) = at
  <2>1. AllLie(sent, e, s \o p) /\ \A i \in 0 .. l : EndIn(i, e, s \o p) = EndIn(i, e, s)
    BY <1>11, <1>13, <1>21, AllLieOn
  <2>. QED
    BY <1>9, <1>10, <1>14, <1>18, <1>19, <1>21, <1>22, <2>1
<1>24. Sending'
  <2>1. offset' \in [Senders -> Nat] /\ offset'[t] = o + n
        /\ \A u \in Senders : u # t => offset'[u] = offset[u]
    BY <1>1, <1>9 DEF Sending
  <2>2. offset'[t] <= Len(message[t])
    BY <1>4, <1>9, <2>1
  <2>. QED
    BY <1>1, <1>2, <2>1, <2>2 DEF Sending
<1>25. offset'[t] = o + n
  BY <1>1, <1>9 DEF Sending
<1>26. SentLie'
  BY <1>1, <1>2, <1>12, <1>23 DEF SentLie
<1>27. PartLies'
  <2>1. EndIn(Len(sent'), ends', stream') = last
    BY <1>2, <1>11, <1>12, <1>23
  <2>2. last + (o + n) = Len(stream')
    BY <1>21, <1>22, <1>23
  <2>3. LiesAt(f, o + n, stream', last)
    BY <1>21, <1>22, <1>23
  <2>. QED
    BY <1>2, <1>3, <1>4, <1>25, <2>1, <2>2, <2>3 DEF PartLies
<1>28. Len(sent) <= Len(Written') /\ \A i \in 1 .. Len(sent) : Written'[i] = sent[i]
  <2>1. Written' = sent \/ Written' = Append(sent, f)
    BY <1>2, <1>4 DEF Written
  <2>2. Len(Append(sent, f)) = l + 1 /\ \A i \in 1 .. l : Append(sent, f)[i] = sent[i]
    BY <1>11, <1>13
  <2>3. CASE Written' = sent
    BY <1>11, <2>3
  <2>4. CASE Written' = Append(sent, f)
    <3>1. Len(Written') = l + 1 /\ l <= l + 1
      BY <2>2, <2>4
    <3>. QED
      BY <1>11, <2>2, <2>4, <3>1
  <2>. QED
    BY <2>1, <2>3, <2>4
<1>29. RestLies'
  <2>1. EndIn(Len(dispatched'), ends', stream') = at
    BY <1>2, <1>12, <1>17, <1>23
  <2>2. dispatched' \in Seq(Frames) /\ Len(dispatched') <= Len(Written')
        /\ \A i \in 1 .. Len(dispatched') : dispatched'[i] = Written'[i]
    <3>1. dispatched \in Seq(Frames) /\ \A i \in 1 .. d : dispatched[i] = sent[i]
      BY <1>1, <1>16, <1>17 DEF RestLies
    <3>2. d <= Len(Written') /\ \A i \in 1 .. d : Written'[i] = sent[i]
      <4>1. Len(Written') \in Nat
        <5>1. Written' = sent \/ Written' = Append(sent, f)
          BY <1>2, <1>4 DEF Written
        <5>. QED
          BY <1>13, <5>1
      <4>. QED
        BY <1>11, <1>18, <1>28, <4>1
    <3>. QED
      BY <1>2, <1>17, <3>1, <3>2
  <2>3. LiesAt(buffer, Len(buffer), stream', at)
    BY <1>20, <1>21, <1>22, <1>23, LiesOn
  <2>4. at + Len(buffer) + Len(wire') = Len(stream')
    BY <1>21, <1>22, <1>23
  <2>5. wire' \in Seq(Byte) /\ LiesAt(wire', Len(wire'), stream', at + Len(buffer))
    BY <1>21, <1>22, <1>23
  <2>. QED
    BY <1>2, <1>20, <2>1, <2>2, <2>3, <2>4, <2>5 DEF RestLies
<1>. QED
  BY <1>24, <1>26, <1>27, <1>29 DEF FramingInv

(* Every step keeps the messages whole, as long as none is torn. *)
LEMMA FramingKept ==
  ASSUME ~torn => FramingInv, [FramingNext]_framingVars
  PROVE  ~torn' => FramingInv'
<1> SUFFICES ASSUME ~torn' PROVE FramingInv'
  OBVIOUS
<1>1. ~torn
  BY DEF FramingNext, Sender, TakeLock, WriteSome, WriteAgain, SendEnds, SendStarts, ProcessData,
         Receive, ParseStep, ParseEnds, ParseOverruns, framingVars, sendVars
<1>2. FramingInv
  BY <1>1
<1>3. ASSUME NEW t \in Senders, Sender(t) PROVE FramingInv'
  BY <1>2, <1>3, TakeLockKeeps, WriteSomeKeeps, WriteAgainKeeps, SendEndsKeeps DEF Sender
<1>4. ASSUME NEW t \in Senders, NEW m \in Messages, SendStarts(t, m) PROVE FramingInv'
  BY <1>2, <1>4, SendStartsKeeps
<1>5. CASE ProcessData
  BY <1>2, <1>5, ReceiveKeeps, ParseStepKeeps, ParseEndsKeeps DEF ProcessData
<1>6. CASE UNCHANGED framingVars
  <2>1. UNCHANGED <<sendVars, streamVars, wire, buffer, dispatched>>
    BY <1>6 DEF framingVars, processorVars
  <2>2. /\ Sending' /\ SentLie' /\ PartLies' /\ Written' = Written
        /\ UNCHANGED <<stream, ends>>
    BY <1>2, <2>1, SendersAlone
  <2>3. RestLies'
    BY <1>2, <2>1, <2>2 DEF FramingInv, RestLies
  <2>. QED
    BY <2>2, <2>3 DEF FramingInv
<1>. QED
  BY <1>3, <1>4, <1>5, <1>6 DEF FramingNext

(* However reads and writes cut the stream, process_data finds the         *)
(* messages as they were sent: for any number of senders, any messages     *)
(* whose size fits into the header and any size of the socket.             *)
THEOREM StreamKeepsMessages == FramingSpec => []MessagesInOrder
<1>1. (~torn => FramingInv) => MessagesInOrder
  <2> SUFFICES ASSUME ~torn, FramingInv PROVE MessagesInOrder
    BY DEF MessagesInOrder
  <2>1. Sending /\ SentLie /\ PartLies /\ RestLies
    BY DEF FramingInv
  <2>2. \A i : EndOf(i) = EndIn(i, ends, stream)
    BY DEF EndOf, EndIn
  <2>3. PICK l \in Nat : l = Len(sent) /\ Len(ends) = l
    BY <2>1, WrittenIs DEF SentLie
  <2>4. ASSUME NEW i \in 1 .. Len(Written)
        PROVE  /\ EndIn(i, ends, stream) = EndIn(i - 1, ends, stream) + Len(Written[i])
               /\ LiesAt(Written[i], Len(Written[i]), stream, EndIn(i - 1, ends, stream))
    <3>1. CASE i <= l
      <4>1. i \in 1 .. Len(sent) /\ Written[i] = sent[i]
        <5>1. i \in 1 .. l
          <6>1. Len(Written) \in Nat
            BY <2>1, WrittenIs
          <6>. QED
            BY <3>1, <6>1
        <5>. QED
          BY <2>1, <2>3, <5>1, WrittenIs
      <4>. QED
        BY <2>1, <4>1 DEF SentLie, AllLie
    <3>2. CASE ~(i <= l)
      <4>1. Len(Written) \in Nat /\ Len(Written) > l
        <5>1. Len(Written) \in Nat
          BY <2>1, WrittenIs
        <5>. QED
          BY <3>2, <5>1
      <4>2. lock # NoSender
        BY <2>1, <2>3, <4>1, WrittenIs
      <4>3. offset[lock] = Len(message[lock])
        <5>1. offset[lock] \in 0 .. Len(message[lock]) /\ message[lock] \in Frames
          BY <2>1, <4>2, WrittenIs
        <5>2. ~(offset[lock] < Len(message[lock]))
          BY <2>1, <2>3, <4>1, <4>2, WrittenIs
        <5>. QED
          BY <5>1, <5>2, FrameHeader
      <4>4. Written = Append(sent, message[lock]) /\ sent \in Seq(Frames)
        BY <2>1, <4>2, <4>3, WrittenIs DEF SentLie
      <4>5. i = l + 1 /\ Written[i] = message[lock]
        BY <2>3, <3>2, <4>1, <4>4
      <4>6. EndIn(i, ends, stream) = Len(stream) /\ EndIn(i - 1, ends, stream) = EndIn(l, ends, stream)
        BY <2>3, <4>5 DEF EndIn
      <4>. QED
        BY <2>1, <2>3, <4>2, <4>3, <4>5, <4>6 DEF PartLies
    <3>. QED
      BY <3>1, <3>2
  <2>5. PICK done \in Nat : done = EndIn(Len(dispatched), ends, stream)
    <3>1. Len(dispatched) \in Nat /\ ends \in Seq(Nat) /\ stream \in Seq(Byte)
      BY <2>1 DEF RestLies, SentLie
    <3>. QED
      BY <3>1, EndsAreNat
  <2>6. /\ LiesAt(buffer \o wire, Len(buffer \o wire), stream, done)
        /\ done + Len(buffer \o wire) = Len(stream)
    <3>1. /\ stream \in Seq(Byte) /\ buffer \in Seq(Byte) /\ wire \in Seq(Byte)
          /\ LiesAt(buffer, Len(buffer), stream, done)
          /\ LiesAt(wire, Len(wire), stream, done + Len(buffer))
          /\ done + Len(buffer) + Len(wire) = Len(stream)
      BY <2>1, <2>5 DEF SentLie, RestLies
    <3>2. Len(buffer \o wire) = Len(buffer) + Len(wire)
          /\ LiesAt(buffer \o wire, Len(buffer \o wire), stream, done)
      BY <3>1, LiesJoined
    <3>3. Len(buffer) \in Nat /\ Len(wire) \in Nat
      BY <3>1
    <3>. QED
      BY <3>1, <3>2, <3>3
  <2>7. /\ Len(dispatched) <= Len(Written)
        /\ \A i \in 1 .. Len(dispatched) : dispatched[i] = Written[i]
    BY <2>1 DEF RestLies
  <2>8. /\ lock # NoSender => LiesAt(message[lock], offset[lock], stream, EndIn(Len(sent), ends, stream))
        /\ EndIn(Len(sent), ends, stream) + (IF lock = NoSender THEN 0 ELSE offset[lock]) = Len(stream)
    BY <2>1 DEF PartLies
  <2>. QED
    BY <2>2, <2>4, <2>5, <2>6, <2>7, <2>8 DEF MessagesInOrder
<1>2. FramingInit => (~torn => FramingInv)
  BY FramingStarts
<1>. QED
  BY <1>1, <1>2, FramingKept, PTL DEF FramingSpec
============================================================================
