----------------------- MODULE ContainerManagerProofs -----------------------
(***************************************************************************)
(* The safety of the container manager, for any clients, any number of     *)
(* crashes and any number of binder nodes.                                 *)
(***************************************************************************)
EXTENDS ContainerManager, FiniteSetTheorems, TLAPS

(* Without a connection there is no LxcContainer, and without a process    *)
(* there is no connection.                                                 *)
ObjectOfConnection ==
  /\ conn = NoClient => state = "inactive" /\ ~handle /\ owned = {} /\ ~ours
  /\ manager = "down" => conn = NoClient

(* A start is under way only while state_ is inactive; it has a container_ *)
(* from its first step on and a node when it launches.                     *)
StartInProgress ==
  /\ op \in {"prepare", "configure", "binder", "launch"} => state = "inactive"
  /\ op \in {"configure", "binder", "launch"} => handle
  /\ op = "launch" => owned # {}

(* binder_devices_ holds at most one node, which exists. *)
OwnedNode == owned \subseteq nodes /\ \A i, j \in owned : i = j

(* A container this object started implies its container_; one it did not  *)
(* start was left by a crash.                                              *)
OriginOfContainer ==
  /\ ours => handle
  /\ lxc = "running" /\ ~ours => crashes > 0

IInv ==
  /\ TypeOK /\ ObjectOfConnection /\ StartInProgress /\ OwnedNode /\ OriginOfContainer
  /\ RunsOwnConfiguration /\ RunningKeepsBinder /\ OwnContainerKnown
  /\ NodesAccountedFor /\ NoContainerWithoutClient

----------------------------------------------------------------------------
(* The initial state of the container manager satisfies the invariant. *)
LEMMA InitIInv == Init => IInv
<1> SUFFICES ASSUME Init PROVE IInv
  OBVIOUS
<1> USE ContainerAssumption DEF Init
<1>1. TypeOK
  <2>1. 0 \in Ids /\ 0 \in 0 .. MaxNodes /\ 0 \in 0 .. MaxCrashes
    BY DEF Ids
  <2>. QED
    BY <2>1 DEF TypeOK
<1>. QED
  BY <1>1 DEF IInv, ObjectOfConnection, StartInProgress, OwnedNode, OriginOfContainer,
      RunsOwnConfiguration, RunningKeepsBinder, OwnContainerKnown, NodesAccountedFor,
      NoContainerWithoutClient

(* Every step of the manager, its clients and LXC preserves the invariant. *)
LEMMA NextIInv == IInv /\ [Next]_vars => IInv'
<1> SUFFICES ASSUME IInv, [Next]_vars PROVE IInv'
  OBVIOUS
<1> USE ContainerAssumption
  DEF IInv, TypeOK, ObjectOfConnection, StartInProgress, OwnedNode,
      OriginOfContainer, RunsOwnConfiguration, RunningKeepsBinder, OwnContainerKnown,
      NodesAccountedFor, NoContainerWithoutClient, Ids, vars, clientVars, nodeVars,
      lxcVars
<1>1. ASSUME NEW c \in Clients, ClientConnects(c) PROVE IInv'
  BY <1>1 DEF ClientConnects
<1>2. ASSUME NEW c \in Clients, ClientCloses(c) PROVE IInv'
  BY <1>2 DEF ClientCloses
<1>3. ASSUME NEW c \in Clients, NewClient(c) PROVE IInv'
  BY <1>3 DEF NewClient
<1>4. ASSUME NEW c \in Clients, NEW r \in {"start", "stop"}, ClientRequests(c, r)
      PROVE IInv'
  BY <1>4 DEF ClientRequests
<1>5. CASE StartContainer
  BY <1>5 DEF StartContainer, Reads, Handling
<1>6. CASE StartThrows
  BY <1>6 DEF StartThrows, Handling
<1>7. CASE StartPrepares
  BY <1>7 DEF StartPrepares, Handling
<1>8. CASE StartConfigures
  BY <1>8 DEF StartConfigures, Handling
<1>9. CASE NewDevice
  <2> USE <1>9 DEF NewDevice, Handling
  <2>1. TypeOK'
    <3>1. nextId \in Ids /\ nextId + 1 \in 0 .. MaxNodes /\ clashes + 1 \in Nat
      OBVIOUS
    <3>. QED
      BY <3>1
  <2>2. (ObjectOfConnection /\ StartInProgress /\ OriginOfContainer)'
    OBVIOUS
  <2>3. OwnedNode'
    OBVIOUS
  <2>4. (RunsOwnConfiguration /\ OwnContainerKnown /\ NoContainerWithoutClient)'
    OBVIOUS
  <2>5. RunningKeepsBinder'
    OBVIOUS
  <2>6. NodesAccountedFor'
    OBVIOUS
  <2>. QED
    BY <2>1, <2>2, <2>3, <2>4, <2>5, <2>6 DEF IInv
<1>9a. CASE NewDeviceRefused
  <2>1. nextId + 1 \in 0 .. MaxNodes /\ op' = "reply"
    BY <1>9a DEF NewDeviceRefused, Handling
  <2>2. TypeOK'
    BY <1>9a, <2>1 DEF NewDeviceRefused, Handling
  <2>. QED
    BY <1>9a, <2>1, <2>2 DEF NewDeviceRefused, Handling, IInv
<1>10. CASE StartLaunches
  <2> USE <1>10 DEF StartLaunches, Handling
  <2>1. TypeOK'
    OBVIOUS
  <2>2. (ObjectOfConnection /\ StartInProgress /\ OriginOfContainer)'
    OBVIOUS
  <2>3. OwnedNode'
    OBVIOUS
  <2>4. (RunsOwnConfiguration /\ OwnContainerKnown /\ NoContainerWithoutClient)'
    OBVIOUS
  <2>5. RunningKeepsBinder'
    OBVIOUS
  <2>6. NodesAccountedFor'
    OBVIOUS
  <2>. QED
    BY <2>1, <2>2, <2>3, <2>4, <2>5, <2>6 DEF IInv
<1>11. CASE StopContainer
  BY <1>11 DEF StopContainer, Reads, Handling
<1>12. CASE StopRuns
  BY <1>12 DEF StopRuns, Handling
<1>13. CASE Reply
  BY <1>13 DEF Reply, Handling
<1>14. CASE ReadFails
  BY <1>14 DEF ReadFails, Handling
<1>15. CASE RemoveConnection
  BY <1>15 DEF RemoveConnection, Handling, DestroyContainer, ObjectGone
<1>16. CASE DestructorThrows
  <2> USE <1>16 DEF DestructorThrows, Handling, ProcessDies, ObjectGone
  <2>1. TypeOK'
    <3>1. crashes + 1 \in 0 .. MaxCrashes
      OBVIOUS
    <3>. QED
      BY <3>1
  <2>2. (ObjectOfConnection /\ StartInProgress /\ OriginOfContainer)'
    OBVIOUS
  <2>3. OwnedNode'
    OBVIOUS
  <2>4. (RunsOwnConfiguration /\ OwnContainerKnown /\ NoContainerWithoutClient)'
    OBVIOUS
  <2>5. RunningKeepsBinder'
    OBVIOUS
  <2>6. NodesAccountedFor'
    OBVIOUS
  <2>. QED
    BY <2>1, <2>2, <2>3, <2>4, <2>5, <2>6 DEF IInv
<1>17. CASE ManagerCrashes
  <2> USE <1>17 DEF ManagerCrashes, ProcessDies, ObjectGone
  <2>1. TypeOK'
    <3>1. crashes + 1 \in 0 .. MaxCrashes
      OBVIOUS
    <3>. QED
      BY <3>1
  <2>2. (ObjectOfConnection /\ StartInProgress /\ OriginOfContainer)'
    OBVIOUS
  <2>3. OwnedNode'
    OBVIOUS
  <2>4. (RunsOwnConfiguration /\ OwnContainerKnown /\ NoContainerWithoutClient)'
    OBVIOUS
  <2>5. RunningKeepsBinder'
    OBVIOUS
  <2>6. NodesAccountedFor'
    OBVIOUS
  <2>. QED
    BY <2>1, <2>2, <2>3, <2>4, <2>5, <2>6 DEF IInv
<1>18. CASE ManagerExits
  <2> USE <1>18 DEF ManagerExits, DestroyContainer, ObjectGone
  <2>1. TypeOK'
    OBVIOUS
  <2>2. (ObjectOfConnection /\ StartInProgress /\ OriginOfContainer)'
    OBVIOUS
  <2>3. OwnedNode'
    OBVIOUS
  <2>4. (RunsOwnConfiguration /\ OwnContainerKnown /\ NoContainerWithoutClient)'
    OBVIOUS
  <2>5. RunningKeepsBinder'
    OBVIOUS
  <2>6. NodesAccountedFor'
    OBVIOUS
  <2>. QED
    BY <2>1, <2>2, <2>3, <2>4, <2>5, <2>6 DEF IInv
<1>19. CASE ManagerStarts
  <2> USE <1>19 DEF ManagerStarts
  <2>1. PICK kept \in {{}, nodes} : nodes' = kept /\ stale' = kept
    OBVIOUS
  <2>2. TypeOK'
    <3>1. 0 \in 0 .. MaxNodes /\ 0 \in Nat
      OBVIOUS
    <3>. QED
      BY <2>1, <3>1
  <2>3. conn = NoClient /\ owned = {} /\ ~ours
    OBVIOUS
  <2>. QED
    BY <2>1, <2>2, <2>3
<1>20. CASE ContainerEnds
  BY <1>20 DEF ContainerEnds
<1>21. CASE UNCHANGED vars
  BY <1>21
<1>. QED
  BY <1>1, <1>2, <1>3, <1>4, <1>5, <1>6, <1>7, <1>8, <1>9, <1>9a, <1>10, <1>11, <1>12, <1>13, <1>14, <1>15, <1>16, <1>17, <1>18, <1>19, <1>20, <1>21
  DEF Next, Handler

----------------------------------------------------------------------------
(* The invariant holds in every behaviour. *)
LEMMA AlwaysIInv == Spec => []IInv
BY InitIInv, NextIInv, PTL DEF Spec

(* Type correctness of the container manager. *)
THEOREM ManagerTypeCorrect == Spec => []TypeOK
<1>1. IInv => TypeOK
  BY DEF IInv
<1>. QED
  BY <1>1, AlwaysIInv, PTL

(* A container that runs while state_ says so has the configuration of     *)
(* this connection: LxcContainer::start never adopts a container that was  *)
(* left by a crash.                                                        *)
THEOREM OwnConfiguration == Spec => []RunsOwnConfiguration
<1>1. IInv => RunsOwnConfiguration
  BY DEF IInv
<1>. QED
  BY <1>1, AlwaysIInv, PTL

(* No sequence of requests and failures takes its binder node away from    *)
(* the container that start() has launched, or makes the manager take it   *)
(* for stopped.                                                            *)
THEOREM BinderKept == Spec => [](RunningKeepsBinder /\ OwnContainerKnown)
<1>1. IInv => RunningKeepsBinder /\ OwnContainerKnown
  BY DEF IInv
<1>. QED
  BY <1>1, AlwaysIInv, PTL

(* No binder node leaks while the manager lives: each belongs to           *)
(* binder_devices_ or was left by an earlier process.                      *)
THEOREM NodesKept == Spec => []NodesAccountedFor
<1>1. IInv => NodesAccountedFor
  BY DEF IInv
<1>. QED
  BY <1>1, AlwaysIInv, PTL

(* ~LxcContainer leaves no container without a client, except after a      *)
(* crash of the manager.                                                   *)
THEOREM ContainerHasClient == Spec => []NoContainerWithoutClient
<1>1. IInv => NoContainerWithoutClient
  BY DEF IInv
<1>. QED
  BY <1>1, AlwaysIInv, PTL
----------------------------------------------------------------------------
(* The stale nodes whose names this process has already asked for. *)
MetStale == {i \in stale : i < nextId}

(* Ids of this process are behind its counter, and it has met no more      *)
(* clashes than stale nodes behind the counter.                            *)
CountInv ==
  /\ manager = "up" => \A i \in owned : i < nextId
  /\ manager = "up" => clashes <= Cardinality(MetStale)

(* Sets of stale ids are finite. *)
LEMMA StaleFinite == IInv => /\ IsFiniteSet(stale) /\ IsFiniteSet(MetStale)
                             /\ Cardinality(stale) \in Nat
                             /\ Cardinality(MetStale) \in Nat
                             /\ Cardinality(MetStale) <= Cardinality(stale)
<1> SUFFICES ASSUME IInv PROVE /\ IsFiniteSet(stale) /\ IsFiniteSet(MetStale)
                               /\ Cardinality(stale) \in Nat
                               /\ Cardinality(MetStale) \in Nat
                               /\ Cardinality(MetStale) <= Cardinality(stale)
  OBVIOUS
<1>1. stale \subseteq 0 .. (MaxNodes - 1)
  BY DEF IInv, TypeOK, Ids
<1>2. IsFiniteSet(0 .. (MaxNodes - 1))
  <2>1. 0 \in Int /\ MaxNodes - 1 \in Int
    BY ContainerAssumption
  <2>. QED
    BY <2>1, FS_Interval
<1>3. IsFiniteSet(stale)
  BY <1>1, <1>2, FS_Subset, Zenon
<1>4. MetStale \subseteq stale
  BY DEF MetStale
<1>. QED
  BY <1>3, <1>4, FS_Subset, FS_CardinalityType

(* A clash of new_device is with a stale node the process meets for the    *)
(* first time.                                                             *)
LEMMA NewDeviceCounts == IInv /\ CountInv /\ (NewDevice \/ NewDeviceRefused) => CountInv'
<1> SUFFICES ASSUME IInv, CountInv, NewDevice \/ NewDeviceRefused PROVE CountInv'
  OBVIOUS
<1>1. manager = "up" /\ manager' = "up" /\ stale' = stale /\ nextId \in Nat
      /\ nextId' = nextId + 1 /\ clashes \in Nat
  BY ContainerAssumption DEF NewDevice, NewDeviceRefused, Handling, IInv, TypeOK
<1>2. stale \subseteq Nat /\ owned \subseteq Nat
  BY ContainerAssumption DEF IInv, TypeOK, Ids
<1>3. \A i \in Nat : (i < nextId') <=> (i < nextId \/ i = nextId)
  BY <1>1
<1>4. \A i \in owned' : i < nextId'
  <2>1. owned' \subseteq owned \cup {nextId}
    BY DEF NewDevice, NewDeviceRefused
  <2>2. \A i \in owned : i \in Nat /\ i < nextId
    BY <1>1, <1>2 DEF CountInv
  <2>. QED
    BY <1>1, <1>3, <2>1, <2>2
<1>5. IsFiniteSet(MetStale) /\ Cardinality(MetStale) \in Nat /\ clashes <= Cardinality(MetStale)
  BY <1>1, StaleFinite DEF CountInv
<1>6. CASE NewDevice /\ nextId \in nodes
  <2>1. nextId \notin owned /\ nextId \notin MetStale
    BY <1>1, <1>2 DEF CountInv, MetStale
  <2>2. nextId \in stale
    BY <1>1, <1>6, <2>1 DEF IInv, NodesAccountedFor
  <2>3. MetStale' = MetStale \cup {nextId}
    <3>1. ASSUME NEW i PROVE (i \in MetStale') <=> (i \in MetStale \cup {nextId})
      BY <1>1, <1>2, <1>3, <2>2 DEF MetStale
    <3>. QED
      BY <3>1
  <2>4. Cardinality(MetStale \cup {nextId}) = Cardinality(MetStale) + 1
    BY <1>5, <2>1, FS_AddElement
  <2>5. clashes' = clashes + 1
    BY <1>6 DEF NewDevice
  <2>. QED
    BY <1>1, <1>4, <1>5, <2>3, <2>4, <2>5 DEF CountInv
<1>7. CASE NewDeviceRefused \/ nextId \notin nodes
  <2>1. MetStale \subseteq MetStale'
    <3>1. ASSUME NEW i \in MetStale PROVE i \in MetStale'
      BY <1>1, <1>2, <1>3, <3>1 DEF MetStale
    <3>. QED
      BY <3>1
  <2>2. clashes' = clashes
    BY <1>7 DEF NewDevice, NewDeviceRefused
  <2>3. IsFiniteSet(MetStale')
    <3>1. MetStale' \subseteq stale
      BY <1>1 DEF MetStale
    <3>. QED
      BY <3>1, StaleFinite, FS_Subset
  <2>4. Cardinality(MetStale) <= Cardinality(MetStale') /\ Cardinality(MetStale') \in Nat
    BY <2>1, <2>3, FS_Subset, FS_CardinalityType
  <2>. QED
    BY <1>1, <1>4, <1>5, <2>2, <2>4 DEF CountInv
<1>. QED
  BY <1>6, <1>7

(* Every other step keeps ids, counter and stale nodes, gives ids up, or   *)
(* ends or starts a process.                                               *)
LEMMA NextCountInv == IInv /\ CountInv /\ [Next]_vars => CountInv'
<1> SUFFICES ASSUME IInv, CountInv, [Next]_vars PROVE CountInv'
  OBVIOUS
<1> USE DEF vars, clientVars, nodeVars, lxcVars
<1>1. ASSUME manager' = manager, nextId' = nextId, clashes' = clashes, stale' = stale,
             owned' \subseteq owned
      PROVE CountInv'
  <2>1. MetStale' = MetStale
    BY <1>1 DEF MetStale
  <2>. QED
    BY <1>1, <2>1 DEF CountInv
<1>2. ASSUME manager' = "down" PROVE CountInv'
  BY <1>2 DEF CountInv
<1>3. CASE NewDevice \/ NewDeviceRefused
  BY <1>3, NewDeviceCounts
<1>4. CASE ManagerStarts
  <2>1. PICK kept \in {{}, nodes} : stale' = kept
    BY <1>4 DEF ManagerStarts
  <2>2. owned' = {} /\ nextId' = 0 /\ clashes' = 0
    BY <1>4 DEF ManagerStarts, IInv, ObjectOfConnection
  <2>3. MetStale' = {}
    <3>1. nodes \subseteq Nat
      BY ContainerAssumption DEF IInv, TypeOK, Ids
    <3>2. \A i \in Nat : ~(i < 0)
      OBVIOUS
    <3>3. stale' \subseteq Nat
      BY <2>1, <3>1
    <3>4. ASSUME NEW i \in MetStale' PROVE FALSE
      BY <2>2, <3>2, <3>3, <3>4 DEF MetStale
    <3>. QED
      BY <3>4
  <2>4. Cardinality({}) = 0
    BY FS_EmptySet
  <2>. QED
    BY <2>2, <2>3, <2>4 DEF CountInv
<1>5. CASE DestructorThrows \/ ManagerCrashes \/ ManagerExits
  BY <1>2, <1>5 DEF DestructorThrows, ManagerCrashes, ManagerExits, ProcessDies
<1>6. CASE \E c \in Clients : \/ ClientConnects(c) \/ ClientCloses(c) \/ NewClient(c)
                              \/ \E r \in {"start", "stop"} : ClientRequests(c, r)
  BY <1>1, <1>6 DEF ClientConnects, ClientCloses, NewClient, ClientRequests
<1>7. CASE StartContainer \/ StopContainer
  BY <1>1, <1>7 DEF StartContainer, StopContainer, Reads
<1>8. CASE StartThrows \/ StartPrepares \/ StartConfigures \/ StartLaunches
  BY <1>1, <1>8 DEF StartThrows, StartPrepares, StartConfigures, StartLaunches
<1>9. CASE StopRuns \/ RemoveConnection
  BY <1>1, <1>9 DEF StopRuns, RemoveConnection, DestroyContainer, ObjectGone
<1>10. CASE Reply \/ ReadFails \/ ContainerEnds \/ UNCHANGED vars
  BY <1>1, <1>10 DEF Reply, ReadFails, ContainerEnds
<1>. QED
  BY <1>3, <1>4, <1>5, <1>6, <1>7, <1>8, <1>9, <1>10 DEF Next, Handler

(* new_device moves its counter past every name binderfs refuses, so a     *)
(* process fails at most once for each node that was left over.            *)
THEOREM ClashesAreStale == Spec => []ClashesBounded
<1>1. Init => CountInv
  <2>1. ASSUME Init PROVE CountInv
    <3>1. MetStale = {} /\ Cardinality({}) = 0
      BY <2>1, FS_EmptySet DEF Init, MetStale
    <3>. QED
      BY <2>1, <3>1 DEF Init, CountInv
  <2>. QED
    BY <2>1
<1>2. IInv /\ CountInv => ClashesBounded
  <2>1. ASSUME IInv, CountInv PROVE ClashesBounded
    <3>1. clashes \in Nat
      BY <2>1 DEF IInv, TypeOK
    <3>. QED
      BY <2>1, <3>1, StaleFinite DEF CountInv, ClashesBounded
  <2>. QED
    BY <2>1
<1>. QED
  BY <1>1, <1>2, NextCountInv, AlwaysIInv, PTL DEF Spec
=============================================================================
