-------------------------- MODULE ContainerManager --------------------------
(***************************************************************************)
(* The container manager: container::Service with its one connection, the  *)
(* ManagementApiSkeleton and the LxcContainer that connection owns, the    *)
(* binder nodes and the LXC container named "default".  The LXC container  *)
(* and the nodes outlive the manager process.                              *)
(*                                                                         *)
(* Requests of a connection are handled one at a time, each in several     *)
(* steps (a crash of the manager, the end of the container or of the       *)
(* client may come between two of them); the accept handler runs on        *)
(* another I/O thread.  liblxc and the kernel are external.                *)
(***************************************************************************)
EXTENDS Naturals, FiniteSets

CONSTANTS
  Clients,      \* processes that connect, each once
  NoClient,
  MaxNodes,     \* bound: binder nodes asked for by one manager process
  MaxCrashes    \* bound: crashes of the manager

ASSUME ContainerAssumption ==
  /\ NoClient \notin Clients
  /\ MaxNodes \in Nat \ {0} /\ MaxCrashes \in Nat

VARIABLES
  manager,    \* "up" or "down"
  crashes,    \* crashes so far
  client,     \* the client's end of each socket
  request,    \* the request a client has sent and the manager not yet read
  conn,       \* connections_: at most one
  op,         \* where the handler of the connection is
  state,      \* state_
  handle,     \* container_ is not null
  owned,      \* binder_devices_
  nextId,     \* the static next_id of new_device
  nodes,      \* nodes in binderfs
  stale,      \* history: nodes left by earlier manager processes
  clashes,    \* history: starts of this process that met a stale node
  lxc,        \* "running" or "stopped"
  ours,       \* history: lxc was started by the present LxcContainer
  binder      \* history: the node mounted as /dev/binder by the last LXC start

clientVars == <<client, request>>
nodeVars == <<owned, nextId, nodes, stale, clashes>>
lxcVars == <<lxc, ours, binder>>
vars == <<manager, crashes, clientVars, conn, op, state, handle, nodeVars, lxcVars>>

Ids == 0 .. (MaxNodes - 1)

Init ==
  /\ manager = "up" /\ crashes = 0
  /\ client = [c \in Clients |-> "away"] /\ request = [c \in Clients |-> "none"]
  /\ conn = NoClient /\ op = "reading"
  /\ state = "inactive" /\ handle = FALSE
  /\ owned = {} /\ nextId = 0 /\ nodes = {} /\ stale = {} /\ clashes = 0
  /\ lxc = "stopped" /\ ours = FALSE /\ binder = 0

----------------------------------------------------------------------------
(* Clients: Client's constructor connects; requests follow; the process    *)
(* may go at any time, stop_container's limit of 3 seconds included.       *)
ClientConnects(c) ==
  /\ manager = "up" /\ client[c] = "away"
  /\ client' = [client EXCEPT ![c] = "connecting"]
  /\ UNCHANGED <<manager, crashes, request, conn, op, state, handle, nodeVars, lxcVars>>

ClientRequests(c, r) ==
  /\ client[c] = "open" /\ request[c] = "none"
  /\ request' = [request EXCEPT ![c] = r]
  /\ UNCHANGED <<manager, crashes, client, conn, op, state, handle, nodeVars, lxcVars>>

ClientCloses(c) ==
  /\ client[c] = "open"
  /\ client' = [client EXCEPT ![c] = "gone"]
  /\ UNCHANGED <<manager, crashes, request, conn, op, state, handle, nodeVars, lxcVars>>

(* Service::new_client: a second connection is closed at once; the first   *)
(* gets an LxcContainer of its own.                                        *)
NewClient(c) ==
  /\ manager = "up" /\ client[c] = "connecting"
  /\ IF conn # NoClient
     THEN /\ client' = [client EXCEPT ![c] = "gone"]
          /\ UNCHANGED <<conn, op, state, handle>>
     ELSE /\ client' = [client EXCEPT ![c] = "open"]
          /\ conn' = c /\ op' = "reading"
          /\ state' = "inactive" /\ handle' = FALSE
  /\ UNCHANGED <<manager, crashes, request, nodeVars, lxcVars>>

----------------------------------------------------------------------------
(* The handler of the connection. *)
Handling(o) == manager = "up" /\ conn # NoClient /\ op = o

Reads(r) ==
  /\ Handling("reading") /\ request[conn] = r
  /\ request' = [request EXCEPT ![conn] = "none"]
  /\ UNCHANGED <<manager, crashes, client, conn, state, handle, nodeVars, lxcVars>>

\* Mutant of StartContainer: the state of the container is not asked for.
StartContainerAlways ==
  /\ Reads("start")
  /\ op' = "prepare"

(* start_container answers "Container is already running" or starts. *)
StartContainer ==
  /\ Reads("start")
  /\ op' = IF state = "running" THEN "reply" ELSE "prepare"

(* An exception of LxcContainer::start (lxc_container_new, a config item,  *)
(* the binder control file, a device, lxc's start) becomes the error of    *)
(* the answer.  What was done before it stays: container_, the binder node. *)
StartThrows ==
  /\ \/ Handling("prepare") /\ ~handle
     \/ \E o \in {"configure", "binder", "launch"} : Handling(o)
  /\ op' = "reply"
  /\ UNCHANGED <<manager, crashes, clientVars, conn, state, handle, nodeVars, lxcVars>>

(* container_ is created if there is none; a container that runs, because  *)
(* of an earlier start or after a crash, is stopped.  The result of        *)
(* lxc's stop is not looked at.                                            *)
StartPrepares ==
  /\ Handling("prepare")
  /\ handle' = TRUE
  /\ op' = "configure"
  /\ lxc' \in {lxc, "stopped"}
  /\ UNCHANGED <<manager, crashes, clientVars, conn, state, nodeVars, ours, binder>>

StartConfigures ==
  /\ Handling("configure")
  /\ op' = "binder"
  /\ UNCHANGED <<manager, crashes, clientVars, conn, state, handle, nodeVars, lxcVars>>

\* Mutants of NewDevice: the id is used again after a clash; the node that was
\* held so far stays in binderfs.
NewDeviceSameId ==
  /\ Handling("binder") /\ nextId < MaxNodes
  /\ IF nextId \in nodes
     THEN /\ clashes' = clashes + 1 /\ op' = "reply"
          /\ UNCHANGED <<nextId, nodes, owned>>
     ELSE /\ nextId' = nextId + 1
          /\ nodes' = (nodes \ owned) \cup {nextId} /\ owned' = {nextId}
          /\ op' = "launch" /\ UNCHANGED clashes
  /\ UNCHANGED <<manager, crashes, clientVars, conn, state, handle, stale, lxcVars>>
NewDeviceKeepsOld ==
  /\ Handling("binder") /\ nextId < MaxNodes
  /\ nextId' = nextId + 1
  /\ IF nextId \in nodes
     THEN /\ clashes' = clashes + 1 /\ op' = "reply"
          /\ UNCHANGED <<nodes, owned>>
     ELSE /\ nodes' = nodes \cup {nextId} /\ owned' = {nextId}
          /\ op' = "launch" /\ UNCHANGED clashes
  /\ UNCHANGED <<manager, crashes, clientVars, conn, state, handle, stale, lxcVars>>

(* BinderDeviceAllocator::new_device takes the next id, whether or not     *)
(* binderfs accepts the name; the start fails if the name exists.  The     *)
(* assignment to binder_devices_ removes the node held so far.             *)
NewDevice ==
  /\ Handling("binder") /\ nextId < MaxNodes
  /\ nextId' = nextId + 1
  /\ IF nextId \in nodes
     THEN /\ clashes' = clashes + 1 /\ op' = "reply"
          /\ UNCHANGED <<nodes, owned>>
     ELSE /\ nodes' = (nodes \ owned) \cup {nextId} /\ owned' = {nextId}
          /\ op' = "launch" /\ UNCHANGED clashes
  /\ UNCHANGED <<manager, crashes, clientVars, conn, state, handle, stale, lxcVars>>

(* binderfs refuses for another reason: the id is gone, binder_devices_     *)
(* stays.  (A node the ioctl has made is at its path when it returns.)     *)
NewDeviceRefused ==
  /\ Handling("binder") /\ nextId < MaxNodes
  /\ nextId' = nextId + 1
  /\ op' = "reply"
  /\ UNCHANGED <<manager, crashes, clientVars, conn, state, handle, owned, nodes, stale, clashes,
                 lxcVars>>

\* Mutant of StartLaunches: the result of lxc's start is not looked at.
StartLaunchesAnyway ==
  /\ Handling("launch")
  /\ lxc' = "running" /\ ours' = (ours \/ lxc = "stopped")
  /\ binder' = IF lxc = "stopped" THEN CHOOSE i \in owned : TRUE ELSE binder
  /\ state' = "running" /\ op' = "reply"
  /\ UNCHANGED <<manager, crashes, clientVars, conn, handle, nodeVars>>

(* Mounts, devices, properties and the saved configuration, then lxc's     *)
(* start, which refuses a container that runs (see StartThrows).           *)
StartLaunches ==
  /\ Handling("launch") /\ lxc = "stopped"
  /\ lxc' = "running" /\ ours' = TRUE
  /\ binder' = CHOOSE i \in owned : TRUE
  /\ state' = "running" /\ op' = "reply"
  /\ UNCHANGED <<manager, crashes, clientVars, conn, handle, nodeVars>>

(* stop_container answers "Container is not running" or stops. *)
StopContainer ==
  /\ Reads("stop")
  /\ op' = IF state = "running" THEN "stop" ELSE "reply"

(* LxcContainer::stop: nothing at all if the container has ended by        *)
(* itself; otherwise lxc's stop works or throws.                           *)
StopRuns ==
  /\ Handling("stop")
  /\ op' = "reply"
  /\ \/ UNCHANGED <<state, owned, nodes, lxc>>
     \/ /\ handle /\ lxc = "running"
        /\ lxc' = "stopped" /\ state' = "inactive"
        /\ owned' = {} /\ nodes' = nodes \ owned
  /\ UNCHANGED <<manager, crashes, clientVars, conn, handle, nextId, stale, clashes, ours,
                 binder>>

(* done->Run sends the answer.  To a client that is gone the send throws,  *)
(* the handler of invoke() sends again and throws again, and the exception *)
(* leaves on_read_size: no further read is started.                        *)
Reply ==
  /\ Handling("reply")
  /\ op' = IF client[conn] = "open" THEN "reading" ELSE "wedged"
  /\ UNCHANGED <<manager, crashes, clientVars, conn, state, handle, nodeVars, lxcVars>>

----------------------------------------------------------------------------
(* End of the connection: on_read_size sees the end of the socket.  The    *)
(* element leaves connections_ once its destructor has run.                *)
ReadFails ==
  /\ Handling("reading") /\ client[conn] = "gone" /\ request[conn] = "none"
  /\ op' = "remove"
  /\ UNCHANGED <<manager, crashes, clientVars, conn, state, handle, nodeVars, lxcVars>>

(* What is left when the object is destroyed. *)
ObjectGone ==
  /\ conn' = NoClient /\ op' = "reading"
  /\ state' = "inactive" /\ handle' = FALSE /\ owned' = {} /\ ours' = FALSE

\* Mutant of DestroyContainer: the destructor does not stop the container.
DestroyContainerOnly ==
  /\ handle' = FALSE /\ nodes' = nodes \ owned
  /\ conn' = NoClient /\ op' = "reading"
  /\ state' = "inactive" /\ owned' = {}
  /\ UNCHANGED <<lxc, ours, stale>>

(* ~LxcContainer: stop(), then the binder nodes go with the object.  An    *)
(* object that never started leaves the LXC container alone.               *)
DestroyContainer ==
  /\ lxc' = IF handle THEN "stopped" ELSE lxc
  /\ nodes' = nodes \ owned
  /\ ObjectGone
  /\ UNCHANGED stale

(* The process ends without its destructors: every socket closes, LXC and  *)
(* the nodes stay.                                                         *)
ProcessDies ==
  /\ manager' = "down" /\ crashes' = crashes + 1
  /\ client' = [c \in Clients |-> IF client[c] = "away" THEN "away" ELSE "gone"]
  /\ request' = [c \in Clients |-> "none"]
  /\ ObjectGone
  /\ stale' = nodes
  /\ UNCHANGED <<nextId, nodes, clashes, lxc, binder>>

\* Mutant of RemoveConnection: another id is removed.
RemoveConnectionMisses ==
  /\ Handling("remove")
  /\ op' = "reading"
  /\ UNCHANGED <<manager, crashes, clientVars, conn, state, handle, nodeVars, lxcVars>>

RemoveConnection ==
  /\ Handling("remove")
  /\ DestroyContainer
  /\ UNCHANGED <<manager, crashes, clientVars, nextId, clashes, binder>>

(* stop() throws out of the destructor: std::terminate. *)
DestructorThrows ==
  /\ Handling("remove") /\ handle /\ lxc = "running"
  /\ crashes < MaxCrashes
  /\ ProcessDies

ManagerCrashes ==
  /\ manager = "up" /\ crashes < MaxCrashes
  /\ ProcessDies

(* SIGTERM: rt->stop() waits for the handlers, then the Service clears its *)
(* connections.                                                            *)
ManagerExits ==
  /\ manager = "up" /\ op \in {"reading", "wedged"}
  /\ manager' = "down"
  /\ client' = [c \in Clients |-> IF client[c] = "away" THEN "away" ELSE "gone"]
  /\ request' = [c \in Clients |-> "none"]
  /\ DestroyContainer
  /\ UNCHANGED <<crashes, nextId, clashes, binder>>

(* The static counter starts again.  scripts/container-manager.sh mounts a *)
(* new, empty binderfs; the nodes stay when its umount fails or when the   *)
(* manager is started without it.                                          *)
ManagerStarts ==
  /\ manager = "down"
  /\ manager' = "up" /\ nextId' = 0 /\ clashes' = 0
  /\ \E kept \in {{}, nodes} : nodes' = kept /\ stale' = kept
  /\ UNCHANGED <<crashes, clientVars, conn, op, state, handle, owned, lxcVars>>

(* Android shuts down or its init dies. *)
ContainerEnds ==
  /\ lxc = "running"
  /\ lxc' = "stopped"
  /\ UNCHANGED <<manager, crashes, clientVars, conn, op, state, handle, nodeVars, ours,
                 binder>>

----------------------------------------------------------------------------
Handler ==
  \/ StartContainer \/ StartThrows \/ StartPrepares \/ StartConfigures \/ NewDevice
  \/ NewDeviceRefused \/ StartLaunches \/ StopContainer \/ StopRuns \/ Reply
  \/ ReadFails \/ RemoveConnection \/ DestructorThrows

Next ==
  \/ \E c \in Clients : \/ ClientConnects(c) \/ ClientCloses(c) \/ NewClient(c)
                        \/ \E r \in {"start", "stop"} : ClientRequests(c, r)
  \/ Handler
  \/ ManagerCrashes \/ ManagerExits \/ ManagerStarts
  \/ ContainerEnds

(* The I/O threads run: a handler that can go on does, and a connection is *)
(* accepted.  Nothing is assumed of clients, of LXC or of restarts.        *)
Spec == Init /\ [][Next]_vars
FairSpec == Spec /\ WF_vars(Handler) /\ \A c \in Clients : WF_vars(NewClient(c))

----------------------------------------------------------------------------
(* Type invariant. *)
TypeOK ==
  /\ manager \in {"up", "down"} /\ crashes \in 0 .. MaxCrashes
  /\ client \in [Clients -> {"away", "connecting", "open", "gone"}]
  /\ request \in [Clients -> {"none", "start", "stop"}]
  /\ conn \in Clients \cup {NoClient}
  /\ op \in {"reading", "prepare", "configure", "binder", "launch", "stop", "reply",
             "wedged", "remove"}
  /\ state \in {"inactive", "running"} /\ handle \in BOOLEAN
  /\ owned \subseteq Ids /\ nodes \subseteq Ids /\ stale \subseteq Ids
  /\ nextId \in 0 .. MaxNodes /\ clashes \in Nat
  /\ lxc \in {"running", "stopped"} /\ ours \in BOOLEAN /\ binder \in Ids

(* "to ensure its configuration is synchronized": whenever the manager     *)
(* holds the container for running and it runs, it runs with the           *)
(* configuration this connection gave it, also when another container was  *)
(* found running after a crash and could not be stopped.                   *)
RunsOwnConfiguration == state = "running" /\ lxc = "running" => ours

(* The container this connection started never loses the node that is its  *)
(* /dev/binder, whatever requests arrive and fail while it runs.           *)
RunningKeepsBinder ==
  lxc = "running" /\ ours => owned = {binder} /\ binder \in nodes

(* The nodes in binderfs are those of the present LxcContainer and those a *)
(* dead manager left: no failed start, stop or disconnect leaks one.       *)
NodesAccountedFor == manager = "up" => nodes = owned \cup (stale \cap nodes)

(* The manager never takes the container it started for stopped while it   *)
(* runs: a stop that fails leaves it known and stoppable.  (The converse   *)
(* does not hold: state_ stays "running" when the container ends by itself *)
(* and for the rest of the connection, because stop() then returns early.) *)
OwnContainerKnown == lxc = "running" /\ ours => state = "running"

(* Without a client no container runs, except one a dead manager left. *)
NoContainerWithoutClient ==
  conn = NoClient /\ lxc = "running" => ~ours /\ crashes > 0

(* Stale nodes make starts fail, but each at most once: the id counter     *)
(* moves past a name that binderfs refuses.                                *)
ClashesBounded == manager = "up" => clashes <= Cardinality(stale)

(* A client that goes away makes room for the next one, as long as no      *)
(* answer to it was outstanding.                                           *)
SlotFreedIfIdle ==
  \A c \in Clients :
    [](conn = c => op # "wedged") => (conn = c /\ client[c] = "gone" ~> conn # c)
=============================================================================
