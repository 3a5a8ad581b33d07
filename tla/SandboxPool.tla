----------------------------- MODULE SandboxPool -----------------------------
(***************************************************************************)
(* The pool of Docker containers in server/dockerSandbox.ts: at most one   *)
(* tracked container per session, created by the first command, evicted,   *)
(* reaped when idle, removed by its owner or by the cleanup endpoint.      *)
(*                                                                         *)
(* A command is a call of exec; it creates at most one container, so both  *)
(* the ContainerState object and the container are named after the call    *)
(* that made them.  The object may outlive its place in the map: a command *)
(* or a removal under way keeps the one it has, and `containers' is        *)
(* changed by session, whatever object it names by then.                   *)
(*                                                                         *)
(* Each command and each docker reply is a turn of the event loop of its   *)
(* own, and an await of something already there ends in that same turn, so *)
(* a command that finds a ready container is running in one step, and all  *)
(* that waited for a creation run in the step in which docker replies.     *)
(***************************************************************************)
EXTENDS Integers, FiniteSets, SequencesExt

CONSTANTS
    Calls,          \* bound: commands issued, numbered in each session as they come
    SessionOf,      \* the session of each
    MaxContainers,
    MaxFaults,      \* bound: docker commands that fail or time out
    MaxCleanups,    \* bound: uses of the cleanup endpoint
    None

Sessions == {SessionOf[c] : c \in Calls}

PoolAssumption ==
    /\ Calls \subseteq Nat /\ IsFiniteSet(Calls) /\ None \notin Calls
    /\ MaxContainers \in Nat \ {0} /\ MaxFaults \in Nat /\ MaxCleanups \in Nat

VARIABLES
    serial,     \* TRUE: agents' sessions, one command at a time, removed in the
                \* end; FALSE: shared ones, like the session of all MCP calls
    containers, \* the map: session -> object
    status,     \* ContainerState.status of each object
    recent,     \* objects by lastUsedAt, oldest first
    call,       \* where each exec is
    runsIn,     \* the object its getContainer returned, or will return
    docker,     \* what the daemon has of each
    removing,   \* `docker rm' under way: the object, and who wants it gone
    closed,     \* sessions whose owner is done
    reaper,     \* the reaper's interval is set
    sweep,      \* the cleanup: off, waiting for its removals, or listed
    listed,     \* what its `docker ps' printed
    cleanups, faults

poolVars == <<containers, status, recent>>
dockerVars == <<docker, removing>>
owners == <<serial, closed>>
cleaning == <<sweep, listed, cleanups>>
vars == <<owners, poolVars, call, runsIn, dockerVars, reaper, cleaning, faults>>

Removers == {"eviction", "reaper", "owner", "cleanup"}

Tracked == {containers[s] : s \in Sessions} \ {None}
Ready == {b \in Tracked : status[b] = "ready"}
WaitingFor(b) == {c \in Calls : call[c] = "creating" /\ runsIn[c] = b}
BeingRemoved(b) == \E r \in removing : r.box = b
Older(a, b) == \E i, j \in DOMAIN recent : i < j /\ recent[i] = a /\ recent[j] = b

Touch(b) == recent' = Append(RemoveFirst(recent, b), b)

Init ==
    /\ serial \in BOOLEAN
    /\ containers = [s \in Sessions |-> None]
    /\ status = [c \in Calls |-> "none"] /\ recent = <<>>
    /\ call = [c \in Calls |-> "new"] /\ runsIn = [c \in Calls |-> None]
    /\ docker = [c \in Calls |-> "none"] /\ removing = {}
    /\ closed = {} /\ reaper = TRUE
    /\ sweep = "off" /\ listed = {} /\ cleanups = 0 /\ faults = 0

-----------------------------------------------------------------------------
(* exec and getContainer. *)

Starting(c) ==
    /\ call[c] = "new" /\ SessionOf[c] \notin closed
    /\ \A d \in Calls : d < c /\ SessionOf[d] = SessionOf[c] => call[d] # "new"
    /\ serial => \A d \in Calls : SessionOf[d] = SessionOf[c] => call[d] \notin {"creating", "running"}

\* the session's container is ready
Reuse(c) ==
    LET box == containers[SessionOf[c]] IN
    /\ Starting(c) /\ box \in Ready
    /\ status' = [status EXCEPT ![box] = "busy"] /\ Touch(box)
    /\ call' = [call EXCEPT ![c] = "running"] /\ runsIn' = [runsIn EXCEPT ![c] = box]
    /\ UNCHANGED <<containers, dockerVars, owners, reaper, cleaning, faults>>

\* pendingCreation has a promise for the session
Creating(s) == {b \in Calls : SessionOf[b] = s /\ b \in WaitingFor(b)}

JoinCreation(c) ==
    /\ Starting(c) /\ containers[SessionOf[c]] \notin Ready
    /\ \E b \in Creating(SessionOf[c]) : runsIn' = [runsIn EXCEPT ![c] = b]
    /\ call' = [call EXCEPT ![c] = "creating"]
    /\ UNCHANGED <<poolVars, dockerVars, owners, reaper, cleaning, faults>>

NeedsContainer(c) ==
    /\ Starting(c) /\ containers[SessionOf[c]] \notin Ready
    /\ Creating(SessionOf[c]) = {}

PoolFull == Cardinality(Tracked) >= MaxContainers

\* createContainer up to its docker run
Create(c, evicted) ==
    /\ containers' = [containers EXCEPT ![SessionOf[c]] = c]
    /\ status' = [b \in Calls |-> IF b = c THEN "starting"
                                  ELSE IF b \in evicted THEN "stopping" ELSE status[b]]
    /\ Touch(c)
    /\ removing' = removing \cup {[box |-> b, by |-> "eviction"] : b \in evicted}
    /\ docker' = [docker EXCEPT ![c] = "asked"]
    /\ call' = [call EXCEPT ![c] = "creating"] /\ runsIn' = [runsIn EXCEPT ![c] = c]
    /\ UNCHANGED <<owners, reaper, cleaning, faults>>

(* Seeded fault: a removal that is under way counts as room. *)
CreateWhileRemoving(c) ==
    /\ NeedsContainer(c)
    /\ ~PoolFull \/ removing # {}
    /\ Create(c, {})

CreateInRoom(c) == NeedsContainer(c) /\ ~PoolFull /\ Create(c, {})

(* Seeded fault: the oldest container is evicted whatever its status. *)
CreateEvictingAny(c) ==
    /\ NeedsContainer(c) /\ PoolFull
    /\ \E b \in Tracked : /\ status[b] \in {"ready", "busy"}
                          /\ \A a \in Tracked \ {b} : Older(b, a)
                          /\ Create(c, {b})

\* evictOldest: the least recently used ready container
CreateEvicting(c) ==
    /\ NeedsContainer(c) /\ PoolFull
    /\ \E b \in Ready : (\A a \in Ready \ {b} : Older(b, a)) /\ Create(c, {b})

RefusedByPool(c) ==
    /\ NeedsContainer(c) /\ PoolFull /\ Ready = {}
    /\ call' = [call EXCEPT ![c] = "failed"]
    /\ UNCHANGED <<poolVars, runsIn, dockerVars, owners, reaper, cleaning, faults>>

\* docker run has printed an id
CreateReturns(b) ==
    /\ b \in WaitingFor(b) /\ docker[b] \in {"up", "gone"}
    /\ status' = [status EXCEPT ![b] = "busy"] /\ Touch(b)
    /\ call' = [c \in Calls |-> IF c \in WaitingFor(b) THEN "running" ELSE call[c]]
    /\ UNCHANGED <<containers, runsIn, dockerVars, owners, reaper, cleaning, faults>>

\* docker run failed, or was cut off while the daemon goes on
CreateFails(b) ==
    /\ b \in WaitingFor(b)
    /\ \/ docker[b] = "refused" /\ UNCHANGED faults
       \/ docker[b] # "refused" /\ faults < MaxFaults /\ faults' = faults + 1
    /\ status' = [status EXCEPT ![b] = "stopped"]
    /\ containers' = [containers EXCEPT ![SessionOf[b]] = None]
    /\ call' = [c \in Calls |-> IF c \in WaitingFor(b) THEN "failed" ELSE call[c]]
    /\ UNCHANGED <<recent, runsIn, dockerVars, owners, reaper, cleaning>>

\* the command ends, times out, or is killed with its container
ExecEnds(c) ==
    /\ call[c] = "running"
    /\ call' = [call EXCEPT ![c] = "done"]
    /\ status' = [status EXCEPT ![runsIn[c]] = "ready"]
    /\ UNCHANGED <<containers, recent, runsIn, dockerVars, owners, reaper, cleaning, faults>>

-----------------------------------------------------------------------------
(* Removal. *)

\* removeContainer(sessionId) for each session that has one of these objects;
\* one that is still starting has no id, which ends its removal at once
RemoveAll(boxes, by) ==
    LET unnamed == {b \in boxes : status[b] = "starting"} IN
    /\ status' = [b \in Calls |-> IF b \in unnamed THEN "stopped"
                                  ELSE IF b \in boxes THEN "stopping" ELSE status[b]]
    /\ containers' = [s \in Sessions |-> IF containers[s] \in unnamed THEN None ELSE containers[s]]
    /\ removing' = removing \cup {[box |-> b, by |-> by] : b \in boxes \ unnamed}

\* docker rm has come back; that it failed is not looked at
RemoveReturns(r) ==
    /\ r \in removing
    /\ \/ docker[r.box] # "up" /\ UNCHANGED faults
       \/ docker[r.box] = "up" /\ faults < MaxFaults /\ faults' = faults + 1
    /\ removing' = removing \ {r}
    /\ status' = [status EXCEPT ![r.box] = "stopped"]
    /\ containers' = [containers EXCEPT ![SessionOf[r.box]] = None]
    /\ UNCHANGED <<recent, call, runsIn, docker, owners, reaper, cleaning>>

\* the interval finds containers idle for longer than idleTimeoutMs
Reap ==
    /\ reaper
    /\ \E idle \in (SUBSET Ready) \ {{}} :
        /\ \A b \in idle, a \in Ready \ idle : Older(b, a)
        /\ RemoveAll(idle, "reaper")
    /\ UNCHANGED <<recent, call, runsIn, docker, owners, reaper, cleaning, faults>>

\* runWorkerAgent and the interpreter remove their container when they are done
OwnerDone(s) ==
    /\ serial /\ s \notin closed
    /\ \A c \in Calls : SessionOf[c] = s => call[c] \notin {"creating", "running"}
    /\ closed' = closed \cup {s}
    /\ RemoveAll({containers[s]} \ {None}, "owner")
    /\ UNCHANGED <<serial, recent, call, runsIn, docker, reaper, cleaning, faults>>

\* POST /api/sandbox/cleanup: shutdown() of the pool in a server that goes on
CleanupBegins ==
    /\ sweep = "off" /\ cleanups < MaxCleanups
    /\ cleanups' = cleanups + 1
    /\ reaper' = FALSE
    /\ sweep' = "waiting"
    /\ RemoveAll(Tracked, "cleanup")
    /\ UNCHANGED <<recent, call, runsIn, docker, owners, listed, faults>>

CleanupLists ==
    /\ sweep = "waiting" /\ \A r \in removing : r.by # "cleanup"
    /\ sweep' = "listed" /\ listed' = {b \in Calls : docker[b] = "up"}
    /\ UNCHANGED <<poolVars, call, runsIn, dockerVars, owners, reaper, cleanups, faults>>

CleanupSweeps ==
    /\ sweep = "listed"
    /\ docker' = [b \in Calls |-> IF b \in listed THEN "gone" ELSE docker[b]]
    /\ sweep' = "off" /\ listed' = {}
    /\ UNCHANGED <<poolVars, call, runsIn, removing, owners, reaper, cleanups, faults>>

\* resetDetection, then isDockerAvailable, which starts the reaper
Redetect ==
    /\ ~reaper /\ sweep = "off"
    /\ reaper' = TRUE
    /\ UNCHANGED <<poolVars, call, runsIn, dockerVars, owners, cleaning, faults>>

-----------------------------------------------------------------------------
(* The Docker daemon.  A container's name is a function of its session.    *)

NameTaken(b) == \E a \in Calls \ {b} : SessionOf[a] = SessionOf[b] /\ docker[a] = "up"

DaemonRuns(b) ==
    /\ docker[b] = "asked"
    /\ docker' = [docker EXCEPT ![b] = IF NameTaken(b) THEN "refused" ELSE "up"]
    /\ UNCHANGED <<poolVars, call, runsIn, removing, owners, reaper, cleaning, faults>>

DaemonRemoves(r) ==
    /\ r \in removing /\ docker[r.box] = "up"
    /\ docker' = [docker EXCEPT ![r.box] = "gone"]
    /\ UNCHANGED <<poolVars, call, runsIn, removing, owners, reaper, cleaning, faults>>

-----------------------------------------------------------------------------
Next ==
    \/ \E c \in Calls : \/ Reuse(c) \/ JoinCreation(c) \/ CreateInRoom(c) \/ CreateEvicting(c)
                        \/ RefusedByPool(c) \/ CreateReturns(c) \/ CreateFails(c) \/ ExecEnds(c)
                        \/ DaemonRuns(c)
    \/ \E r \in removing : RemoveReturns(r) \/ DaemonRemoves(r)
    \/ \E s \in Sessions : OwnerDone(s)
    \/ Reap \/ CleanupBegins \/ CleanupLists \/ CleanupSweeps \/ Redetect

Spec == Init /\ [][Next]_vars

-----------------------------------------------------------------------------
(* Every variable has its type; a command that runs has a container. *)
TypeOK ==
    /\ serial \in BOOLEAN
    /\ containers \in [Sessions -> Calls \cup {None}]
    /\ status \in [Calls -> {"none", "starting", "ready", "busy", "stopping", "stopped"}]
    /\ recent \in Seq(Calls) /\ IsInjective(recent)
    /\ call \in [Calls -> {"new", "creating", "running", "done", "failed"}]
    /\ runsIn \in [Calls -> Calls \cup {None}]
    /\ \A c \in Calls : call[c] \in {"creating", "running"} => runsIn[c] # None
    /\ docker \in [Calls -> {"none", "asked", "up", "refused", "gone"}]
    /\ removing \subseteq [box : Calls, by : Removers]
    /\ closed \subseteq Sessions /\ reaper \in BOOLEAN
    /\ sweep \in {"off", "waiting", "listed"} /\ listed \subseteq Calls
    /\ cleanups \in 0 .. MaxCleanups /\ faults \in 0 .. MaxFaults

(* With agents' sessions, maxContainers bounds what the pool keeps: the    *)
(* containers that are not being removed.  An eviction is only begun when  *)
(* the new one is admitted, so the map itself may be larger for a while.   *)
PoolBound == serial =>
    Cardinality({b \in Tracked : status[b] # "stopping"}) <= MaxContainers

(* "Container stays alive for the session", and only "the oldest idle      *)
(* container" is evicted: while a command runs, its container is there and *)
(* nobody is removing it, unless the operator asked for a cleanup.         *)
CommandsUndisturbed ==
    \A c \in Calls : call[c] = "running" =>
        cleanups > 0 \/ (docker[runsIn[c]] = "up" /\ ~BeingRemoved(runsIn[c]))

(* So it is for the agents, whose sessions run one command at a time:      *)
(* eviction, the reaper and late removals of an earlier container of the   *)
(* session leave the container of a running command alone.                 *)
AgentCommandsUndisturbed == serial => CommandsUndisturbed

(* "Idle containers are reaped": an idle container that is up is in the   *)
(* map, where the reaper finds it, or is being removed already.            *)
NoStrays ==
    \A b \in Calls :
        /\ docker[b] = "up" /\ Creating(SessionOf[b]) = {}
        /\ \A c \in Calls : runsIn[c] = b => call[c] \in {"done", "failed"}
        =>
            containers[SessionOf[b]] = b \/ BeingRemoved(b)
=============================================================================
