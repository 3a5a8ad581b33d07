------------------------------- MODULE Services -------------------------------
(***************************************************************************)
(* Components that share no state: the Docker pool, a circuit breaker, the *)
(* response cache and its linked list, the A2A tasks, the supervisor with  *)
(* its app, the model connections, a swarm session, the browser's pages    *)
(* and the NIP sessions.  An interleaving of them shows each one nothing   *)
(* but stutters of the others, so in a behaviour of this module one of     *)
(* them moves and the rest stay as they began.                             *)
(***************************************************************************)
EXTENDS Integers

CONSTANTS
    None,
    Moving,                     \* bound: the components of which one moves
    Calls, SessionOf, MaxContainers, MaxPoolFaults, MaxCleanups,        \* SandboxPool
    Requests, FailureThreshold, SuccessThreshold, HalfOpenMaxConcurrent,  \* CircuitBreaker
    Keys, MaxSize, CacheKeys, Sizes, MaxEntries, High, WarmLimit,       \* LinkedLru, ResponseCache
    Tasks, MaxTasks,                                                    \* A2ATasks
    Supervisors, Apps, MaxKills, MaxFaults,                             \* PrivateService
    Models,                                                             \* ModelConnections
    SwarmAgents, SwarmTasks, Given, Loops, Dependencies, MaxTurns, MaxConcurrentAgents,
    CircuitBreakerThreshold, Off,                                       \* Swarm
    BrowserSessions, MaxContexts, PoolSize, New,                        \* BrowserPool
    NipSessionIds, Limits, MaxMessages, MessagesCap                     \* NipSessions

VARIABLES
    service,    \* the one that moves
    serial, containers, status, recent, call, runsIn, docker, removing, closed, reaper,
    sweep, listed, cleanups, poolFaults,
    state, timedOut, failures, successes, inflight, leaked, request,
    map, list,
    exact, semantic, warmed,
    task, registry, send, run, cancelled,
    sup, child, stopping, lease, app, lock, file, stopFile, asked, confirmed, kills, faults,
    row, defaults, orchestrators, env, probes,
    session, error, broken, streak, agent, current, work, execs, turn, doubled,
    made, pool, entry, slot, getting, crashed, closing, refills, creating, warm, down, awaited,
    served,
    nip, messages, spoken, report, party, active

Pool == INSTANCE SandboxPool WITH MaxFaults <- MaxPoolFaults, faults <- poolFaults
Breaker == INSTANCE CircuitBreaker WITH Calls <- Requests, call <- request
Linked == INSTANCE LinkedLru
Cache == INSTANCE ResponseCache WITH Keys <- CacheKeys, MaxSize <- MaxEntries
A2A == INSTANCE A2ATasks WITH state <- task
Private == INSTANCE PrivateService
Connections == INSTANCE ModelConnections
Swarms == INSTANCE Swarm WITH Agents <- SwarmAgents, Tasks <- SwarmTasks, status <- session,
                              task <- work
Browser == INSTANCE BrowserPool WITH Sessions <- BrowserSessions
Nip == INSTANCE NipSessions WITH Sessions <- NipSessionIds, state <- nip

(* What the components assume of their constants. *)
ASSUME ServicesAssumption ==
    /\ Pool!PoolAssumption /\ Breaker!BreakerAssumption /\ Linked!LruAssumption
    /\ Cache!CacheAssumption /\ A2A!TaskAssumption /\ Private!ServiceAssumption
    /\ Connections!ModelAssumption /\ Swarms!SwarmAssumption /\ Browser!BrowserAssumption
    /\ Nip!NipAssumption

poolVars == <<serial, containers, status, recent, call, runsIn, docker, removing, closed, reaper,
              sweep, listed, cleanups, poolFaults>>
breakerVars == <<state, timedOut, failures, successes, inflight, leaked, request>>
linkedVars == <<map, list>>
cacheVars == <<exact, semantic, warmed>>
agentVars == <<task, registry, send, run, cancelled>>
privateVars == <<sup, child, stopping, lease, app, lock, file, stopFile, asked, confirmed, kills,
                 faults>>
modelVars == <<row, defaults, orchestrators, env, probes>>
swarmVars == <<session, error, broken, streak, agent, current, work, execs, turn, doubled>>
browserVars == <<made, pool, entry, slot, getting, crashed, closing, refills, creating, warm, down,
                 awaited, served>>
nipVars == <<nip, messages, spoken, report, party, active>>
vars == <<service, poolVars, breakerVars, linkedVars, cacheVars, agentVars, privateVars, modelVars,
          swarmVars, browserVars, nipVars>>

Init ==
    /\ service \in Moving
    /\ Pool!Init /\ Breaker!Init /\ Linked!Init /\ Cache!Init /\ A2A!Init /\ Private!Init
    /\ Connections!Init /\ Swarms!Init /\ Browser!Init /\ Nip!Init
    /\ serial \/ service = "pool"
    /\ env \/ service = "models"

PoolMoves ==
    /\ service = "pool" /\ Pool!Next
    /\ UNCHANGED <<breakerVars, linkedVars, cacheVars, agentVars, privateVars, modelVars,
                   swarmVars, browserVars, nipVars>>

BreakerMoves ==
    /\ service = "breaker" /\ Breaker!Next
    /\ UNCHANGED <<poolVars, linkedVars, cacheVars, agentVars, privateVars, modelVars,
                   swarmVars, browserVars, nipVars>>

LinkedMoves ==
    /\ service = "linked" /\ Linked!Next
    /\ UNCHANGED <<poolVars, breakerVars, cacheVars, agentVars, privateVars, modelVars,
                   swarmVars, browserVars, nipVars>>

CacheMoves ==
    /\ service = "cache" /\ Cache!Next
    /\ UNCHANGED <<poolVars, breakerVars, linkedVars, agentVars, privateVars, modelVars,
                   swarmVars, browserVars, nipVars>>

AgentsMove ==
    /\ service = "agents" /\ A2A!Next
    /\ UNCHANGED <<poolVars, breakerVars, linkedVars, cacheVars, privateVars, modelVars,
                   swarmVars, browserVars, nipVars>>

PrivateMoves ==
    /\ service = "private" /\ Private!Next
    /\ UNCHANGED <<poolVars, breakerVars, linkedVars, cacheVars, agentVars, modelVars,
                   swarmVars, browserVars, nipVars>>

ModelsMove ==
    /\ service = "models" /\ Connections!Next
    /\ UNCHANGED <<poolVars, breakerVars, linkedVars, cacheVars, agentVars, privateVars,
                   swarmVars, browserVars, nipVars>>

SwarmMoves ==
    /\ service = "swarm" /\ Swarms!Next
    /\ UNCHANGED <<poolVars, breakerVars, linkedVars, cacheVars, agentVars, privateVars,
                   modelVars, browserVars, nipVars>>

BrowserMoves ==
    /\ service = "browser" /\ Browser!Next
    /\ UNCHANGED <<poolVars, breakerVars, linkedVars, cacheVars, agentVars, privateVars,
                   modelVars, swarmVars, nipVars>>

NipMoves ==
    /\ service = "nip" /\ Nip!Next
    /\ UNCHANGED <<poolVars, breakerVars, linkedVars, cacheVars, agentVars, privateVars,
                   modelVars, swarmVars, browserVars>>

Next ==
    /\ UNCHANGED service
    /\ PoolMoves \/ BreakerMoves \/ LinkedMoves \/ CacheMoves \/ AgentsMove \/ PrivateMoves
       \/ ModelsMove \/ SwarmMoves \/ BrowserMoves \/ NipMoves

\* the fairness of the components, while they are the one that moves
Fairness ==
    /\ \A t \in Tasks : WF_agentVars(service = "agents" /\ A2A!TimesOut(t))
    /\ \A s \in Supervisors :
        WF_privateVars(service = "private" /\ Private!SupervisorGoesOn(s))
    /\ \A a \in Apps : WF_privateVars(service = "private" /\ Private!AppGoesOn(a))

Spec == Init /\ [][Next]_vars /\ Fairness

-----------------------------------------------------------------------------
(* Every variable of every component has its type. *)
TypeOK ==
    /\ Pool!TypeOK /\ Breaker!TypeOK /\ Linked!TypeOK /\ Cache!TypeOK /\ A2A!TypeOK
    /\ Private!TypeOK /\ Connections!TypeOK /\ Swarms!TypeOK /\ Browser!TypeOK
    /\ Nip!TypeOK

(* The properties of the components, stated where they are defined. *)
PoolBound == Pool!PoolBound
CommandsUndisturbed == Pool!CommandsUndisturbed
AgentCommandsUndisturbed == Pool!AgentCommandsUndisturbed
SlotsAreHeld == Breaker!SlotsAreHeld
SlotsAccounted == Breaker!SlotsAccounted
BudgetKept == Cache!BudgetKept
ImplementsRecency == Linked!ImplementsRecency
SendsSettle == A2A!SendsSettle
OneServes == Private!OneServes
StoppedMeansQuiet == Private!StoppedMeansQuiet
ServesUntilStopped == Private!ServesUntilStopped
CoreRoles == Connections!CoreRoles
OneTaskPerAgent == Swarms!OneTaskPerAgent
ContextsUnshared == Browser!ContextsUnshared
LiveWithinLimit == Nip!LiveWithinLimit
HardCap == Nip!HardCap
HeardWithinLimit == Nip!HeardWithinLimit
ReportsOfEnded == Nip!ReportsOfEnded
=============================================================================
