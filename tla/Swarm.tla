--------------------------------- MODULE Swarm ---------------------------------
(***************************************************************************)
(* One session of server/swarmEngine.ts: the loops of runSwarm (a second   *)
(* request to run a session starts a second loop on it), the executions    *)
(* they start and await, the detector of stale agents, and the operator's  *)
(* start, stop, terminate and changes of agents and tasks.  Nothing        *)
(* cancels an execution: it ends in whatever the session has become.       *)
(* The status "claimed" lasts until the same turn calls executeAgentTask   *)
(* and "waiting" is never set; neither is told apart here.  The clock and  *)
(* the tokens used are left open: either limit may be found reached.       *)
(* What agents and tasks are made of is what their creator sends: an id in *)
(* use, a profile that scores NaN, or what makes the loop throw.           *)
(***************************************************************************)
EXTENDS Integers, FiniteSets, FiniteSetsExt, Functions

CONSTANTS
    Agents, Tasks,
    Given,                      \* the agents and tasks a session is created with
    Loops,                      \* bound: loops of runSwarm at a time
    Dependencies,               \* the tasks each task depends on
    MaxTurns,                   \* 100, of a loop
    MaxConcurrentAgents, CircuitBreakerThreshold,
    None, Off

SwarmAssumption ==
    /\ MaxTurns \in Nat \ {0} /\ MaxConcurrentAgents \in Nat \ {0}
    /\ CircuitBreakerThreshold \in Nat \ {0}
    /\ Dependencies \in [Tasks -> SUBSET Tasks]

VARIABLES
    status, error, broken, streak,  \* of the session; streak is consecutiveFailures
    agent,      \* status of each; "new" before it is added, "removed" after
    current,    \* currentTaskId
    task,       \* status and claimedBy
    execs,      \* executions in flight
    turn,       \* loopCount of each loop, Off when none runs
    doubled     \* history: agents added again while an execution of theirs was in flight,
                \* or both awarded a task and handed one in the same wave

vars == <<status, error, broken, streak, agent, current, task, execs, turn, doubled>>
session == <<status, error, broken, streak>>

With(st) == {a \in Agents : agent[a] = st}
Working == With("working")
Tasked(st) == {t \in Tasks : task[t].status = st}
Present(a) == agent[a] \notin {"new", "removed"}

\* a dependency that is not in the pool holds nothing back
Available == {t \in Tasked("pending") :
    \A d \in Dependencies[t] : task[d].status \in {"new", "completed"}}

Init ==
    /\ doubled = {}
    /\ status = "idle" /\ error = FALSE /\ broken = FALSE /\ streak = 0
    /\ agent = [a \in Agents |-> IF a \in Given THEN "idle" ELSE "new"]
    /\ current = [a \in Agents |-> None]
    /\ task = [t \in Tasks |->
            [status |-> IF t \in Given THEN "pending" ELSE "new", by |-> None]]
    /\ execs = {}
    /\ turn = [l \in Loops |-> Off]

-----------------------------------------------------------------------------
(* The session. *)

StartSwarm ==
    IF status = "running" THEN UNCHANGED session
    ELSE status' = "running" /\ error' = FALSE /\ broken' = FALSE /\ streak' = 0

\* stopSwarm, of a session whose error is e and whose agents are ag
StopSwarm(e, ag) ==
    LET end == IF e \/ broken \/ Tasked("failed") # {} THEN "failed" ELSE "completed" IN
    /\ status' = end /\ error' = e
    /\ agent' = [a \in Agents |-> IF ag[a] = "working" THEN end ELSE ag[a]]
    /\ UNCHANGED <<broken, streak>>

Start ==
    /\ status # "running" /\ StartSwarm
    /\ UNCHANGED <<doubled, agent, current, task, execs, turn>>

Stop ==
    /\ StopSwarm(error, agent)
    /\ UNCHANGED <<doubled, current, task, execs, turn>>

Terminate ==
    /\ status' = "terminated" /\ error' = TRUE
    /\ agent' = [a \in Agents |->
        IF Present(a) /\ agent[a] \notin {"completed", "failed"} THEN "terminated" ELSE agent[a]]
    /\ UNCHANGED <<doubled, broken, streak, current, task, execs, turn>>

AddTask(t) ==
    /\ task[t].status = "new"
    /\ task' = [task EXCEPT ![t].status = "pending"]
    /\ UNCHANGED <<doubled, session, agent, current, execs, turn>>

\* under the id it is given, whoever has or had it
AddAgent(a) ==
    /\ agent' = [agent EXCEPT ![a] = "idle"] /\ current' = [current EXCEPT ![a] = None]
    /\ doubled' = doubled \cup (IF \E x \in execs : x.agent = a THEN {a} ELSE {})
    /\ UNCHANGED <<session, task, execs, turn>>

RemoveAgent(a) ==
    /\ Present(a)
    /\ agent' = [agent EXCEPT ![a] = "removed"] /\ current' = [current EXCEPT ![a] = None]
    /\ task' = IF current[a] # None /\ task[current[a]].status = "running"
               THEN [task EXCEPT ![current[a]] = [status |-> "pending", by |-> None]] ELSE task
    /\ UNCHANGED <<doubled, session, execs, turn>>

-----------------------------------------------------------------------------
(* A loop. *)

\* POST run, or the orchestrator's swarm mode
Run(l) ==
    /\ turn[l] = Off
    /\ turn' = [turn EXCEPT ![l] = 0]
    /\ StartSwarm
    /\ UNCHANGED <<doubled, agent, current, task, execs>>

\* the wave it awaited has ended
Awake(l) == turn[l] # Off /\ \A x \in execs : x.loop # l
MayGoOn(l) == Awake(l) /\ turn[l] < MaxTurns
Open(l) == MayGoOn(l) /\ ~broken

\* it ends, and stops the session unless somebody has
Leaves(l, e, ag) ==
    /\ turn' = [turn EXCEPT ![l] = Off]
    /\ IF status = "running" THEN StopSwarm(e, ag)
       ELSE error' = e /\ agent' = ag /\ UNCHANGED <<status, broken, streak>>
    /\ UNCHANGED <<doubled, current, task, execs>>

WallClock(l) == MayGoOn(l) /\ Leaves(l, TRUE, agent)

CircuitBroken(l) == MayGoOn(l) /\ broken /\ Leaves(l, TRUE, agent)

BudgetExhausted(l) ==
    /\ Open(l)
    /\ Leaves(l, TRUE, [a \in Agents |-> IF a \in Working THEN "completed" ELSE agent[a]])

NothingLeft(l) ==
    /\ Open(l) /\ Available = {} /\ Tasked("running") = {}
    /\ Leaves(l, error, agent)

TurnsExhausted(l) == Awake(l) /\ turn[l] = MaxTurns /\ Leaves(l, error, agent)

Slots == MaxConcurrentAgents - Cardinality(Working)
MayAssign == Available # {} /\ Slots > 0 /\ With("idle") # {}

\* with nobody to ask, or with somebody at work when the budget is nearly used
Waits(l) ==
    /\ Open(l) /\ (~MayAssign \/ Working # {}) /\ (Available # {} \/ Tasked("running") # {})
    /\ turn' = [turn EXCEPT ![l] = @ + 1]
    /\ UNCHANGED <<doubled, session, agent, current, task, execs>>

\* tasks to idle agents: by negotiateTaskAssignment, a best bidder of those still idle for
\* each; where nobody gets a score, one by one of those that were idle before the wave
Awards(tasks) == Injection(tasks, With("idle"))

\* claimTask, of each task by the agent it was awarded or else handed to
Claims(to, handed) ==
    LET claimant == [t \in DOMAIN to \cup DOMAIN handed |->
                        IF t \in DOMAIN to THEN to[t] ELSE handed[t]]
        Of(a) == {t \in DOMAIN claimant : claimant[t] = a}
        Last(a) == IF Of(a) \cap DOMAIN handed # {} THEN Of(a) \cap DOMAIN handed ELSE Of(a)
    IN
    /\ task' = [t \in Tasks |->
          IF t \in DOMAIN claimant THEN [status |-> "running", by |-> claimant[t]] ELSE task[t]]
    /\ agent' = [a \in Agents |-> IF Of(a) # {} THEN "working" ELSE agent[a]]
    /\ current' = [a \in Agents |-> IF Of(a) # {} THEN CHOOSE t \in Last(a) : TRUE ELSE current[a]]

Executions(to, l) == {[agent |-> to[t], task |-> t, loop |-> l] : t \in DOMAIN to}

Wave == kSubset(Min({Slots, Cardinality(With("idle")), Cardinality(Available)}), Available)

Assigns(l) ==
    /\ Open(l) /\ MayAssign
    /\ \E chosen \in Wave : \E direct \in SUBSET chosen :
          \E to \in Awards(chosen \ direct), handed \in Awards(direct) :
              /\ Claims(to, handed)
              /\ doubled' = doubled \cup (Range(to) \cap Range(handed))
              /\ execs' = execs \cup Executions(to, l) \cup Executions(handed, l)
    /\ turn' = [turn EXCEPT ![l] = @ + 1]
    /\ UNCHANGED session

\* a profile without specialties, or dependencies that are no list, before the wave's
\* first claim: runSwarm rejects and stops nothing
Rejects(l) ==
    /\ Open(l) /\ Tasked("pending") # {}
    /\ turn' = [turn EXCEPT ![l] = Off]
    /\ UNCHANGED <<doubled, session, agent, current, task, execs>>

-----------------------------------------------------------------------------
(* An execution. *)

\* executeAgentTask: model calls and tools, until an answer, an error or a limit
ExecutionEnds(x) == x \in execs /\ execs' = execs \ {x}

\* checkSwarmCompletion
CheckCompletion ==
    LET left == {task'[t].status : t \in Tasks} \ {"new"} IN
    status' = IF status = "running" /\ left \subseteq {"completed", "failed"}
              THEN IF "failed" \in left THEN "failed" ELSE "completed"
              ELSE status

\* completeTask, by the agent that holds the claim
Completes(x) ==
    /\ ExecutionEnds(x)
    /\ IF Present(x.agent) /\ task[x.task].by = x.agent
       THEN /\ task' = [task EXCEPT ![x.task].status = "completed"]
            /\ agent' = [agent EXCEPT ![x.agent] = "idle"]
            /\ current' = [current EXCEPT ![x.agent] = None]
            /\ streak' = 0 /\ CheckCompletion
       ELSE UNCHANGED <<task, agent, current, streak, status>>
    /\ UNCHANGED <<doubled, error, broken, turn>>

\* failTask, by any agent that is still there
Fails(x) ==
    /\ ExecutionEnds(x)
    /\ IF Present(x.agent)
       THEN /\ task' = [task EXCEPT ![x.task].status = "failed"]
            /\ agent' = [agent EXCEPT ![x.agent] = "idle"]
            /\ current' = [current EXCEPT ![x.agent] = None]
            /\ streak' = IF streak < CircuitBreakerThreshold THEN streak + 1 ELSE streak
            /\ broken' = (broken \/ streak + 1 >= CircuitBreakerThreshold)
            /\ CheckCompletion
       ELSE UNCHANGED <<task, agent, current, streak, broken, status>>
    /\ UNCHANGED <<doubled, error, turn>>

(* Seeded fault: the detector gives a stale agent back to the pool. *)
DetectReviving ==
    /\ status = "running"
    /\ \E a \in Working : agent' = [agent EXCEPT ![a] = "idle"]
    /\ UNCHANGED <<doubled, session, current, task, execs, turn>>

\* detectDeadlocks: any of the working may have been silent for too long
Detect ==
    /\ status = "running"
    /\ \E stale \in (SUBSET Working) \ {{}} :
        /\ agent' = [a \in Agents |-> IF a \in stale THEN "terminated" ELSE agent[a]]
        /\ current' = [a \in Agents |-> IF a \in stale THEN None ELSE current[a]]
        /\ task' = [t \in Tasks |->
              IF \E a \in stale : current[a] = t THEN [status |-> "pending", by |-> None]
              ELSE task[t]]
    /\ UNCHANGED <<doubled, session, execs, turn>>

Next ==
    \/ Start \/ Stop \/ Terminate \/ Detect
    \/ \E t \in Tasks : AddTask(t)
    \/ \E a \in Agents : AddAgent(a) \/ RemoveAgent(a)
    \/ \E l \in Loops :
        \/ Run(l) \/ WallClock(l) \/ CircuitBroken(l) \/ BudgetExhausted(l) \/ NothingLeft(l)
        \/ TurnsExhausted(l) \/ Waits(l) \/ Assigns(l)
        \/ Rejects(l)
    \/ \E x \in execs : Completes(x) \/ Fails(x)

Spec == Init /\ [][Next]_vars

-----------------------------------------------------------------------------
(* Every variable has its type. *)
TypeOK ==
    /\ doubled \subseteq Agents
    /\ status \in {"idle", "running", "completed", "failed", "terminated"}
    /\ error \in BOOLEAN /\ broken \in BOOLEAN /\ streak \in 0 .. CircuitBreakerThreshold
    /\ agent \in [Agents ->
        {"new", "idle", "working", "completed", "failed", "terminated", "removed"}]
    /\ current \in [Agents -> Tasks \cup {None}]
    /\ task \in [Tasks -> [status : {"new", "pending", "running", "completed", "failed"},
                           by : Agents \cup {None}]]
    /\ execs \subseteq [agent : Agents, task : Tasks, loop : Loops]
    /\ turn \in [Loops -> 0 .. MaxTurns \cup {Off}]

(* No agent works on two things at once: what a second loop, a stop, a     *)
(* termination, a restart of the session, a removal or the detector does   *)
(* to an agent never makes it idle while an execution of its own is in     *)
(* flight.  Two things do: adding its id again meanwhile, and a wave that  *)
(* hands a task to an agent it has awarded one, since nobody left had a    *)
(* score.                                                                  *)
OneTaskPerAgent == \A a \in Agents \ doubled :
    Cardinality({x \in execs : x.agent = a}) + (IF agent[a] = "idle" THEN 1 ELSE 0) <= 1
=============================================================================
