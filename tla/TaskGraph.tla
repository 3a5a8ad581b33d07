------------------------------ MODULE TaskGraph ------------------------------
(***************************************************************************)
(* How one user turn runs as a graph of tasks: the plan a model proposes   *)
(* is validated (server/taskPlan.ts), its tasks are stored with their      *)
(* dependencies, executeDAG runs them in waves, and each task is the       *)
(* tool-calling loop of runWorkerAgent (server/orchestrator.ts).           *)
(*                                                                         *)
(* Tasks are the positions of the plan, 1 .. N.  A dependency names a      *)
(* position, or 0 for a name no task has.  A stored dependency is the      *)
(* database id of a task, written as its position, or the plan's own name  *)
(* for it, written as the negated position (LocalName).                    *)
(*                                                                         *)
(* The steps a durable run records are files; writing one may fail, and    *)
(* recordDurableStep then throws.  What the process does after a death is  *)
(* in DurableRun and Execution, what a model call costs in ModelSpending.  *)
(***************************************************************************)
EXTENDS Integers, FiniteSets, FiniteSetsExt

CONSTANTS
    N,              \* bound: tasks of a plan (8 in taskPlan.ts)
    MaxIterations,  \* max_dag_iterations
    MaxRounds,      \* max_tool_iterations
    MaxFaults       \* bound: refused journal writes

ASSUME GraphAssumption ==
    /\ N \in Nat \ {0} /\ MaxIterations \in Nat \ {0} /\ MaxRounds \in Nat \ {0}
    /\ MaxFaults \in Nat

Positions == 1 .. N
Unknown == 0

VARIABLES
    engine,     \* ULTRA_SANDBOX_ENGINE: "docker" or "openshell"
    phase,      \* where runOrchestratorWithinBudget is
    plan,       \* the dependsOn lists of the plan
    status,     \* tasks.status
    dependsOn,  \* tasks.dependsOn, the resolved list
    pending, running, completed,    \* the sets of executeDAG
    iter,       \* waves begun
    rejected,   \* tasks of the wave whose promise was rejected
    worker,     \* where each runWorkerAgent is
    agentRun,   \* agent_runs.status
    container,  \* sandbox containers of the workers' sessions
    faults

scheduler == <<pending, running, completed, iter>>
vars == <<engine, phase, plan, status, dependsOn, scheduler, rejected, worker, agentRun,
          container, faults>>

Tasks == DOMAIN plan

-----------------------------------------------------------------------------
(* The plan. *)

\* Depth-first search over edges, as visit and dfs do it: `path' are the nodes
\* being visited (grey), `seen' those that are done (black).
CycleFrom(edges) ==
    LET Nodes == DOMAIN edges
        visit[at \in [path : SUBSET Nodes, seen : SUBSET Nodes, node : Nodes]] ==
            IF at.node \in at.path THEN [cycle |-> TRUE, seen |-> at.seen]
            ELSE IF at.node \in at.seen THEN [cycle |-> FALSE, seen |-> at.seen]
            ELSE LET Next1(dep, found) ==
                         IF found.cycle THEN found
                         ELSE visit[[path |-> at.path \cup {at.node}, seen |-> found.seen,
                                     node |-> dep]]
                     below == FoldSet(Next1, [cycle |-> FALSE, seen |-> at.seen], edges[at.node])
                 IN  [below EXCEPT !.seen = @ \cup {at.node}]
        Root(node, found) ==
            IF found.cycle THEN found ELSE visit[[path |-> {}, seen |-> found.seen, node |-> node]]
    IN  FoldSet(Root, [cycle |-> FALSE, seen |-> {}], Nodes).cycle

(* Seeded fault: cycles are not looked for. *)
ValidatedNames(proposal) == \A t \in DOMAIN proposal : Unknown \notin proposal[t]

\* validateTaskPlan; a plan's ids are unique and a list names no task twice here
Validated(proposal) ==
    /\ \A t \in DOMAIN proposal : Unknown \notin proposal[t]
    /\ ~CycleFrom(proposal)

Fallback == [t \in {1} |-> {}]

(* Seeded fault: a dependency with no database id yet is dropped. *)
ResolvedDropping(deps) == [t \in DOMAIN deps |-> {d \in deps[t] : d < t}]

\* createTask in plan order: a dependency on a task already stored becomes its
\* database id, any other keeps the name the plan gave it
LocalName(d) == -d
Resolved(deps) == [t \in DOMAIN deps |->
    {IF d < t THEN d ELSE LocalName(d) : d \in deps[t]}]

\* detectDAGCycles, which skips what is not the id of a task
DetectsCycle(stored) ==
    CycleFrom([t \in DOMAIN stored |-> stored[t] \cap DOMAIN stored])

-----------------------------------------------------------------------------
Off == "off"

Init ==
    /\ engine \in {"docker", "openshell"}
    /\ phase = "planning"
    /\ plan \in [Positions -> SUBSET (0 .. N)]
    /\ status = [t \in Positions |-> "absent"]
    /\ dependsOn = [t \in Positions |-> {}]
    /\ pending = {} /\ running = {} /\ completed = {} /\ iter = 0
    /\ rejected = {}
    /\ worker = [t \in Positions |-> [stage |-> Off, round |-> 0, failed |-> FALSE]]
    /\ agentRun = [t \in Positions |-> "absent"]
    /\ container = {}
    /\ faults = 0

\* decomposeIntoDAG, the task rows, and the start of executeDAG
Decompose ==
    /\ phase = "planning"
    /\ LET deps == IF Validated(plan) THEN plan ELSE Fallback
           tasks == DOMAIN deps
           stored == Resolved(deps)
           cyclic == DetectsCycle(stored)
       IN  /\ plan' = deps
           /\ dependsOn' = [t \in Positions |-> IF t \in tasks THEN stored[t] ELSE {}]
           /\ status' = [t \in Positions |->
                  IF t \notin tasks THEN "absent" ELSE IF cyclic THEN "failed" ELSE "pending"]
           /\ pending' = tasks
           /\ phase' = IF cyclic THEN "ran" ELSE "scheduling"
    /\ UNCHANGED <<engine, running, completed, iter, rejected, worker, agentRun, container, faults>>

\* the planning model cannot be called, or a planning step cannot be journalled
PlanningFails ==
    /\ phase = "planning"
    /\ phase' = "failed"
    /\ UNCHANGED <<engine, plan, status, dependsOn, scheduler, rejected, worker, agentRun,
                   container, faults>>

-----------------------------------------------------------------------------
(* executeDAG *)

Ready == {t \in pending : dependsOn[t] \subseteq completed}

\* All ready tasks start together; one whose `started' cannot be journalled is
\* rejected, still marked running.  (The branch that sleeps while tasks run is
\* never taken: a wave is awaited before the next iteration.)
StartWave ==
    /\ phase = "scheduling"
    /\ iter < MaxIterations /\ Ready # {}
    /\ \E refused \in SUBSET Ready :
         /\ faults + Cardinality(refused) <= MaxFaults
         /\ faults' = faults + Cardinality(refused)
         /\ rejected' = refused
         /\ worker' = [t \in Positions |->
                IF t \in Ready \ refused THEN [stage |-> "setup", round |-> 0, failed |-> FALSE]
                                         ELSE worker[t]]
    /\ iter' = iter + 1
    /\ pending' = pending \ Ready
    /\ running' = running \cup Ready
    /\ status' = [t \in Positions |-> IF t \in Ready THEN "running" ELSE status[t]]
    /\ phase' = "waiting"
    /\ UNCHANGED <<engine, plan, dependsOn, completed, agentRun, container>>

\* nothing pending, nothing ready, or out of iterations
StopScheduling ==
    /\ phase = "scheduling"
    /\ \/ pending = {} \/ iter >= MaxIterations \/ Ready = {}
    /\ phase' = "ran"
    /\ UNCHANGED <<engine, plan, status, dependsOn, scheduler, rejected, worker, agentRun,
                   container, faults>>

\* Promise.all: resolves when every task of the wave has ended
WaveEnds ==
    /\ phase = "waiting"
    /\ running = {}
    /\ phase' = "scheduling"
    /\ UNCHANGED <<engine, plan, status, dependsOn, scheduler, rejected, worker, agentRun,
                   container, faults>>

\* Promise.all rejects with the first rejection, whatever still runs; the
\* error ends the run
WaveRejects ==
    /\ phase = "waiting"
    /\ rejected # {}
    /\ phase' = "failed"
    /\ UNCHANGED <<engine, plan, status, dependsOn, scheduler, rejected, worker, agentRun,
                   container, faults>>

\* the check after executeDAG, then the synthesis and the answer
Conclude(answered) ==
    /\ phase = "ran"
    /\ phase' = IF answered /\ \A t \in Tasks : status[t] = "complete"
                THEN "done" ELSE "failed"
    /\ UNCHANGED <<engine, plan, status, dependsOn, scheduler, rejected, worker, agentRun,
                   container, faults>>

-----------------------------------------------------------------------------
(* The end of a task, in the stretch that runWorkerAgent's return or throw    *)
(* begins: the row, the journal, the sets.                                    *)

TaskSucceeds(t) ==
    /\ status' = [status EXCEPT ![t] = "complete"]
    /\ completed' = completed \cup {t}
    /\ running' = running \ {t}
    /\ UNCHANGED <<rejected, faults>>

\* The catch block: the task is failed, and counts as completed so that its
\* dependents run on its error - unless even that cannot be journalled, which
\* rejects the task's promise.  `spent' are refusals that led here.
TaskFails(t, spent) == \E again \in {0, 1} :
    /\ faults + spent + again <= MaxFaults
    /\ faults' = faults + spent + again
    /\ status' = [status EXCEPT ![t] = "failed"]
    /\ IF again = 1 THEN /\ rejected' = rejected \cup {t}
                         /\ UNCHANGED <<completed, running>>
                    ELSE /\ completed' = completed \cup {t}
                         /\ running' = running \ {t}
                         /\ UNCHANGED rejected

WorkerEnds(t) == worker' = [worker EXCEPT ![t].stage = Off]

-----------------------------------------------------------------------------
(* runWorkerAgent *)

Stage(t, s) == t \in Tasks /\ worker[t].stage = s

\* no model, no tool-capable model
WorkerRefused(t) ==
    /\ Stage(t, "setup")
    /\ WorkerEnds(t)
    /\ TaskFails(t, 0)
    /\ UNCHANGED <<engine, phase, plan, dependsOn, pending, iter, agentRun, container>>

BeginAgent(t) ==
    /\ Stage(t, "setup")
    /\ agentRun' = [agentRun EXCEPT ![t] = "running"]
    /\ worker' = [worker EXCEPT ![t].stage = "model", ![t].round = 1]
    /\ UNCHANGED <<engine, phase, plan, status, dependsOn, scheduler, rejected, container, faults>>

(* Seeded fault: a failed call is thrown on at once. *)
FinalAnswerThrown(t, failed) ==
    /\ Stage(t, "model")
    /\ IF failed THEN WorkerEnds(t) /\ TaskFails(t, 0)
       ELSE /\ worker' = [worker EXCEPT ![t].stage = "cleanup"]
            /\ UNCHANGED <<status, completed, running, rejected, faults>>
    /\ UNCHANGED <<engine, phase, plan, dependsOn, pending, iter, agentRun, container>>

\* The model answers: finally (`failed' when the answer is empty or lacks the
\* evidence asked for, or the call failed for good).
FinalAnswer(t, failed) ==
    /\ Stage(t, "model")
    /\ worker' = [worker EXCEPT ![t].stage = "cleanup", ![t].failed = failed]
    /\ UNCHANGED <<engine, phase, plan, status, dependsOn, scheduler, rejected, agentRun,
                   container, faults>>

\* ... or with tool calls (here one stands for all of a response), journalled
\* before the tool runs in the session's container
CallTool(t) ==
    /\ Stage(t, "model")
    /\ worker' = [worker EXCEPT ![t].stage = "tool"]
    /\ container' \in {container, container \cup {t}}
    /\ UNCHANGED <<engine, phase, plan, status, dependsOn, scheduler, rejected, agentRun, faults>>

(* Seeded fault: rounds are not counted. *)
ToolReturnsUncounted(t) ==
    /\ Stage(t, "tool")
    /\ worker' = [worker EXCEPT ![t].stage = "model"]
    /\ UNCHANGED <<engine, phase, plan, status, dependsOn, scheduler, rejected, agentRun,
                   container, faults>>

\* the tool's result is journalled, then the next round, if there is one left
ToolReturns(t) ==
    /\ Stage(t, "tool")
    /\ LET w == worker[t]
       IN  worker' = [worker EXCEPT ![t] =
               IF w.round < MaxRounds
               THEN [w EXCEPT !.stage = "model", !.round = w.round + 1]
               ELSE [w EXCEPT !.stage = "cleanup", !.failed = TRUE]]
    /\ UNCHANGED <<engine, phase, plan, status, dependsOn, scheduler, rejected, agentRun,
                   container, faults>>

\* A tool step that cannot be journalled leaves runWorkerAgent at once: no
\* cleanup, the agent run still running.
ToolUnrecorded(t) ==
    /\ Stage(t, "model") \/ Stage(t, "tool")
    /\ WorkerEnds(t)
    /\ TaskFails(t, 1)
    /\ UNCHANGED <<engine, phase, plan, dependsOn, pending, iter, agentRun, container>>

(* Seeded fault: a failed removal is only logged. *)
EndsBadlyAfterLog(t, removed) == worker[t].failed

\* removeContainer throws where OpenShell cannot delete; Docker's swallows it
EndsBadly(t, removed) == worker[t].failed \/ (engine = "openshell" /\ ~removed)

\* removeContainer, the agent run's row, and the end of the task; a container
\* seen to stay fails a task that had succeeded
CleanUp(t, removed) ==
    /\ Stage(t, "cleanup")
    /\ ~removed => t \in container
    /\ container' = IF removed THEN container \ {t} ELSE container
    /\ LET failed == EndsBadly(t, removed)
       IN  /\ agentRun' = [agentRun EXCEPT ![t] = IF failed THEN "failed" ELSE "complete"]
           /\ IF failed THEN TaskFails(t, 0) ELSE TaskSucceeds(t) \/ TaskFails(t, 1)
    /\ WorkerEnds(t)
    /\ UNCHANGED <<engine, phase, plan, dependsOn, pending, iter>>

WorkerStep(t) ==
    \/ WorkerRefused(t) \/ BeginAgent(t) \/ CallTool(t) \/ ToolReturns(t) \/ ToolUnrecorded(t)
    \/ \E failed \in BOOLEAN : FinalAnswer(t, failed)
    \/ \E removed \in BOOLEAN : CleanUp(t, removed)

Schedule == StartWave \/ StopScheduling \/ WaveEnds \/ WaveRejects

Next ==
    \/ Decompose \/ PlanningFails
    \/ Schedule
    \/ \E answered \in BOOLEAN : Conclude(answered)
    \/ \E t \in Positions : WorkerStep(t)

Spec == Init /\ [][Next]_vars

\* The event loop runs what is due; model and tool calls return, fail or time out.
Fairness ==
    /\ WF_vars(Decompose)
    /\ WF_vars(Schedule)
    /\ WF_vars(\E answered \in BOOLEAN : Conclude(answered))
    /\ \A t \in Positions : WF_vars(WorkerStep(t))

FairSpec == Spec /\ Fairness

-----------------------------------------------------------------------------
Ended == phase \in {"done", "failed"}
Stored == \E t \in Positions : status[t] # "absent"
Active(t) == worker[t].stage # Off
Forward(t) == \E d \in plan[t] : d > t

\* Every variable holds what the rows and sets can hold; the three sets of
\* executeDAG part the tasks.
TypeOK ==
    /\ phase \in {"planning", "scheduling", "waiting", "ran", "done", "failed"}
    /\ Tasks \subseteq Positions /\ \A t \in Tasks : plan[t] \subseteq 0 .. N
    /\ status \in [Positions -> {"absent", "pending", "running", "complete", "failed"}]
    /\ dependsOn \in [Positions -> SUBSET ((-N) .. N)]
    /\ Stored =>
         /\ pending \cup running \cup completed = Tasks
         /\ pending \cap (running \cup completed) = {} /\ running \cap completed = {}
    /\ iter \in 0 .. MaxIterations
    /\ rejected \subseteq running
    /\ worker \in [Positions -> [stage : {Off, "setup", "model", "tool", "cleanup"},
                                round : 0 .. MaxRounds, failed : BOOLEAN]]
    /\ agentRun \in [Positions -> {"absent", "running", "complete", "failed"}]
    /\ container \subseteq Positions
    /\ engine \in {"docker", "openshell"}
    /\ faults \in 0 .. MaxFaults

\* validateTaskPlan admits exactly the plans without unknown names in which
\* every set of tasks has one that waits for none of the others.
ValidationIsExact ==
    phase = "planning" =>
        (Validated(plan) <=>
            /\ \A t \in Tasks : Unknown \notin plan[t]
            /\ \A S \in (SUBSET Tasks) \ {{}} : \E t \in S : plan[t] \cap S = {})

\* No task starts before everything its plan says it depends on has ended,
\* in whatever order the plan lists the tasks.
DependenciesEndFirst ==
    \A t \in Tasks : (Stored /\ t \notin pending) =>
        \A d \in plan[t] : d \in Tasks => status[d] \in {"complete", "failed"}

\* The turn is answered only when every task, its agent run and, where a failed
\* removal is seen, its sandbox ended well; and a graph stops short only because
\* a task failed, the iterations ran out, or the plan lists a task before one it
\* depends on.
SuccessIsWhole ==
    /\ phase = "done" => \A t \in Tasks :
        /\ status[t] = "complete" /\ agentRun[t] = "complete"
        /\ t \in container => engine = "docker"
    /\ (phase = "ran" /\ \E t \in Tasks : status[t] # "complete") =>
        \E t \in Tasks : status[t] = "failed" \/ Forward(t) \/ iter = MaxIterations

\* When the turn has its outcome nothing of it still runs, unless a journal
\* write was refused; and without such a refusal nothing is left behind: no
\* agent run is still open, and a sandbox that OpenShell could not remove has
\* failed its task.
NoLeftovers ==
    Ended => \A t \in Tasks :
        /\ Active(t) => rejected # {}
        /\ faults = 0 =>
            /\ agentRun[t] # "running"
            /\ t \in container => engine = "docker" \/ status[t] = "failed"

\* Every turn comes to its outcome.
TurnEnds == <>Ended

\* What validation is for: a plan it admits runs to its end unless a task fails.
AdmittedPlansRun ==
    phase = "ran" => \/ \A t \in Tasks : status[t] = "complete"
                     \/ \E t \in Tasks : status[t] = "failed"
=============================================================================
