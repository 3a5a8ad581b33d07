---------------------------- MODULE TaskGraphProof ----------------------------
(***************************************************************************)
(* Proofs about TaskGraph for every size and shape of plan and every bound *)
(* on waves, rounds and refused journal writes: first the scheduler and    *)
(* its workers, then the depth-first search that validates a plan.         *)
(***************************************************************************)
EXTENDS TaskGraph, SumLemmas

(* Until the tasks are stored nothing has happened; then every dependency  *)
(* is a task, stored under its id or, when it comes later, its name.       *)
Planned ==
  /\ ~Stored =>
       /\ pending = {} /\ running = {} /\ completed = {} /\ rejected = {}
       /\ phase \in {"planning", "failed"} /\ Tasks = Positions
       /\ \A t \in Positions : ~Active(t) /\ agentRun[t] = "absent"
       /\ container = {} /\ faults = 0
  /\ Stored =>
       /\ phase # "planning" /\ Tasks # {}
       /\ \A t \in Tasks :
            /\ plan[t] \subseteq Tasks
            /\ dependsOn[t] = {IF d < t THEN d ELSE LocalName(d) : d \in plan[t]}
       /\ \A t \in Positions : status[t] = "absent" <=> t \notin Tasks

(* The sets of executeDAG and the task rows agree. *)
RowsAgree == Stored => \A t \in Tasks :
  /\ t \in pending =>
       status[t] = "pending" \/ (status[t] = "failed" /\ phase \notin {"scheduling", "waiting"})
  /\ t \in running => status[t] \in {"running", "failed"}
  /\ t \in completed => status[t] \in {"complete", "failed"}

(* Between waves nothing runs; a turn that ended while something runs was  *)
(* ended by a rejection, and a rejection is a refused journal write.       *)
Waves ==
  /\ phase \in {"scheduling", "ran", "done"} => running = {}
  /\ phase \in {"done", "failed"} => running = {} \/ rejected # {}
  /\ rejected # {} => faults > 0

(* What each worker owes: its task is running, its agent run is open from  *)
(* its first round to its cleanup, its container does not outlive it.      *)
WorkersOwe == \A t \in Positions :
  /\ Active(t) => t \in running /\ t \notin rejected
  /\ worker[t].stage = "setup" => agentRun[t] = "absent"
  /\ worker[t].stage \in {"model", "tool", "cleanup"} => agentRun[t] = "running"
  /\ t \in pending => agentRun[t] = "absent" /\ t \notin container
  /\ agentRun[t] = "running" => Active(t) \/ faults > 0
  /\ t \in container => Active(t) \/ engine = "docker" \/ status[t] = "failed"
  /\ status[t] = "complete" => agentRun[t] = "complete"

(* A task that left `pending' had everything it names in `completed'.       *)
DependenciesDone == Stored => \A t \in Tasks \ pending : plan[t] \subseteq completed

(* The inductive invariant.                                                 *)
Inv == TypeOK /\ Planned /\ RowsAgree /\ Waves /\ WorkersOwe /\ DependenciesDone

(* The refused writes of a wave are as many as they are, and some if any.   *)
LEMMA RefusalsCount ==
  ASSUME NEW S \in SUBSET Positions
  PROVE  Cardinality(S) \in Nat /\ (S # {} => Cardinality(S) > 0)
<1>1. IsFiniteSet(Positions)
  BY FS_Interval, GraphAssumption DEF Positions
<1>2. IsFiniteSet(S)
  BY <1>1, FS_Subset
<1> QED BY <1>2, FS_CardinalityType, FS_EmptySet

(* The invariant holds before the plan is looked at.                        *)
LEMMA InvInit == Init => Inv
<1> SUFFICES ASSUME Init PROVE Inv
  OBVIOUS
<1> USE GraphAssumption DEF Init, Positions, Stored, Active, Off, Tasks
<1>1. TypeOK
  BY DEF TypeOK
<1>2. Planned /\ RowsAgree /\ Waves /\ WorkersOwe /\ DependenciesDone
  BY DEF Planned, RowsAgree, Waves, WorkersOwe, DependenciesDone
<1> QED BY <1>1, <1>2 DEF Inv

(* What `worker' says of one runWorkerAgent.                                *)
WorkerState == [stage : {Off, "setup", "model", "tool", "cleanup"},
                round : 0 .. MaxRounds, failed : BOOLEAN]

(* What the end of a task does to the rows and sets. *)
LEMMA TaskEnds ==
  ASSUME TypeOK, NEW t \in Positions, NEW spent \in {0, 1}, t \in running \ rejected,
         TaskFails(t, spent) \/ (spent = 0 /\ TaskSucceeds(t))
  PROVE  /\ faults' \in spent + faults .. MaxFaults
         /\ \E s \in {"complete", "failed"} : status' = [status EXCEPT ![t] = s]
         /\ \/ /\ completed' = completed \cup {t} /\ running' = running \ {t}
               /\ rejected' = rejected
            \/ /\ UNCHANGED <<completed, running>> /\ rejected' = rejected \cup {t}
               /\ faults' > 0 /\ status' = [status EXCEPT ![t] = "failed"]
  BY GraphAssumption DEF TypeOK, TaskFails, TaskSucceeds

(* The plan that is stored, admitted or the fallback, names only its tasks. *)
LEMMA Validity ==
  ASSUME TypeOK, Tasks = Positions
  PROVE  LET deps == IF Validated(plan) THEN plan ELSE Fallback
         IN  /\ DOMAIN deps \subseteq Positions /\ DOMAIN deps # {}
             /\ \A t \in DOMAIN deps : deps[t] \subseteq DOMAIN deps
  BY GraphAssumption DEF TypeOK, Validated, Fallback, Tasks, Positions, Unknown

(* Decompose, with the cases of validation and of detectDAGCycles joined.   *)
LEMMA DecomposeSteps ==
  ASSUME TypeOK, Planned, Decompose
  PROVE  /\ ~Stored /\ Tasks' \subseteq Positions /\ Tasks' # {}
         /\ \A t \in Tasks' : plan'[t] \subseteq Tasks'
         /\ dependsOn' = [t \in Positions |->
                IF t \in Tasks' THEN {IF d < t THEN d ELSE LocalName(d) : d \in plan'[t]} ELSE {}]
         /\ \E s \in {"pending", "failed"} :
              /\ status' = [t \in Positions |-> IF t \in Tasks' THEN s ELSE "absent"]
              /\ phase' = IF s = "failed" THEN "ran" ELSE "scheduling"
         /\ pending' = Tasks'
         /\ UNCHANGED <<engine, running, completed, iter, rejected, worker, agentRun,
                        container, faults>>
<1> DEFINE deps == IF Validated(plan) THEN plan ELSE Fallback
<1>1. ~Stored /\ Tasks = Positions
  BY DEF Decompose, Planned
<1>2. /\ DOMAIN deps \subseteq Positions /\ DOMAIN deps # {}
      /\ \A t \in DOMAIN deps : deps[t] \subseteq DOMAIN deps
  BY <1>1, Validity
<1>3. plan' = deps
  BY DEF Decompose
<1>4. /\ dependsOn' = [t \in Positions |-> IF t \in DOMAIN deps THEN Resolved(deps)[t] ELSE {}]
      /\ \E s \in {"pending", "failed"} :
           /\ status' = [t \in Positions |-> IF t \in DOMAIN deps THEN s ELSE "absent"]
           /\ phase' = IF s = "failed" THEN "ran" ELSE "scheduling"
      /\ pending' = DOMAIN deps
      /\ UNCHANGED <<engine, running, completed, iter, rejected, worker, agentRun,
                     container, faults>>
  <2>1. CASE DetectsCycle(Resolved(deps))
    BY <2>1 DEF Decompose
  <2>2. CASE ~DetectsCycle(Resolved(deps))
    BY <2>2 DEF Decompose
  <2> QED BY <2>1, <2>2
<1> HIDE DEF deps
<1> QED BY <1>1, <1>2, <1>3, <1>4 DEF Tasks, Resolved

(* StartWave: all ready tasks leave `pending', those not refused get workers.*)
LEMMA WaveStarts ==
  ASSUME TypeOK, Planned, StartWave
  PROVE  /\ Stored /\ Ready \subseteq pending /\ Ready \subseteq Tasks /\ Ready # {}
         /\ \A t \in Ready : dependsOn[t] \subseteq completed
         /\ rejected' \subseteq Ready /\ faults' \in faults .. MaxFaults
         /\ rejected' # {} => faults' > 0
         /\ worker' = [t \in Positions |->
              IF t \in Ready \ rejected' THEN [stage |-> "setup", round |-> 0, failed |-> FALSE]
                                         ELSE worker[t]]
         /\ iter' = iter + 1 /\ iter < MaxIterations
         /\ pending' = pending \ Ready /\ running' = running \cup Ready
         /\ status' = [t \in Positions |-> IF t \in Ready THEN "running" ELSE status[t]]
         /\ phase = "scheduling" /\ phase' = "waiting"
         /\ UNCHANGED <<engine, plan, dependsOn, completed, agentRun, container>>
<1>1. Stored /\ Ready \subseteq pending /\ pending \subseteq Tasks /\ Tasks \subseteq Positions
  BY DEF StartWave, Planned, TypeOK, Ready
<1>2. PICK refused \in SUBSET Ready :
        /\ faults + Cardinality(refused) <= MaxFaults
        /\ faults' = faults + Cardinality(refused)
        /\ rejected' = refused
        /\ worker' = [t \in Positions |->
             IF t \in Ready \ refused THEN [stage |-> "setup", round |-> 0, failed |-> FALSE]
                                      ELSE worker[t]]
  BY DEF StartWave
<1>3. Cardinality(refused) \in Nat /\ (refused # {} => Cardinality(refused) > 0)
  BY <1>1, RefusalsCount
<1>4. faults' \in faults .. MaxFaults /\ (rejected' # {} => faults' > 0)
  BY <1>2, <1>3, GraphAssumption DEF TypeOK
<1> QED BY <1>1, <1>2, <1>4 DEF StartWave, Ready

(* A step of worker t, seen from outside: its own entries change, and the    *)
(* rows and sets only when it ends.                                          *)
WorkerMove(t) ==
  /\ t \in Tasks /\ Active(t)
  /\ UNCHANGED <<engine, phase, plan, dependsOn, pending, iter>>
  /\ \E w \in WorkerState :
       /\ worker' = [worker EXCEPT ![t] = w]
       /\ \/ w.stage # Off /\ UNCHANGED <<status, running, completed, rejected, faults>>
          \/ /\ w.stage = Off
             /\ \E spent \in {0, 1} :
                  TaskFails(t, spent) \/ (spent = 0 /\ TaskSucceeds(t))
  /\ \E a \in {"absent", "running", "complete", "failed"} :
       agentRun' = [agentRun EXCEPT ![t] = a]
  /\ container' \subseteq container \cup {t}

(* The updates runWorkerAgent makes to its own state.                        *)
LEMMA WorkerUpdates ==
  ASSUME NEW w \in WorkerState
  PROVE  /\ \A s \in {Off, "model", "tool", "cleanup"} :
              [w EXCEPT !.stage = s] \in WorkerState /\ [w EXCEPT !.stage = s].stage = s
         /\ \A r \in 0 .. MaxRounds :
              /\ [w EXCEPT !.stage = "model", !.round = r] \in WorkerState
              /\ [w EXCEPT !.stage = "model", !.round = r].stage = "model"
         /\ \A f \in BOOLEAN :
              /\ [w EXCEPT !.stage = "cleanup", !.failed = f] \in WorkerState
              /\ [w EXCEPT !.stage = "cleanup", !.failed = f].stage = "cleanup"
  BY DEF WorkerState

(* Every action of a worker is such a move.                                  *)
LEMMA WorkerMoves ==
  ASSUME TypeOK, NEW t \in Positions, WorkerStep(t)
  PROVE  WorkerMove(t)
<1>0. worker \in [Positions -> WorkerState]
  BY DEF TypeOK, WorkerState
<1>1. worker[t] \in WorkerState /\ worker[t].round \in 0 .. MaxRounds
  BY DEF TypeOK, WorkerState
<1>2. /\ agentRun = [agentRun EXCEPT ![t] = agentRun[t]]
      /\ agentRun[t] \in {"absent", "running", "complete", "failed"}
  BY DEF TypeOK
<1>3. Off # "setup" /\ Off # "model" /\ Off # "tool" /\ Off # "cleanup"
  BY DEF Off
<1>4. ASSUME WorkerEnds(t)
      PROVE  \E w \in WorkerState : worker' = [worker EXCEPT ![t] = w] /\ w.stage = Off
  BY <1>1, <1>4, WorkerUpdates DEF WorkerEnds
<1> USE DEF Stage, Active, scheduler
<1>5. CASE WorkerRefused(t)
  BY <1>2, <1>3, <1>4, <1>5 DEF WorkerRefused, WorkerMove
<1>6. CASE BeginAgent(t)
  <2>1. \E w \in WorkerState : worker' = [worker EXCEPT ![t] = w] /\ w.stage = "model"
    <3>1. worker' = [worker EXCEPT ![t] = [worker[t] EXCEPT !.stage = "model", !.round = 1]]
      BY <1>0, <1>6 DEF BeginAgent
    <3>2. 1 \in 0 .. MaxRounds
      BY GraphAssumption
    <3> DEFINE w == [worker[t] EXCEPT !.stage = "model", !.round = 1]
    <3>3. w \in WorkerState /\ w.stage = "model"
      BY <1>1, <3>2, WorkerUpdates
    <3> HIDE DEF w
    <3> QED BY <3>1, <3>3 DEF w
  <2> QED BY <1>3, <1>6, <2>1 DEF BeginAgent, WorkerMove
<1>7. CASE CallTool(t)
  <2>1. \E w \in WorkerState : worker' = [worker EXCEPT ![t] = w] /\ w.stage = "tool"
    BY <1>1, <1>7, WorkerUpdates DEF CallTool
  <2> QED BY <1>2, <1>3, <1>7, <2>1 DEF CallTool, WorkerMove
<1>8. CASE ToolReturns(t)
  <2>1. \E w \in WorkerState :
          worker' = [worker EXCEPT ![t] = w] /\ w.stage \in {"model", "cleanup"}
    <3>1. CASE worker[t].round < MaxRounds
      <4>1. worker[t].round + 1 \in 0 .. MaxRounds
        BY <1>1, <3>1, GraphAssumption
      <4>2. worker' = [worker EXCEPT ![t] =
               [worker[t] EXCEPT !.stage = "model", !.round = worker[t].round + 1]]
        BY <1>8, <3>1 DEF ToolReturns
      <4> DEFINE w == [worker[t] EXCEPT !.stage = "model", !.round = worker[t].round + 1]
      <4>3. w \in WorkerState /\ w.stage = "model"
        BY <1>1, <4>1, WorkerUpdates
      <4> HIDE DEF w
      <4> QED BY <4>2, <4>3 DEF w
    <3>2. CASE ~(worker[t].round < MaxRounds)
      <4>1. worker' = [worker EXCEPT ![t] =
               [worker[t] EXCEPT !.stage = "cleanup", !.failed = TRUE]]
        BY <1>8, <3>2 DEF ToolReturns
      <4> QED BY <1>1, <4>1, WorkerUpdates
    <3> QED BY <3>1, <3>2
  <2> QED BY <1>2, <1>3, <1>8, <2>1 DEF ToolReturns, WorkerMove
<1>9. CASE ToolUnrecorded(t)
  BY <1>2, <1>3, <1>4, <1>9 DEF ToolUnrecorded, WorkerMove
<1>10. ASSUME NEW failed \in BOOLEAN, FinalAnswer(t, failed) PROVE WorkerMove(t)
  <2>1. \E w \in WorkerState : worker' = [worker EXCEPT ![t] = w] /\ w.stage = "cleanup"
    <3>1. worker' = [worker EXCEPT ![t] =
             [worker[t] EXCEPT !.stage = "cleanup", !.failed = failed]]
      BY <1>0, <1>10 DEF FinalAnswer
    <3> QED BY <1>1, <3>1, WorkerUpdates
  <2> QED BY <1>2, <1>3, <1>10, <2>1 DEF FinalAnswer, WorkerMove
<1>11. ASSUME NEW removed \in BOOLEAN, CleanUp(t, removed) PROVE WorkerMove(t)
  <2>1. /\ WorkerEnds(t) /\ Stage(t, "cleanup") /\ container' \subseteq container \cup {t}
        /\ UNCHANGED <<engine, phase, plan, dependsOn, pending, iter>>
    BY <1>11 DEF CleanUp
  <2>2. \E a \in {"failed", "complete"} : agentRun' = [agentRun EXCEPT ![t] = a]
    BY <1>11 DEF CleanUp
  <2>3. \E spent \in {0, 1} : TaskFails(t, spent) \/ (spent = 0 /\ TaskSucceeds(t))
    BY <1>11 DEF CleanUp
  <2>4. t \in Tasks /\ worker[t].stage # Off
    BY <1>3, <2>1
  <2>5. PICK w \in WorkerState : worker' = [worker EXCEPT ![t] = w] /\ w.stage = Off
    BY <1>4, <2>1
  <2> QED BY <2>1, <2>2, <2>3, <2>4, <2>5 DEF WorkerMove
<1> QED BY <1>5, <1>6, <1>7, <1>8, <1>9, <1>10, <1>11 DEF WorkerStep

(* What happens to the rows and sets when worker t makes a step. *)
LEMMA WorkerRows ==
  ASSUME Inv, NEW t \in Positions, WorkerMove(t)
  PROVE  /\ Stored /\ t \in Tasks /\ t \in running \ rejected
         /\ \E w \in WorkerState : worker' = [worker EXCEPT ![t] = w]
         /\ faults' \in faults .. MaxFaults
         /\ \/ worker'[t].stage # Off /\ UNCHANGED <<status, running, completed, rejected>>
            \/ /\ worker'[t].stage = Off
               /\ \E s \in {"complete", "failed"} : status' = [status EXCEPT ![t] = s]
               /\ completed' = completed \cup {t} /\ running' = running \ {t}
               /\ rejected' = rejected
            \/ /\ worker'[t].stage = Off
               /\ status' = [status EXCEPT ![t] = "failed"]
               /\ UNCHANGED <<completed, running>>
               /\ rejected' = rejected \cup {t} /\ faults' > 0
<1>1. t \in Tasks /\ t \in running \ rejected
  BY DEF WorkerMove, Inv, WorkersOwe
<1>2. Stored
  BY <1>1 DEF Inv, Planned
<1>3. PICK w \in WorkerState :
        /\ worker' = [worker EXCEPT ![t] = w]
        /\ \/ w.stage # Off /\ UNCHANGED <<status, running, completed, rejected, faults>>
           \/ /\ w.stage = Off
              /\ \E spent \in {0, 1} : TaskFails(t, spent) \/ (spent = 0 /\ TaskSucceeds(t))
  BY DEF WorkerMove
<1>4. worker'[t] = w
  BY <1>3 DEF Inv, TypeOK
<1>5. CASE w.stage # Off /\ UNCHANGED <<status, running, completed, rejected, faults>>
  <2>1. faults' \in faults .. MaxFaults
    BY <1>5, GraphAssumption DEF Inv, TypeOK
  <2> QED BY <1>1, <1>2, <1>3, <1>4, <1>5, <2>1
<1>6. ASSUME w.stage = Off, NEW spent \in {0, 1},
             TaskFails(t, spent) \/ (spent = 0 /\ TaskSucceeds(t))
      PROVE  /\ faults' \in faults .. MaxFaults
             /\ \/ /\ \E s \in {"complete", "failed"} : status' = [status EXCEPT ![t] = s]
                   /\ completed' = completed \cup {t} /\ running' = running \ {t}
                   /\ rejected' = rejected
                \/ /\ status' = [status EXCEPT ![t] = "failed"]
                   /\ UNCHANGED <<completed, running>>
                   /\ rejected' = rejected \cup {t} /\ faults' > 0
  <2>1. /\ faults' \in spent + faults .. MaxFaults
        /\ \E s \in {"complete", "failed"} : status' = [status EXCEPT ![t] = s]
        /\ \/ /\ completed' = completed \cup {t} /\ running' = running \ {t}
              /\ rejected' = rejected
           \/ /\ UNCHANGED <<completed, running>> /\ rejected' = rejected \cup {t}
              /\ faults' > 0 /\ status' = [status EXCEPT ![t] = "failed"]
    BY <1>1, <1>6, TaskEnds DEF Inv
  <2>2. faults' \in faults .. MaxFaults
    BY <2>1, GraphAssumption DEF Inv, TypeOK
  <2> QED BY <2>1, <2>2
<1> QED BY <1>1, <1>2, <1>3, <1>4, <1>5, <1>6

(* Steps preserve the types; the sets still part the tasks.                  *)
LEMMA TypeStep == ASSUME Inv, [Next]_vars PROVE TypeOK'
<1> USE GraphAssumption
<1>1. CASE UNCHANGED vars
  BY <1>1 DEF Inv, TypeOK, vars, scheduler, Stored, Tasks
<1>2. CASE Decompose
  <2> USE <1>2, DecomposeSteps DEF Inv
  <2>1. Stored' /\ running' = {} /\ completed' = {} /\ rejected' = {}
    BY DEF Planned, Stored
  <2>2. dependsOn' \in [Positions -> SUBSET ((-N) .. N)]
    BY DEF Positions, LocalName
  <2>3. \A t \in Tasks' : plan'[t] \subseteq 0 .. N
    BY DEF Positions
  <2> QED BY <2>1, <2>2, <2>3 DEF TypeOK
<1>3. CASE PlanningFails \/ StopScheduling \/ WaveEnds \/ WaveRejects
  BY <1>3 DEF Inv, TypeOK, PlanningFails, StopScheduling, WaveEnds, WaveRejects, scheduler,
              Stored, Tasks
<1>4. ASSUME NEW answered \in BOOLEAN, Conclude(answered) PROVE TypeOK'
  BY <1>4 DEF Inv, TypeOK, Conclude, scheduler, Stored, Tasks
<1>5. CASE StartWave
  <2> USE <1>5, WaveStarts DEF Inv
  <2>1. Stored' /\ Tasks' = Tasks /\ rejected' \subseteq running'
    BY DEF Stored, Tasks, TypeOK
  <2>2. /\ pending' \cup running' \cup completed' = Tasks'
        /\ pending' \cap (running' \cup completed') = {} /\ running' \cap completed' = {}
    BY <2>1 DEF TypeOK
  <2>3. worker' \in [Positions -> WorkerState]
    <3>1. [stage |-> "setup", round |-> 0, failed |-> FALSE] \in WorkerState
      BY DEF WorkerState
    <3>2. worker \in [Positions -> WorkerState]
      BY DEF TypeOK, WorkerState
    <3> QED BY <3>1, <3>2
  <2>4. faults' \in 0 .. MaxFaults /\ iter' \in 0 .. MaxIterations
    BY DEF TypeOK
  <2>5. status' \in [Positions -> {"absent", "pending", "running", "complete", "failed"}]
    BY DEF TypeOK
  <2> QED BY <2>1, <2>2, <2>3, <2>4, <2>5 DEF TypeOK, WorkerState, Tasks
<1>6. ASSUME NEW t \in Positions, WorkerStep(t) PROVE TypeOK'
  <2>1. WorkerMove(t)
    BY <1>6, WorkerMoves DEF Inv
  <2> USE <2>1, WorkerRows DEF Inv
  <2>2. UNCHANGED <<engine, phase, plan, dependsOn, pending, iter>>
    BY DEF WorkerMove
  <2>3. agentRun' \in [Positions -> {"absent", "running", "complete", "failed"}]
        /\ container' \subseteq Positions
    BY DEF WorkerMove, TypeOK
  <2>4. worker' \in [Positions -> WorkerState]
    BY DEF TypeOK, WorkerState
  <2>5. status' \in [Positions -> {"absent", "pending", "running", "complete", "failed"}]
    BY DEF TypeOK
  <2>6. /\ pending' \cup running' \cup completed' = Tasks'
        /\ pending' \cap (running' \cup completed') = {} /\ running' \cap completed' = {}
        /\ rejected' \subseteq running'
    <3>1. /\ pending \cup running \cup completed = Tasks
          /\ pending \cap (running \cup completed) = {} /\ running \cap completed = {}
          /\ rejected \subseteq running /\ t \in running \ rejected
      BY DEF TypeOK
    <3>2. Tasks' = Tasks /\ pending' = pending
      BY <2>2 DEF Tasks
    <3>3. \/ UNCHANGED <<running, completed, rejected>>
          \/ completed' = completed \cup {t} /\ running' = running \ {t} /\ rejected' = rejected
          \/ UNCHANGED <<completed, running>> /\ rejected' = rejected \cup {t}
      OBVIOUS
    <3> HIDE <2>1, WorkerRows DEF Inv
    <3> QED BY <3>1, <3>2, <3>3
  <2>7. faults' \in 0 .. MaxFaults
    BY DEF TypeOK
  <2> QED BY <2>2, <2>3, <2>4, <2>5, <2>6, <2>7 DEF TypeOK, WorkerState, Tasks
<1> QED BY <1>1, <1>2, <1>3, <1>4, <1>5, <1>6 DEF Next, Schedule

(* A step is the storing of the plan, the start of a wave, a move of one    *)
(* worker, or changes nothing but the phase.                               *)
OnlyPhase ==
  /\ UNCHANGED <<engine, plan, status, dependsOn, pending, running, completed, iter, rejected,
                 worker, agentRun, container, faults>>
  /\ \/ phase' = phase
     \/ phase = "planning" /\ phase' = "failed"
     \/ /\ phase = "scheduling" /\ phase' = "ran"
        /\ pending = {} \/ iter >= MaxIterations \/ Ready = {}
     \/ phase = "waiting" /\ phase' = "scheduling" /\ running = {}
     \/ phase = "waiting" /\ phase' = "failed" /\ rejected # {}
     \/ phase = "ran" /\ phase' = "failed"
     \/ phase = "ran" /\ phase' = "done" /\ \A t \in Tasks : status[t] = "complete"

LEMMA StepKinds ==
  ASSUME TypeOK, [Next]_vars
  PROVE  \/ Decompose \/ StartWave \/ OnlyPhase
         \/ \E t \in Positions : WorkerMove(t) /\ WorkerStep(t)
<1> USE DEF OnlyPhase, scheduler
<1>1. CASE UNCHANGED vars
  BY <1>1 DEF vars
<1>2. CASE PlanningFails \/ StopScheduling
  BY <1>2 DEF PlanningFails, StopScheduling
<1>3. CASE WaveEnds \/ WaveRejects
  BY <1>3 DEF WaveEnds, WaveRejects
<1>4. ASSUME NEW answered \in BOOLEAN, Conclude(answered) PROVE OnlyPhase
  BY <1>4 DEF Conclude
<1> QED BY <1>1, <1>2, <1>3, <1>4, WorkerMoves DEF Next, Schedule

(* Steps preserve what holds before and after the tasks are stored.          *)
LEMMA PlannedStep == ASSUME Inv, [Next]_vars PROVE Planned'
<1>1. CASE Decompose
  <2> USE <1>1, DecomposeSteps DEF Inv
  <2>1. Stored'
    BY DEF Stored
  <2>2. \A t \in Tasks' : t \in Positions
    OBVIOUS
  <2> QED BY <2>1, <2>2 DEF Planned
<1>2. CASE StartWave
  <2> USE <1>2, WaveStarts DEF Inv
  <2>1. Stored' /\ Tasks' = Tasks
    BY DEF Stored, Tasks, TypeOK
  <2>2. \A t \in Positions : status'[t] = "absent" <=> t \notin Tasks
    BY DEF Planned
  <2> QED BY <2>1, <2>2 DEF Planned
<1>3. CASE OnlyPhase
  BY <1>3 DEF Inv, Planned, OnlyPhase, Stored, Active, Tasks
<1>4. ASSUME NEW t \in Positions, WorkerMove(t) PROVE Planned'
  <2> USE <1>4, WorkerRows DEF Inv
  <2>1. UNCHANGED <<phase, plan, dependsOn>> /\ Tasks' = Tasks
    BY DEF WorkerMove, Tasks
  <2>2. \E s \in {"complete", "failed"} : status' \in {status, [status EXCEPT ![t] = s]}
    OBVIOUS
  <2>3. \A u \in Positions : status'[u] = "absent" <=> status[u] = "absent"
    BY <2>2 DEF TypeOK, Planned
  <2>4. Stored'
    BY <2>3 DEF Stored
  <2> QED BY <2>1, <2>3, <2>4 DEF Planned
<1> QED BY <1>1, <1>2, <1>3, <1>4, StepKinds DEF Inv

(* Steps preserve the agreement of rows and sets, and that of the waves.     *)
LEMMA RowsAgreeStep == ASSUME Inv, [Next]_vars PROVE RowsAgree' /\ Waves'
<1>1. CASE Decompose
  BY <1>1, DecomposeSteps DEF Inv, RowsAgree, Waves, Planned
<1>2. CASE StartWave
  <2> USE <1>2, WaveStarts DEF Inv
  <2>1. Stored /\ Tasks' = Tasks /\ running = {}
    BY DEF Tasks, Waves
  <2>2. RowsAgree'
    BY <2>1 DEF RowsAgree, TypeOK
  <2>3. Waves'
    BY DEF Waves
  <2> QED BY <2>2, <2>3
<1>3. CASE OnlyPhase
  BY <1>3 DEF Inv, RowsAgree, Waves, OnlyPhase, Stored, Tasks, TypeOK, Planned
<1>4. ASSUME NEW t \in Positions, WorkerMove(t) PROVE RowsAgree' /\ Waves'
  <2> USE <1>4, WorkerRows DEF Inv
  <2>1. UNCHANGED <<phase, pending>> /\ Tasks' = Tasks
    BY DEF WorkerMove, Tasks
  <2>2. Waves'
    BY <2>1, GraphAssumption DEF Waves, TypeOK
  <2>3. t \notin pending /\ t \notin completed
    BY DEF TypeOK
  <2>4. \A u \in Positions \ {t} : status'[u] = status[u]
    BY DEF TypeOK
  <2>5. \A u \in Tasks : u \in pending => u # t
    BY <2>3
  <2>6. t \in running' => status'[t] \in {"running", "failed"}
    BY DEF RowsAgree, TypeOK
  <2>7. t \in completed' => status'[t] \in {"complete", "failed"}
    BY <2>3 DEF TypeOK
  <2>8. \A u \in Tasks \ {t} :
          (u \in running' => u \in running) /\ (u \in completed' => u \in completed)
    OBVIOUS
  <2>9. Tasks \subseteq Positions
    BY DEF TypeOK
  <2> HIDE <1>4, WorkerRows
  <2>10. RowsAgree'
    BY <1>4, WorkerRows, <2>1, <2>4, <2>5, <2>6, <2>7, <2>8, <2>9 DEF RowsAgree
  <2> QED BY <2>2, <2>10
<1> QED BY <1>1, <1>2, <1>3, <1>4, StepKinds DEF Inv

(* A ready task is stored with ids only, and those have completed: a local   *)
(* name is no id, so a task that names a later one is never ready.           *)
LEMMA DependenciesStep == ASSUME Inv, [Next]_vars PROVE DependenciesDone'
<1>1. CASE Decompose
  BY <1>1, DecomposeSteps DEF Inv, DependenciesDone
<1>2. CASE StartWave
  <2> USE <1>2, WaveStarts DEF Inv
  <2>1. Stored /\ Tasks' = Tasks /\ UNCHANGED <<plan, completed>>
    BY DEF Tasks
  <2>2. ASSUME NEW t \in Ready PROVE plan[t] \subseteq completed
    <3>1. t \in Tasks /\ dependsOn[t] \subseteq completed /\ completed \subseteq Positions
      BY <2>2 DEF TypeOK
    <3>2. /\ plan[t] \subseteq Positions
          /\ dependsOn[t] = {IF d < t THEN d ELSE LocalName(d) : d \in plan[t]}
      BY <2>1, <3>1 DEF Planned, TypeOK
    <3>3. ASSUME NEW d \in plan[t] PROVE d \in completed
      <4>1. (IF d < t THEN d ELSE LocalName(d)) \in completed
        BY <3>1, <3>2
      <4> QED BY <3>1, <3>2, <4>1, GraphAssumption DEF Positions, LocalName
    <3> QED BY <3>3
  <2> QED BY <2>1, <2>2 DEF DependenciesDone
<1>3. CASE OnlyPhase
  BY <1>3 DEF Inv, DependenciesDone, OnlyPhase, Stored, Tasks
<1>4. ASSUME NEW t \in Positions, WorkerMove(t) PROVE DependenciesDone'
  <2>1. /\ UNCHANGED <<pending, plan>> /\ Tasks' = Tasks
        /\ completed \subseteq completed' /\ Stored
    BY <1>4, WorkerRows DEF WorkerMove, Tasks
  <2> QED BY <2>1 DEF DependenciesDone, Inv
<1> QED BY <1>1, <1>2, <1>3, <1>4, StepKinds DEF Inv
(* What a step of worker t leaves of its agent run and its container.        *)
Settled(t) ==
  /\ agentRun'[t] = "running" => faults' > 0
  /\ status'[t] = "complete" => agentRun'[t] = "complete"
  /\ t \in container' => engine = "docker" \/ status'[t] = "failed"

(* A worker goes on with its agent run open, or ends and has settled.        *)
LEMMA WorkerPays ==
  ASSUME Inv, NEW t \in Positions, WorkerStep(t)
  PROVE  \/ worker'[t].stage \in {"model", "tool", "cleanup"} /\ agentRun'[t] = "running"
         \/ worker'[t].stage = Off /\ Settled(t)
<1>0. worker \in [Positions -> WorkerState] /\ worker[t] \in WorkerState
  BY DEF Inv, TypeOK, WorkerState
<1>1. ASSUME WorkerEnds(t) PROVE worker'[t].stage = Off
  <2>1. worker' = [worker EXCEPT ![t] = [worker[t] EXCEPT !.stage = Off]]
    BY <1>0, <1>1 DEF WorkerEnds
  <2> QED BY <1>0, <2>1, WorkerUpdates
<1>2. ASSUME NEW spent \in {0, 1}, TaskFails(t, spent)
      PROVE  status'[t] = "failed" /\ (spent = 1 => faults' > 0)
  BY <1>2, GraphAssumption DEF TaskFails, Inv, TypeOK
<1>3. /\ worker[t].stage = "setup" => agentRun[t] = "absent"
      /\ worker[t].stage \in {"model", "tool", "cleanup"} => agentRun[t] = "running"
  BY DEF Inv, WorkersOwe
<1> USE DEF Stage
<1>4. CASE WorkerRefused(t)
  BY <1>1, <1>2, <1>3, <1>4 DEF WorkerRefused, Settled
<1>5. CASE BeginAgent(t)
  <2>1. worker' = [worker EXCEPT ![t] = [worker[t] EXCEPT !.stage = "model", !.round = 1]]
    BY <1>0, <1>5 DEF BeginAgent
  <2>2. 1 \in 0 .. MaxRounds
    BY GraphAssumption
  <2>3. worker'[t].stage = "model"
    BY <1>0, <2>1, <2>2, WorkerUpdates
  <2>4. agentRun'[t] = "running"
    BY <1>5 DEF BeginAgent, Inv, TypeOK
  <2> QED BY <2>3, <2>4
<1>6. CASE CallTool(t)
  <2>1. worker' = [worker EXCEPT ![t] = [worker[t] EXCEPT !.stage = "tool"]]
    BY <1>0, <1>6 DEF CallTool
  <2>2. worker'[t].stage = "tool"
    BY <1>0, <2>1, WorkerUpdates
  <2> QED BY <1>3, <1>6, <2>2 DEF CallTool
<1>7. CASE ToolReturns(t)
  <2>1. worker'[t].stage \in {"model", "cleanup"}
    <3>1. CASE worker[t].round < MaxRounds
      BY <1>0, <1>7, <3>1 DEF ToolReturns, WorkerState
    <3>2. CASE ~(worker[t].round < MaxRounds)
      BY <1>0, <1>7, <3>2 DEF ToolReturns, WorkerState
    <3> QED BY <3>1, <3>2
  <2> QED BY <1>3, <1>7, <2>1 DEF ToolReturns
<1>8. CASE ToolUnrecorded(t)
  BY <1>1, <1>2, <1>3, <1>8 DEF ToolUnrecorded, Settled
<1>9. ASSUME NEW failed \in BOOLEAN, FinalAnswer(t, failed)
      PROVE  worker'[t].stage = "cleanup" /\ agentRun'[t] = "running"
  <2>1. worker' = [worker EXCEPT ![t] = [worker[t] EXCEPT !.stage = "cleanup", !.failed = failed]]
    BY <1>0, <1>9 DEF FinalAnswer
  <2>2. worker'[t].stage = "cleanup"
    BY <1>0, <2>1, WorkerUpdates
  <2> QED BY <1>3, <1>9, <2>2 DEF FinalAnswer
<1>10. ASSUME NEW removed \in BOOLEAN, CleanUp(t, removed)
       PROVE  worker'[t].stage = Off /\ Settled(t)
  <2>1. worker'[t].stage = Off
    BY <1>1, <1>10 DEF CleanUp
  <2>2. CASE EndsBadly(t, removed)
    <3>1. agentRun'[t] = "failed" /\ status'[t] = "failed"
      BY <1>2, <1>10, <2>2 DEF CleanUp, Inv, TypeOK
    <3> QED BY <2>1, <3>1 DEF Settled
  <2>3. CASE ~EndsBadly(t, removed)
    <3>1. agentRun'[t] = "complete"
      BY <1>10, <2>3 DEF CleanUp, Inv, TypeOK
    <3>2. t \in container' => engine = "docker"
      BY <1>10, <2>3 DEF CleanUp, EndsBadly, Inv, TypeOK
    <3> QED BY <2>1, <3>1, <3>2 DEF Settled
  <2> QED BY <2>2, <2>3
<1> QED BY <1>4, <1>5, <1>6, <1>7, <1>8, <1>9, <1>10 DEF WorkerStep

(* Steps preserve what the workers owe.                                      *)
LEMMA WorkersOweStep == ASSUME Inv, [Next]_vars PROVE WorkersOwe'
<1>1. CASE Decompose
  <2> USE <1>1, DecomposeSteps DEF Inv
  <2>1. /\ UNCHANGED <<worker, agentRun, container, running, rejected, engine, faults>>
        /\ container = {} /\ \A t \in Positions : ~Active(t) /\ agentRun[t] = "absent"
    BY DEF Planned
  <2>2. \A t \in Positions : status'[t] # "complete"
    OBVIOUS
  <2> QED BY <2>1, <2>2 DEF WorkersOwe, Active, Off
<1>2. CASE StartWave
  <2> USE <1>2, WaveStarts DEF Inv
  <2>1. /\ running = {} /\ rejected = {} /\ Ready \subseteq pending
        /\ UNCHANGED <<agentRun, container, engine>>
    BY DEF Waves, TypeOK
  <2>2. \A t \in Positions : ~Active(t)
    BY <2>1 DEF WorkersOwe
  <2>3. faults' >= faults /\ (faults > 0 => faults' > 0)
    BY GraphAssumption DEF TypeOK
  <2>4. ASSUME NEW t \in Ready
        PROVE  /\ agentRun'[t] = "absent" /\ t \notin container' /\ t \in running'
               /\ status'[t] = "running" /\ t \notin pending'
               /\ worker'[t].stage \in {Off, "setup"} /\ (Active(t)' => t \notin rejected')
    <3>1. t \in Positions /\ t \in pending
      BY <2>1, <2>4 DEF TypeOK
    <3>2. worker[t].stage = Off
      BY <2>2, <3>1 DEF Active
    <3> QED BY <2>1, <2>4, <3>1, <3>2 DEF WorkersOwe, Active
  <2>5. ASSUME NEW t \in Positions \ Ready
        PROVE  UNCHANGED <<worker[t], status[t]>> /\ (t \in pending' => t \in pending)
    BY <2>5
  <2> HIDE <1>2, WaveStarts
  <2> QED BY <2>1, <2>2, <2>3, <2>4, <2>5 DEF WorkersOwe, Active, Off
<1>3. CASE OnlyPhase
  BY <1>3 DEF Inv, WorkersOwe, OnlyPhase, Active
<1>4. ASSUME NEW t \in Positions, WorkerMove(t), WorkerStep(t) PROVE WorkersOwe'
  <2>1. /\ UNCHANGED <<engine, pending>> /\ t \in running \ rejected /\ t \notin pending
        /\ faults > 0 => faults' > 0
    <3>1. Stored /\ t \in running \ rejected /\ faults' \in faults .. MaxFaults
      BY <1>4, WorkerRows
    <3>2. UNCHANGED <<engine, pending>>
      BY <1>4 DEF WorkerMove
    <3> QED BY <3>1, <3>2, GraphAssumption DEF Inv, TypeOK
  <2>2. ASSUME NEW u \in Positions \ {t}
        PROVE  /\ worker'[u] = worker[u] /\ agentRun'[u] = agentRun[u] /\ status'[u] = status[u]
               /\ u \in container' => u \in container
               /\ u \in running => u \in running'
               /\ u \in rejected' => u \in rejected
    <3>1. /\ worker'[u] = worker[u] /\ agentRun'[u] = agentRun[u]
          /\ u \in container' => u \in container
      BY <1>4, <2>2 DEF WorkerMove, Inv, TypeOK
    <3>2. /\ status'[u] = status[u] /\ (u \in running => u \in running')
          /\ u \in rejected' => u \in rejected
      BY <1>4, <2>2, WorkerRows DEF Inv, TypeOK
    <3> QED BY <3>1, <3>2
  <2>3. CASE worker'[t].stage = Off /\ Settled(t)
    BY <2>1, <2>2, <2>3 DEF Inv, WorkersOwe, Active, Off, Settled
  <2>4. CASE worker'[t].stage \in {"model", "tool", "cleanup"} /\ agentRun'[t] = "running"
    <3>1. UNCHANGED <<status, running, rejected>>
      BY <1>4, <2>4, WorkerRows DEF Off
    <3>2. status[t] # "complete"
      BY <2>1, <1>4, WorkerRows DEF Inv, RowsAgree
    <3> QED BY <2>1, <2>2, <2>4, <3>1, <3>2 DEF Inv, WorkersOwe, Active, Off
  <2> QED BY <1>4, <2>3, <2>4, WorkerPays
<1> QED BY <1>1, <1>2, <1>3, <1>4, StepKinds DEF Inv

(* The parts together are inductive. *)
LEMMA InvStep == Inv /\ [Next]_vars => Inv'
<1> SUFFICES ASSUME Inv, [Next]_vars PROVE Inv'
  OBVIOUS
<1> QED BY TypeStep, PlannedStep, RowsAgreeStep, WorkersOweStep, DependenciesStep DEF Inv

(* The invariant holds in every reachable state.                             *)
LEMMA InvHolds == Spec => []Inv
BY InvInit, InvStep, PTL DEF Spec

(* Every variable has its type, and the sets of executeDAG part the tasks.   *)
THEOREM TypeCorrect == Spec => []TypeOK
<1>1. Inv => TypeOK
  BY DEF Inv
<1> QED BY <1>1, InvHolds, PTL

(* No task starts before everything its plan says it depends on has ended.   *)
THEOREM DependenciesFirst == Spec => []DependenciesEndFirst
<1>1. Inv => DependenciesEndFirst
  BY DEF Inv, TypeOK, RowsAgree, DependenciesDone, DependenciesEndFirst
<1> QED BY <1>1, InvHolds, PTL

(* When the turn has its outcome nothing still runs unless a journal write   *)
(* was refused, and without such a refusal no agent run is left open.        *)
THEOREM NothingLeft == Spec => []NoLeftovers
<1>1. Inv => NoLeftovers
  BY GraphAssumption DEF Inv, TypeOK, Waves, WorkersOwe, NoLeftovers, Ended
<1> QED BY <1>1, InvHolds, PTL

-----------------------------------------------------------------------------
(* What depth-first search finds. *)

(* Where a search of some nodes may stand, and what it may answer.         *)
Places(Nodes) == [path : SUBSET Nodes, seen : SUBSET Nodes, node : Nodes]
Outcome(Nodes) == [cycle : BOOLEAN, seen : SUBSET Nodes]
Search(v, Nodes) == v \in [Places(Nodes) -> Outcome(Nodes)]
At(path, seen, node) == [path |-> path, seen |-> seen, node |-> node]
Blank(seen) == [cycle |-> FALSE, seen |-> seen]

(* The parts CycleFrom is made of: the loop over the successors, each of   *)
(* which is looked at unless a cycle was found, and the search itself.     *)
Onward(v, grey, dep, found) == IF found.cycle THEN found ELSE v[At(grey, found.seen, dep)]
FoldStep(v, grey, seen, it, s) ==
  IF s = {} THEN Blank(seen) ELSE Onward(v, grey, Chosen(s), it[s \ {Chosen(s)}])
Folded(v, grey, seen, S) == CHOOSE it : it = [s \in SUBSET S |-> FoldStep(v, grey, seen, it, s)]
Body(edges, v, at) ==
  IF at.node \in at.path THEN [cycle |-> TRUE, seen |-> at.seen]
  ELSE IF at.node \in at.seen THEN [cycle |-> FALSE, seen |-> at.seen]
  ELSE [Folded(v, at.path \cup {at.node}, at.seen, edges[at.node])[edges[at.node]]
          EXCEPT !.seen = @ \cup {at.node}]
Visit(edges) == CHOOSE v : v = [at \in Places(DOMAIN edges) |-> Body(edges, v, at)]

LEMMA CycleIsFold ==
  ASSUME NEW edges
  PROVE  CycleFrom(edges) = Folded(Visit(edges), {}, {}, DOMAIN edges)[DOMAIN edges].cycle
BY DEF CycleFrom, FoldSet, MapThenFoldSet, Folded, FoldStep, Onward, Blank, Chosen, Visit, Body,
    Places, At

(* What such a loop must be.                                               *)
FoldOf(it, Nodes, v, grey, seen, S) ==
  /\ it \in [SUBSET S -> Outcome(Nodes)]
  /\ it[{}] = Blank(seen)
  /\ \A s \in SUBSET S : s # {} =>
       /\ s \ {Chosen(s)} \in SUBSET S /\ Chosen(s) \in s
       /\ it[s] = Onward(v, grey, Chosen(s), it[s \ {Chosen(s)}])

(* The graphs: every edge leads to a node.                                 *)
Edges(edges) ==
  IsFiniteSet(DOMAIN edges) /\ \A t \in DOMAIN edges : edges[t] \in SUBSET DOMAIN edges

(* A set of parts that holds the empty set, and a part when it holds that  *)
(* part without its first element, holds every part of a finite set.       *)
LEMMA EveryFirst ==
  ASSUME NEW S, IsFiniteSet(S), NEW G, {} \in G,
         \A s \in SUBSET S : s # {} /\ s \ {Chosen(s)} \in G => s \in G
  PROVE  SUBSET S \subseteq G
<1> DEFINE Good == {n \in Nat : \A s \in SUBSET S : Cardinality(s) = n => s \in G}
<1>0. \A s \in SUBSET S : IsFiniteSet(s) /\ Cardinality(s) \in Nat
  BY FS_Subset, FS_CardinalityType
<1>1. 0 \in Good
  BY <1>0, FS_EmptySet
<1>2. ASSUME NEW n \in Nat, n \in Good PROVE n + 1 \in Good
  <2> SUFFICES ASSUME NEW s \in SUBSET S, Cardinality(s) = n + 1 PROVE s \in G
    OBVIOUS
  <2>1. s # {} /\ Chosen(s) \in s
    BY FS_EmptySet, ChosenIn
  <2>2. s \ {Chosen(s)} \in SUBSET S /\ Cardinality(s \ {Chosen(s)}) = n
    BY <1>0, <2>1, FS_RemoveElement
  <2> QED BY <1>2, <2>1, <2>2
<1>3. Nat \subseteq Good
  <2> HIDE DEF Good
  <2> QED BY <1>1, <1>2, EveryNatural
<1> QED BY <1>0, <1>3

(* A search has an outcome wherever it goes on. *)
LEMMA OnwardType ==
  ASSUME NEW Nodes, NEW v, Search(v, Nodes), NEW grey \in SUBSET Nodes
  PROVE  \A dep \in Nodes, r \in Outcome(Nodes) : Onward(v, grey, dep, r) \in Outcome(Nodes)
<1> SUFFICES ASSUME NEW dep \in Nodes, NEW r \in Outcome(Nodes)
             PROVE  Onward(v, grey, dep, r) \in Outcome(Nodes)
  OBVIOUS
<1>1. r.seen \in SUBSET Nodes
  BY DEF Outcome
<1>2. v[At(grey, r.seen, dep)] \in Outcome(Nodes)
  BY <1>1 DEF Search, At, Places
<1> QED BY <1>2 DEF Onward

(* What folding a search over the successors of a node computes.           *)
LEMMA FoldedIs ==
  ASSUME NEW Nodes, IsFiniteSet(Nodes), NEW v, Search(v, Nodes), NEW grey \in SUBSET Nodes,
         NEW seen \in SUBSET Nodes, NEW S \in SUBSET Nodes
  PROVE  FoldOf(Folded(v, grey, seen, S), Nodes, v, grey, seen, S)
<1> DEFINE R == Outcome(Nodes)
           Upto(n) == {s \in SUBSET S : Cardinality(s) <= n}
           Is(it, n) == it = [s \in Upto(n) |-> FoldStep(v, grey, seen, it, s)]
           Good == {n \in Nat : \E it \in [Upto(n) -> R] : Is(it, n)}
<1>0. IsFiniteSet(S) /\ \A s \in SUBSET S : IsFiniteSet(s) /\ Cardinality(s) \in Nat
  BY FS_Subset, FS_CardinalityType
<1>t. \A dep \in Nodes, r \in R : Onward(v, grey, dep, r) \in R
  BY OnwardType
<1>b. Blank(seen) \in R
  BY DEF Blank, Outcome
<1>c. \A s \in SUBSET S : s # {} =>
         s \ {Chosen(s)} \in SUBSET S /\ Chosen(s) \in s /\ Chosen(s) \in Nodes
  BY ChosenIn
<1>1. 0 \in Good
  <2>1. Upto(0) = {{}}
    BY <1>0, FS_EmptySet
  <2> DEFINE it == [s \in Upto(0) |-> Blank(seen)]
  <2>2. it = [s \in Upto(0) |-> FoldStep(v, grey, seen, it, s)] /\ it \in [Upto(0) -> R]
    BY <2>1, <1>b DEF FoldStep
  <2> QED BY <2>2
<1>2. ASSUME NEW n \in Nat, n \in Good PROVE n + 1 \in Good
  <2>1. PICK it \in [Upto(n) -> R] : Is(it, n)
    BY <1>2
  <2> DEFINE more == [s \in Upto(n + 1) |-> FoldStep(v, grey, seen, it, s)]
  <2>2. \A s \in Upto(n) : s \in Upto(n + 1) /\ more[s] = it[s]
    <3> SUFFICES ASSUME NEW s \in Upto(n) PROVE s \in Upto(n + 1) /\ more[s] = it[s]
      OBVIOUS
    <3>1. s \in Upto(n + 1)
      BY <1>0
    <3>2. it[s] = FoldStep(v, grey, seen, it, s)
      BY <2>1
    <3> QED BY <3>1, <3>2
  <2>3. \A s \in Upto(n + 1) : s # {} => s \ {Chosen(s)} \in Upto(n)
    <3> SUFFICES ASSUME NEW s \in Upto(n + 1), s # {} PROVE s \ {Chosen(s)} \in Upto(n)
      OBVIOUS
    <3>1. Chosen(s) \in s /\ s \ {Chosen(s)} \in SUBSET S
      BY <1>c
    <3>2. Cardinality(s \ {Chosen(s)}) = Cardinality(s) - 1
      BY <1>0, <3>1, FS_RemoveElement
    <3> QED BY <1>0, <3>1, <3>2
  <2>4. ASSUME NEW s \in Upto(n + 1)
        PROVE  FoldStep(v, grey, seen, it, s) = FoldStep(v, grey, seen, more, s)
    BY <2>2, <2>3 DEF FoldStep
  <2>5. ASSUME NEW s \in Upto(n + 1) PROVE FoldStep(v, grey, seen, it, s) \in R
    <3>1. CASE s = {}
      BY <3>1, <1>b DEF FoldStep
    <3>2. CASE s # {}
      <4>1. it[s \ {Chosen(s)}] \in R /\ Chosen(s) \in Nodes
        BY <1>c, <2>1, <2>3, <3>2
      <4> QED BY <1>t, <3>2, <4>1 DEF FoldStep
    <3> QED BY <3>1, <3>2
  <2>6. more \in [Upto(n + 1) -> R]
    BY <2>5
  <2>7. more = [s \in Upto(n + 1) |-> FoldStep(v, grey, seen, more, s)]
    BY <2>4
  <2> HIDE DEF more, Upto
  <2> QED BY <2>6, <2>7
<1>3. Nat \subseteq Good
  <2> HIDE DEF Good
  <2> QED BY <1>1, <1>2, EveryNatural
<1>4. Upto(Cardinality(S)) = SUBSET S
  BY <1>0, FS_Subset
<1>5. PICK it \in [SUBSET S -> R] : it = [s \in SUBSET S |-> FoldStep(v, grey, seen, it, s)]
  <2>1. Cardinality(S) \in Nat
    BY <1>0
  <2>2. PICK it \in [Upto(Cardinality(S)) -> R] : Is(it, Cardinality(S))
    BY <1>3, <2>1
  <2> HIDE DEF Upto
  <2> QED BY <1>4, <2>2
<1> DEFINE f == Folded(v, grey, seen, S)
<1>6. f = [s \in SUBSET S |-> FoldStep(v, grey, seen, f, s)]
  BY <1>5 DEF Folded
<1> HIDE DEF f
<1>7. ASSUME NEW s \in SUBSET S, s # {}
      PROVE  f[s] = Onward(v, grey, Chosen(s), f[s \ {Chosen(s)}])
  BY <1>6, <1>7 DEF FoldStep
<1>8. f[{}] = Blank(seen)
  BY <1>6 DEF FoldStep
<1>9. \A s \in SUBSET S : f[s] \in R
  <2> DEFINE G == {s \in SUBSET S : f[s] \in R}
  <2>1. {} \in G
    BY <1>8, <1>b
  <2>2. ASSUME NEW s \in SUBSET S, s # {}, s \ {Chosen(s)} \in G PROVE s \in G
    BY <1>7, <1>c, <1>t, <2>2
  <2> HIDE DEF G
  <2>3. SUBSET S \subseteq G
    BY <1>0, <2>1, <2>2, EveryFirst
  <2> QED BY <2>3 DEF G
<1>10. f \in [SUBSET S -> R]
  BY <1>6, <1>9
<1> QED BY <1>7, <1>8, <1>10, <1>c DEF f, FoldOf

(* It asks of a search only what is about the set `grey'.                   *)
LEMMA FoldedSame ==
  ASSUME NEW Nodes, IsFiniteSet(Nodes), NEW v, Search(v, Nodes), NEW w,
         NEW grey \in SUBSET Nodes, NEW seen \in SUBSET Nodes, NEW S \in SUBSET Nodes,
         \A black \in SUBSET Nodes, dep \in Nodes : w[At(grey, black, dep)] = v[At(grey, black, dep)]
  PROVE  Folded(w, grey, seen, S)[S] = Folded(v, grey, seen, S)[S]
<1> DEFINE f == Folded(v, grey, seen, S)
           g == Folded(w, grey, seen, S)
           G == {s \in SUBSET S : g[s] = f[s]}
<1>1. FoldOf(f, Nodes, v, grey, seen, S)
  BY FoldedIs
<1> HIDE DEF f
<1>2. ASSUME NEW s \in SUBSET S, s # {}
      PROVE  f[s] = Onward(w, grey, Chosen(s), f[s \ {Chosen(s)}])
  <2> DEFINE r == f[s \ {Chosen(s)}]
  <2>1. r \in Outcome(Nodes) /\ Chosen(s) \in Nodes
    BY <1>1, <1>2 DEF FoldOf
  <2>2. r.seen \in SUBSET Nodes
    BY <2>1 DEF Outcome
  <2>3. Onward(v, grey, Chosen(s), r) = Onward(w, grey, Chosen(s), r)
    BY <2>1, <2>2 DEF Onward
  <2> QED BY <1>1, <1>2, <2>3 DEF FoldOf
<1>3. f = [s \in SUBSET S |-> FoldStep(w, grey, seen, f, s)]
  BY <1>1, <1>2 DEF FoldOf, FoldStep
<1>4. g = [s \in SUBSET S |-> FoldStep(w, grey, seen, g, s)]
  BY <1>3 DEF Folded
<1> HIDE DEF g
<1>5. {} \in G
  BY <1>1, <1>4 DEF FoldOf, FoldStep
<1>6. ASSUME NEW s \in SUBSET S, s # {}, s \ {Chosen(s)} \in G PROVE s \in G
  BY <1>2, <1>4, <1>6 DEF FoldStep
<1> HIDE DEF G
<1>7. SUBSET S \subseteq G
  BY <1>5, <1>6, EveryFirst, FS_Subset
<1> QED BY <1>7 DEF G, f, g

(* Every step of the search has an outcome.                                 *)
LEMMA BodyType ==
  ASSUME NEW edges, Edges(edges), NEW v, Search(v, DOMAIN edges), NEW at \in Places(DOMAIN edges)
  PROVE  Body(edges, v, at) \in Outcome(DOMAIN edges)
<1> DEFINE E == edges[at.node]
           grey == at.path \cup {at.node}
           found == Folded(v, grey, at.seen, E)[E]
<1>1. /\ E \in SUBSET DOMAIN edges /\ grey \in SUBSET DOMAIN edges
      /\ at.seen \in SUBSET DOMAIN edges /\ at.node \in DOMAIN edges
  BY DEF Edges, Places
<1>2. FoldOf(Folded(v, grey, at.seen, E), DOMAIN edges, v, grey, at.seen, E)
  BY <1>1, FoldedIs DEF Edges
<1>3. found \in Outcome(DOMAIN edges)
  BY <1>2 DEF FoldOf
<1> HIDE DEF found
<1>4. [found EXCEPT !.seen = @ \cup {at.node}] \in Outcome(DOMAIN edges)
  BY <1>1, <1>3 DEF Outcome
<1> QED BY <1>1, <1>4 DEF Body, Outcome, found

(* It asks only about the path that is one node longer.                     *)
LEMMA BodySame ==
  ASSUME NEW edges, Edges(edges), NEW v, Search(v, DOMAIN edges), NEW w,
         NEW at \in Places(DOMAIN edges),
         at.node \notin at.path => \A black \in SUBSET DOMAIN edges, dep \in DOMAIN edges :
             w[At(at.path \cup {at.node}, black, dep)] = v[At(at.path \cup {at.node}, black, dep)]
  PROVE  Body(edges, w, at) = Body(edges, v, at)
<1>1. CASE at.node \in at.path
  BY <1>1 DEF Body
<1>2. CASE at.node \notin at.path
  <2> DEFINE grey == at.path \cup {at.node}
             E == edges[at.node]
  <2>1. grey \in SUBSET DOMAIN edges /\ E \in SUBSET DOMAIN edges /\ at.seen \in SUBSET DOMAIN edges
    BY DEF Edges, Places
  <2>2. \A black \in SUBSET DOMAIN edges, dep \in DOMAIN edges :
          w[At(grey, black, dep)] = v[At(grey, black, dep)]
    BY <1>2
  <2> HIDE DEF grey
  <2>3. Folded(w, grey, at.seen, E)[E] = Folded(v, grey, at.seen, E)[E]
    BY <2>1, <2>2, FoldedSame DEF Edges
  <2> QED BY <2>3 DEF Body, grey
<1> QED BY <1>1, <1>2

(* How much of the graph a path leaves.                                     *)
Left(edges, path) == Cardinality(DOMAIN edges \ path)

LEMMA LeftIs ==
  ASSUME NEW edges, Edges(edges), NEW path \in SUBSET DOMAIN edges
  PROVE  /\ Left(edges, path) \in Nat /\ Left(edges, path) < Cardinality(DOMAIN edges) + 1
         /\ Cardinality(DOMAIN edges) \in Nat
         /\ \A node \in DOMAIN edges \ path : Left(edges, path \cup {node}) < Left(edges, path)
<1>1. IsFiniteSet(DOMAIN edges \ path)
  BY FS_Subset DEF Edges
<1>2. Cardinality(DOMAIN edges \ path) \in Nat /\ Cardinality(DOMAIN edges) \in Nat
  BY <1>1, FS_CardinalityType DEF Edges
<1>3. ASSUME NEW node \in DOMAIN edges \ path
      PROVE  Left(edges, path \cup {node}) < Left(edges, path)
  <2>1. DOMAIN edges \ (path \cup {node}) = (DOMAIN edges \ path) \ {node}
    OBVIOUS
  <2>2. Cardinality((DOMAIN edges \ path) \ {node}) = Cardinality(DOMAIN edges \ path) - 1
    BY <1>1, FS_RemoveElement
  <2>3. /\ Left(edges, path \cup {node}) = Cardinality((DOMAIN edges \ path) \ {node})
        /\ Left(edges, path) = Cardinality(DOMAIN edges \ path)
    BY <2>1 DEF Left
  <2> QED BY <1>2, <2>2, <2>3
<1>4. Cardinality(DOMAIN edges \ path) <= Cardinality(DOMAIN edges)
  <2>1. DOMAIN edges \ path \in SUBSET DOMAIN edges
    OBVIOUS
  <2> QED BY <2>1, FS_Subset DEF Edges
<1> QED BY <1>2, <1>3, <1>4 DEF Left

(* There is such a search: for long paths, and so for all.                  *)
LEMMA VisitIs ==
  ASSUME NEW edges, Edges(edges)
  PROVE  /\ Search(Visit(edges), DOMAIN edges)
         /\ \A at \in Places(DOMAIN edges) : Visit(edges)[at] = Body(edges, Visit(edges), at)
<1> DEFINE Nodes == DOMAIN edges
           Upto(v, n) == \A at \in Places(Nodes) : Left(edges, at.path) < n => v[at] = Body(edges, v, at)
           Again(v) == [at \in Places(Nodes) |-> Body(edges, v, at)]
           Good == {n \in Nat : \E v : Search(v, Nodes) /\ Upto(v, n)}
<1>0. \A at \in Places(Nodes) :
         /\ Left(edges, at.path) \in Nat /\ Left(edges, at.path) < Cardinality(Nodes) + 1
         /\ at.path \in SUBSET Nodes /\ at.node \in Nodes
  BY LeftIs DEF Places
<1>a. ASSUME NEW v, Search(v, Nodes) PROVE Search(Again(v), Nodes)
  BY <1>a, BodyType DEF Search
<1>1. 0 \in Good
  <2> DEFINE v == [at \in Places(Nodes) |-> Blank({})]
  <2>1. Search(v, Nodes)
    BY DEF Search, Blank, Outcome
  <2>2. Upto(v, 0)
    BY <1>0
  <2> QED BY <2>1, <2>2
<1>2. ASSUME NEW n \in Nat, n \in Good PROVE n + 1 \in Good
  <2>1. PICK v : Search(v, Nodes) /\ Upto(v, n)
    BY <1>2
  <2> DEFINE w == Again(v)
  <2>2. \A at \in Places(Nodes) : w[at] = Body(edges, v, at)
    OBVIOUS
  <2>3. Search(w, Nodes)
    BY <1>a, <2>1
  <2> HIDE DEF w
  <2>4. ASSUME NEW at \in Places(Nodes), Left(edges, at.path) < n + 1
        PROVE  w[at] = Body(edges, w, at)
    <3>1. ASSUME at.node \notin at.path, NEW black \in SUBSET Nodes, NEW dep \in Nodes
          PROVE  LET next == At(at.path \cup {at.node}, black, dep) IN v[next] = w[next]
      <4> DEFINE next == At(at.path \cup {at.node}, black, dep)
      <4>1. next \in Places(Nodes) /\ next.path = at.path \cup {at.node}
        BY <1>0 DEF At, Places
      <4>2. Left(edges, next.path) < Left(edges, at.path)
        BY <1>0, <3>1, <4>1, LeftIs
      <4>3. Left(edges, next.path) < n
        BY <1>0, <2>4, <4>1, <4>2
      <4> HIDE DEF next
      <4>4. v[next] = Body(edges, v, next)
        BY <2>1, <4>1, <4>3
      <4> QED BY <2>2, <4>1, <4>4 DEF next
    <3>2. Body(edges, w, at) = Body(edges, v, at)
      BY <2>1, <3>1, BodySame
    <3> QED BY <2>2, <3>2
  <2>5. Upto(w, n + 1)
    BY <2>4
  <2> HIDE DEF Upto
  <2> QED BY <2>3, <2>5
<1>3. Nat \subseteq Good
  <2> HIDE DEF Good
  <2> QED BY <1>1, <1>2, EveryNatural
<1>4. PICK v : Search(v, Nodes) /\ \A at \in Places(Nodes) : v[at] = Body(edges, v, at)
  <2>1. Cardinality(Nodes) + 1 \in Nat
    BY LeftIs
  <2>2. PICK v : Search(v, Nodes) /\ Upto(v, Cardinality(Nodes) + 1)
    BY <1>3, <2>1
  <2> QED BY <1>0, <2>2
<1>5. v = Again(v)
  BY <1>4 DEF Search
<1>6. Visit(edges) = Again(Visit(edges))
  BY <1>5 DEF Visit
<1> DEFINE u == Visit(edges)
<1>7. \A at \in Places(Nodes) : u[at] = Body(edges, u, at)
  <2> HIDE DEF u
  <2>1. u = Again(u)
    BY <1>6 DEF u
  <2> QED BY <2>1
<1> HIDE DEF u
<1> DEFINE Same == {n \in Nat : \A at \in Places(Nodes) : Left(edges, at.path) < n => u[at] = v[at]}
<1>8. 0 \in Same
  BY <1>0
<1>9. ASSUME NEW n \in Nat, n \in Same PROVE n + 1 \in Same
  <2> SUFFICES ASSUME NEW at \in Places(Nodes), Left(edges, at.path) < n + 1 PROVE u[at] = v[at]
    OBVIOUS
  <2>1. ASSUME at.node \notin at.path, NEW black \in SUBSET Nodes, NEW dep \in Nodes
        PROVE  LET next == At(at.path \cup {at.node}, black, dep) IN u[next] = v[next]
    <3> DEFINE next == At(at.path \cup {at.node}, black, dep)
    <3>1. next \in Places(Nodes) /\ next.path = at.path \cup {at.node}
      BY <1>0 DEF At, Places
    <3>2. Left(edges, next.path) < Left(edges, at.path)
      BY <1>0, <2>1, <3>1, LeftIs
    <3> HIDE DEF next
    <3>3. Left(edges, next.path) < n
      <4>1. Left(edges, next.path) \in Nat /\ Left(edges, at.path) \in Nat
        BY <1>0, <3>1
      <4>2. Left(edges, at.path) < n + 1 /\ n \in Nat
        BY <1>9
      <4> QED BY <3>2, <4>1, <4>2
    <3>4. u[next] = v[next]
      BY <1>9, <3>1, <3>3
    <3> QED BY <3>4 DEF next
  <2>2. Body(edges, u, at) = Body(edges, v, at)
    BY <1>4, <2>1, BodySame
  <2> QED BY <1>4, <1>7, <2>2
<1>10. Nat \subseteq Same
  <2> HIDE DEF Same
  <2> QED BY <1>8, <1>9, EveryNatural
<1>11. ASSUME NEW at \in Places(Nodes) PROVE u[at] = v[at]
  <2>1. Left(edges, at.path) + 1 \in Same /\ Left(edges, at.path) \in Nat
    BY <1>0, <1>10
  <2> QED BY <2>1
<1>12. Search(u, Nodes)
  <2>1. u = Again(u)
    BY <1>6 DEF u
  <2>2. DOMAIN u = Places(Nodes)
    BY <2>1
  <2>3. \A at \in Places(Nodes) : u[at] \in Outcome(Nodes)
    BY <1>4, <1>11 DEF Search
  <2>4. u = [at \in Places(Nodes) |-> u[at]]
    BY <2>1
  <2> QED BY <2>3, <2>4 DEF Search
<1> QED BY <1>7, <1>12 DEF u

(* A set of nodes in which each has an edge into the set: what a cycle is   *)
(* to a finite graph.                                                       *)
FeedsItself(edges, S) == S # {} /\ \A t \in S : edges[t] \cap S # {}
Cyclic(edges) == \E S \in SUBSET DOMAIN edges : FeedsItself(edges, S)

(* Nodes that lead only to each other, and to no cycle.                     *)
Sorted(edges, X) ==
  /\ \A t \in X : edges[t] \subseteq X
  /\ \A S \in SUBSET X : ~FeedsItself(edges, S)

(* Each node of the path has an edge to another one or to where it leads.   *)
Linked(edges, path, node) == \A p \in path : edges[p] \cap (path \cup {node}) # {}

(* What an outcome promises of a search that began with `seen' and was to   *)
(* see S: a cycle is one, and without one all of S is seen and sorted.      *)
Promises(edges, r, seen, S) ==
  /\ r.cycle => Cyclic(edges)
  /\ ~r.cycle /\ Sorted(edges, seen) =>
       seen \cup S \subseteq r.seen /\ Sorted(edges, r.seen)

Right(edges, grey) ==
  \A black \in SUBSET DOMAIN edges, node \in DOMAIN edges :
     Linked(edges, grey, node) => Promises(edges, Visit(edges)[At(grey, black, node)], black, {node})

(* A node that leads only to sorted ones can be added to them.              *)
LEMMA SortedMore ==
  ASSUME NEW edges, NEW X, Sorted(edges, X), NEW node, edges[node] \subseteq X
  PROVE  Sorted(edges, X \cup {node})
<1>1. ASSUME NEW S \in SUBSET (X \cup {node}), FeedsItself(edges, S) PROVE FALSE
  <2>1. S \cap X # {}
    BY <1>1 DEF FeedsItself
  <2>2. \A t \in S \cap X : edges[t] \cap (S \cap X) # {}
    BY <1>1 DEF FeedsItself, Sorted
  <2>3. FeedsItself(edges, S \cap X) /\ S \cap X \in SUBSET X
    BY <2>1, <2>2 DEF FeedsItself
  <2> QED BY <2>3 DEF Sorted
<1>2. \A t \in X \cup {node} : edges[t] \subseteq X \cup {node}
  BY DEF Sorted
<1> QED BY <1>1, <1>2 DEF Sorted

(* If the search is right about each node, the fold is about all of them.   *)
LEMMA FoldedRight ==
  ASSUME NEW edges, Edges(edges), NEW grey \in SUBSET DOMAIN edges,
         NEW seen \in SUBSET DOMAIN edges, NEW S \in SUBSET DOMAIN edges,
         Right(edges, grey), \A node \in S : Linked(edges, grey, node)
  PROVE  LET r == Folded(Visit(edges), grey, seen, S)[S]
         IN  r \in Outcome(DOMAIN edges) /\ Promises(edges, r, seen, S)
<1> DEFINE Nodes == DOMAIN edges
           v == Visit(edges)
           f == Folded(v, grey, seen, S)
           G == {s \in SUBSET S : Promises(edges, f[s], seen, s)}
<1>1. FoldOf(f, Nodes, v, grey, seen, S)
  BY VisitIs, FoldedIs DEF Edges
<1> HIDE DEF f, v
<1>2. {} \in G
  BY <1>1 DEF FoldOf, Blank, Promises
<1>3. ASSUME NEW s \in SUBSET S, s # {}, s \ {Chosen(s)} \in G PROVE s \in G
  <2> DEFINE t == s \ {Chosen(s)}
             r == f[t]
  <2>1. /\ t \in SUBSET S /\ Chosen(s) \in s /\ f[s] = Onward(v, grey, Chosen(s), r)
        /\ r \in Outcome(Nodes)
    BY <1>1, <1>3 DEF FoldOf
  <2>2. r.seen \in SUBSET Nodes /\ Promises(edges, r, seen, t) /\ s = t \cup {Chosen(s)}
    BY <1>3, <2>1 DEF Outcome
  <2> HIDE DEF r, t
  <2>3. CASE r.cycle
    BY <2>1, <2>2, <2>3 DEF Onward, Promises
  <2>4. CASE ~r.cycle
    <3> DEFINE q == v[At(grey, r.seen, Chosen(s))]
    <3>1. f[s] = q
      BY <2>1, <2>4 DEF Onward
    <3>2. Promises(edges, q, r.seen, {Chosen(s)})
      BY <2>1, <2>2 DEF Right, v
    <3> HIDE DEF q
    <3>3. Promises(edges, q, seen, s)
      BY <2>2, <2>4, <3>2 DEF Promises
    <3> QED BY <3>1, <3>3
  <2> QED BY <2>3, <2>4
<1>4. SUBSET S \subseteq G
  <2> HIDE DEF G
  <2>1. IsFiniteSet(S)
    BY FS_Subset DEF Edges
  <2> QED BY <1>2, <1>3, <2>1, EveryFirst
<1>5. f[S] \in Outcome(Nodes)
  BY <1>1 DEF FoldOf
<1> QED BY <1>4, <1>5 DEF f, v

(* And the search is: about paths that leave little, and so about all.      *)
LEMMA VisitRight ==
  ASSUME NEW edges, Edges(edges)
  PROVE  \A grey \in SUBSET DOMAIN edges : Right(edges, grey)
<1> DEFINE Nodes == DOMAIN edges
           v == Visit(edges)
           Good == {n \in Nat : \A grey \in SUBSET Nodes : Left(edges, grey) < n => Right(edges, grey)}
<1>0. \A grey \in SUBSET Nodes :
        Left(edges, grey) \in Nat /\ Left(edges, grey) < Cardinality(Nodes) + 1
  BY LeftIs
<1>1. 0 \in Good
  BY <1>0
<1>2. ASSUME NEW n \in Nat, n \in Good PROVE n + 1 \in Good
  <2> SUFFICES ASSUME NEW path \in SUBSET Nodes, Left(edges, path) < n + 1,
                      NEW black \in SUBSET Nodes, NEW node \in Nodes, Linked(edges, path, node)
               PROVE  Promises(edges, v[At(path, black, node)], black, {node})
    BY DEF Right
  <2> DEFINE at == At(path, black, node)
  <2>1. at \in Places(Nodes) /\ at.path = path /\ at.seen = black /\ at.node = node
    BY DEF At, Places
  <2>2. v[at] = Body(edges, v, at)
    BY <2>1, VisitIs
  <2>3. CASE node \in path
    <3>1. FeedsItself(edges, path)
      <4>1. path \cup {node} = path
        BY <2>3
      <4> QED BY <2>3, <4>1 DEF Linked, FeedsItself
    <3>2. Cyclic(edges)
      BY <3>1 DEF Cyclic
    <3>3. v[at].cycle
      BY <2>1, <2>2, <2>3 DEF Body
    <3> QED BY <3>2, <3>3 DEF Promises
  <2>4. CASE node \notin path /\ node \in black
    <3>1. v[at] = Blank(black)
      BY <2>1, <2>2, <2>4 DEF Body, Blank
    <3> QED BY <2>4, <3>1 DEF Promises, Blank
  <2>5. CASE node \notin path /\ node \notin black
    <3> DEFINE grey == path \cup {node}
               E == edges[node]
               r == Folded(v, grey, black, E)[E]
    <3>1. v[at] = [r EXCEPT !.seen = @ \cup {node}]
      <4> HIDE DEF at
      <4> QED BY <2>1, <2>2, <2>5 DEF Body
    <3>2. grey \in SUBSET Nodes /\ E \in SUBSET Nodes
      BY DEF Edges
    <3>3. Left(edges, grey) < n
      <4>1. Left(edges, grey) < Left(edges, path)
        BY <2>5, LeftIs
      <4> QED BY <1>0, <1>2, <3>2, <4>1
    <3>4. Right(edges, grey)
      BY <1>2, <3>2, <3>3
    <3>5. \A dep \in E : Linked(edges, grey, dep)
      BY DEF Linked
    <3> HIDE DEF grey, E
    <3>6. r \in Outcome(Nodes) /\ Promises(edges, r, black, E)
      BY <3>2, <3>4, <3>5, FoldedRight
    <3> HIDE DEF r
    <3>7. v[at].cycle = r.cycle /\ v[at].seen = r.seen \cup {node}
      BY <3>1, <3>6 DEF Outcome
    <3> HIDE DEF at, v
    <3>8. ASSUME ~r.cycle, Sorted(edges, black)
          PROVE  Sorted(edges, r.seen \cup {node}) /\ black \subseteq r.seen
      BY <3>6, <3>8, SortedMore DEF Promises, E
    <3>9. Promises(edges, v[at], black, {node})
      BY <3>6, <3>7, <3>8 DEF Promises
    <3> QED BY <3>9 DEF at
  <2> QED BY <2>3, <2>4, <2>5
<1>3. Nat \subseteq Good
  <2> HIDE DEF Good
  <2> QED BY <1>1, <1>2, EveryNatural
<1>4. Cardinality(Nodes) + 1 \in Nat
  BY LeftIs
<1> QED BY <1>0, <1>3, <1>4

(* Depth-first search finds a cycle exactly where there is one.             *)
LEMMA CycleFound ==
  ASSUME NEW edges, Edges(edges)
  PROVE  CycleFrom(edges) <=> Cyclic(edges)
<1> DEFINE Nodes == DOMAIN edges
           r == Folded(Visit(edges), {}, {}, Nodes)[Nodes]
<1>1. CycleFrom(edges) <=> r.cycle
  BY CycleIsFold
<1>2. Right(edges, {}) /\ \A node \in Nodes : Linked(edges, {}, node)
  BY VisitRight DEF Linked
<1>3. r \in Outcome(Nodes) /\ Promises(edges, r, {}, Nodes)
  BY <1>2, FoldedRight
<1> HIDE DEF r
<1>4. Sorted(edges, {})
  BY DEF Sorted, FeedsItself
<1>5. ASSUME ~r.cycle PROVE ~Cyclic(edges)
  <2>1. Nodes \subseteq r.seen /\ Sorted(edges, r.seen)
    BY <1>3, <1>4, <1>5 DEF Promises
  <2> QED BY <2>1 DEF Cyclic, Sorted
<1> QED BY <1>1, <1>3, <1>5 DEF Promises

(* A plan whose dependencies are all known is admitted unless it has a     *)
(* cycle.                                                                  *)
LEMMA ValidatedIsExact == Inv => ValidationIsExact
<1> SUFFICES ASSUME Inv, phase = "planning"
             PROVE  Validated(plan) <=>
                      /\ \A t \in Tasks : Unknown \notin plan[t]
                      /\ \A S \in (SUBSET Tasks) \ {{}} : \E t \in S : plan[t] \cap S = {}
  BY DEF ValidationIsExact
<1>0. TypeOK /\ Tasks = Positions
  BY DEF Inv, Planned, Stored
<1>1. CASE \A t \in Tasks : Unknown \notin plan[t]
  <2>1. Edges(plan)
    <3>1. IsFiniteSet(Positions)
      BY FS_Interval, GraphAssumption DEF Positions
    <3>2. ASSUME NEW t \in Tasks PROVE plan[t] \in SUBSET Positions
      <4>1. plan[t] \subseteq 0 .. N /\ 0 \notin plan[t]
        BY <1>0, <1>1, <3>2 DEF TypeOK, Unknown
      <4> QED BY <4>1, GraphAssumption DEF Positions
    <3> QED BY <1>0, <3>1, <3>2 DEF Edges, Tasks
  <2>2. CycleFrom(plan) <=> Cyclic(plan)
    BY <2>1, CycleFound
  <2> QED BY <1>1, <2>2 DEF Validated, Cyclic, FeedsItself, Tasks
<1>2. CASE ~\A t \in Tasks : Unknown \notin plan[t]
  BY <1>2 DEF Validated, Tasks
<1> QED BY <1>1, <1>2

(* validateTaskPlan, by its depth-first search, admits exactly the plans   *)
(* without unknown names in which every set of tasks has one that waits    *)
(* for none of the others: for plans of any size and shape.                *)
THEOREM ValidationExact == Spec => []ValidationIsExact
<1> QED BY ValidatedIsExact, InvHolds, PTL

-----------------------------------------------------------------------------
(* How a graph ends. *)

(* How executeDAG ended: the turn's answer needs every task, and a graph     *)
(* that stopped short has its reason. No stored task waits for itself.       *)
Reasons ==
  /\ phase = "done" => \A t \in Tasks : status[t] = "complete"
  /\ (phase = "ran" /\ \E t \in Tasks : status[t] # "complete") =>
       \E t \in Tasks : status[t] = "failed" \/ Forward(t) \/ iter = MaxIterations

NoneWaitsForItself == Stored => \A t \in Tasks : t \notin plan[t]

(* A set of one task is enough to see it: validation, being exact, refuses a *)
(* task that depends on itself.                                              *)
LEMMA ItselfStep ==
  ASSUME Inv, NoneWaitsForItself, ValidationIsExact, [Next]_vars
  PROVE  NoneWaitsForItself'
<1>1. CASE Decompose
  <2>1. CASE Validated(plan)
    <3>1. plan' = plan /\ Tasks' = Tasks
      BY <1>1, <2>1 DEF Decompose, Tasks
    <3>2. \A S \in (SUBSET Tasks) \ {{}} : \E t \in S : plan[t] \cap S = {}
      BY <1>1, <2>1 DEF Decompose, ValidationIsExact
    <3>3. ASSUME NEW t \in Tasks PROVE t \notin plan[t]
      <4>1. t \in {t} /\ {t} # {} /\ {t} \in SUBSET Tasks
        OBVIOUS
      <4>2. {t} \in (SUBSET Tasks) \ {{}}
        BY <4>1
      <4> QED BY <3>2, <4>2
    <3> QED BY <3>1, <3>3 DEF NoneWaitsForItself
  <2>2. CASE ~Validated(plan)
    BY <1>1, <2>2 DEF Decompose, Fallback, NoneWaitsForItself, Tasks
  <2> QED BY <2>1, <2>2
<1>2. CASE StartWave
  BY <1>2, WaveStarts DEF Inv, NoneWaitsForItself, Tasks
<1>3. CASE OnlyPhase
  BY <1>3 DEF NoneWaitsForItself, OnlyPhase, Stored, Tasks
<1>4. ASSUME NEW t \in Positions, WorkerMove(t) PROVE NoneWaitsForItself'
  BY <1>4, WorkerRows DEF WorkerMove, NoneWaitsForItself, Tasks
<1> QED BY <1>1, <1>2, <1>3, <1>4, StepKinds DEF Inv

(* Where nothing pending is ready, the first of the pending tasks names a    *)
(* later one.                                                                *)
LEMMA StuckMeansForward ==
  ASSUME Inv, NoneWaitsForItself, phase = "scheduling", pending # {}, Ready = {}
  PROVE  \E t \in Tasks : Forward(t)
<1>1. Stored /\ running = {} /\ pending \cup completed = Tasks /\ Tasks \in SUBSET Nat
  BY GraphAssumption DEF Inv, Planned, Waves, TypeOK, Positions
<1>2. PICK t \in pending : \A d \in pending : ~(d < t)
  BY <1>1, SmallestOfNaturals
<1>3. /\ t \in Tasks /\ t \in Nat /\ plan[t] \subseteq Tasks /\ t \notin plan[t]
      /\ dependsOn[t] = {IF d < t THEN d ELSE LocalName(d) : d \in plan[t]}
  BY <1>1, <1>2 DEF Inv, Planned, NoneWaitsForItself
<1>4. PICK e \in dependsOn[t] : e \notin completed
  BY <1>2 DEF Ready
<1>5. PICK d \in plan[t] : e = IF d < t THEN d ELSE LocalName(d)
  BY <1>3, <1>4
<1>6. d \in Nat /\ d \in Tasks /\ d # t
  BY <1>1, <1>3, <1>5
<1>7. ~(d < t)
  BY <1>1, <1>2, <1>4, <1>5, <1>6
<1>8. d > t
  BY <1>3, <1>6, <1>7
<1> QED BY <1>3, <1>5, <1>8 DEF Forward

(* Steps preserve the reasons.                                               *)
LEMMA ReasonsStep ==
  ASSUME Inv, Reasons, NoneWaitsForItself, [Next]_vars
  PROVE  Reasons'
<1>1. CASE Decompose
  BY <1>1, DecomposeSteps DEF Inv, Reasons
<1>2. CASE StartWave
  BY <1>2, WaveStarts DEF Inv, Reasons
<1>3. CASE OnlyPhase
  <2>1. /\ Tasks' = Tasks /\ \A t \in Tasks : Forward(t)' <=> Forward(t)
        /\ UNCHANGED <<status, iter>>
    BY <1>3 DEF OnlyPhase, Tasks, Forward
  <2>2. CASE phase = "scheduling" /\ phase' = "ran"
    <3>1. pending = {} \/ iter >= MaxIterations \/ Ready = {}
      BY <1>3, <2>2 DEF OnlyPhase
    <3>2. Stored /\ running = {} /\ pending \cup completed = Tasks
      BY <2>2 DEF Inv, Planned, Waves, TypeOK
    <3>3. CASE pending = {}
      <4>1. \A t \in Tasks : status[t] \in {"complete", "failed"}
        BY <3>2, <3>3 DEF Inv, RowsAgree
      <4> QED BY <2>1, <2>2, <4>1 DEF Reasons
    <3>4. CASE iter >= MaxIterations
      <4>1. iter = MaxIterations
        BY <3>4, GraphAssumption DEF Inv, TypeOK
      <4> QED BY <2>1, <2>2, <4>1 DEF Reasons
    <3>5. CASE pending # {} /\ Ready = {}
      BY <2>1, <2>2, <3>5, StuckMeansForward DEF Reasons
    <3> QED BY <3>1, <3>3, <3>4, <3>5
  <2>3. CASE ~(phase = "scheduling" /\ phase' = "ran")
    <3>1. \/ phase' = phase \/ phase' \notin {"ran", "done"}
          \/ phase' = "done" /\ \A t \in Tasks : status[t] = "complete"
      BY <1>3, <2>3 DEF OnlyPhase
    <3> QED BY <2>1, <3>1 DEF Reasons
  <2> QED BY <2>2, <2>3
<1>4. ASSUME NEW t \in Positions, WorkerMove(t) PROVE Reasons'
  <2>1. phase' = phase /\ t \in running
    BY <1>4, WorkerRows DEF WorkerMove
  <2>2. phase \notin {"ran", "done"}
    BY <2>1 DEF Inv, Waves
  <2> QED BY <2>1, <2>2 DEF Reasons
<1> QED BY <1>1, <1>2, <1>3, <1>4, StepKinds DEF Inv

(* The turn is answered only when all of it ended well, and a graph stops    *)
(* short only for one of its three reasons.                                  *)
THEOREM SuccessWhole == Spec => []SuccessIsWhole
<1>1. Init => Reasons /\ NoneWaitsForItself
  BY DEF Init, Reasons, NoneWaitsForItself, Stored
<1>2. Inv /\ Reasons /\ NoneWaitsForItself /\ [Next]_vars
        => (Reasons /\ NoneWaitsForItself)'
  BY ReasonsStep, ItselfStep, ValidatedIsExact
<1>3. Inv /\ Reasons => SuccessIsWhole
  <2> SUFFICES ASSUME Inv, Reasons PROVE SuccessIsWhole
    OBVIOUS
  <2>1. ASSUME phase = "done", NEW t \in Tasks
        PROVE  /\ status[t] = "complete" /\ agentRun[t] = "complete"
               /\ t \in container => engine = "docker"
    <3>1. status[t] = "complete" /\ t \in Positions /\ running = {}
      BY <2>1 DEF Reasons, Inv, TypeOK, Waves
    <3> QED BY <3>1 DEF Inv, WorkersOwe
  <2> QED BY <2>1 DEF Reasons, SuccessIsWhole
<1> QED BY <1>1, <1>2, <1>3, InvHolds, PTL DEF Spec
=============================================================================
