------------------------------- MODULE Execution -------------------------------
(***************************************************************************)
(* A message from its POST to its outcome: routes.ts admits it,            *)
(* executionOutbox.ts remembers it, taskQueue.ts delivers it through       *)
(* BullMQ and orchestrator.ts executes it, in one server process that may  *)
(* be killed and restarted (private mode; DurableRun covers several).      *)
(*                                                                         *)
(* JavaScript runs one synchronous stretch at a time: an action is such a  *)
(* stretch, between two awaits, except where a crash can split it to some  *)
(* effect (the admission, the startup recovery). Redis and BullMQ 5 are    *)
(* external: a job is added once per id, taken by one worker, redelivered  *)
(* when its lock lapses, and failed when that happens twice. Commands sent *)
(* while Redis is away wait for it (maxRetriesPerRequest null).            *)
(*                                                                         *)
(* The durable run of a message is the ledger of RunLedger: running,       *)
(* armed once a step other than a read is recorded, or an outcome.         *)
(***************************************************************************)
EXTENDS Naturals, FiniteSets

CONSTANTS
  Messages,
  RequireQueue,  \* production without REQUIRE_TASK_QUEUE=0
  Cancels,       \* whether cancelJob is called
  MaxEpochs,     \* bound: incarnations of the server; the last is not killed
  MaxFaults,     \* bound: outages, refused adds, lost jobs, lapsed locks
  MaxAttempts,   \* defaultJobOptions.attempts
  None

ASSUME ExecutionAssumption ==
  /\ RequireQueue \in BOOLEAN /\ Cancels \in BOOLEAN
  /\ MaxEpochs \in Nat \ {0} /\ MaxFaults \in Nat /\ MaxAttempts \in Nat \ {0}
  /\ None \notin Messages

VARIABLES
  proc, epoch,   \* the server process and its incarnation
  found,         \* runs the startup scan has interrupted and not announced
  turn,          \* the message whose POST handler is between two writes
  msg,           \* msg[m]: "none", "saved", or acknowledged with 201
  outbox,        \* outbox[m]: the execution_outbox row
  queue, avail,  \* TaskQueue.queue and TaskQueue.available
  redisUp, faults,
  add,           \* add[c][m]: a queue.add awaited by the POST or by the flush
  flushing, todo,\* flushingOutbox, and rows the running flush has still to add
  job, tries, stalls,    \* the BullMQ job of m in Redis
  work, wstep, final,    \* the worker's job, where it is, whether its error is final
  lock,          \* the job whose lock the worker still holds
  direct,        \* direct[m]: the fallback execution
  exec,          \* exec[c][m]: the orchestrator run, by the caller's kind
  run, owner, armed,     \* the durable run of m
  conv, answers, notices,\* the conversation: its status and assistant messages
  cancel         \* cancel[m]: how far cancelJob is

process == <<proc, epoch, found>>
http    == <<turn, msg, direct>>
redis   == <<job, tries, stalls>>
client  == <<queue, avail, redisUp, faults>>
flush   == <<flushing, todo>>
worker  == <<work, wstep, final, lock>>
ledger  == <<run, owner, armed>>
chat    == <<conv, answers, notices>>
vars == <<process, http, outbox, client, add, flush, redis, worker, exec, ledger, chat, cancel>>

Callers == {"worker", "direct"}
Adders  == {"post", "flush"}
Closed  == {"completed", "failed"}
Outcomes == {"completed", "failed", "interrupted"}

TypeOK ==
  /\ proc \in {"down", "recovering", "serving"} /\ epoch \in 0..MaxEpochs
  /\ found \subseteq Messages /\ turn \in Messages \cup {None}
  /\ msg \in [Messages -> {"none", "saved", "acked"}]
  /\ outbox \in [Messages -> {"none", "pending", "queued"} \cup Closed]
  /\ queue \in {"off", "connected", "disabled"}
  /\ avail \in BOOLEAN /\ redisUp \in BOOLEAN /\ faults \in 0..MaxFaults
  /\ add \in [Adders -> [Messages -> {"none", "sent", "applied"}]]
  /\ flushing \in BOOLEAN /\ todo \subseteq Messages
  /\ job \in [Messages -> {"none", "waiting", "active", "completed", "failed"}]
  /\ tries \in [Messages -> 0..MaxAttempts] /\ stalls \in [Messages -> 0..2]
  /\ work \in Messages \cup {None} /\ lock \in {work, None}
  /\ wstep \in {"idle", "check", "starting", "begin", "running", "returned",
                "settling", "throwing", "event"}
  /\ final \in BOOLEAN
  /\ direct \in [Messages -> {"none", "begin", "running", "ended"}]
  /\ exec \in [Callers -> [Messages -> {"none", "accepted", "acting", "answered"}]]
  /\ run \in [Messages -> {"absent", "running"} \cup Outcomes]
  /\ owner \in [Messages -> 0..MaxEpochs] /\ armed \in [Messages -> BOOLEAN]
  /\ conv \in [Messages -> {"idle", "busy", "error"}]
  /\ answers \in [Messages -> 0..2] /\ notices \in [Messages -> 0..2]
  /\ cancel \in [Messages -> {"none", "removed", "done", "marked"}]

All(v) == [m \in Messages |-> v]

Init ==
  /\ proc = "down" /\ epoch = 0 /\ found = {}
  /\ turn = None /\ msg = All("none") /\ direct = All("none")
  /\ outbox = All("none")
  /\ queue = "off" /\ avail = FALSE /\ redisUp = TRUE /\ faults = 0
  /\ add = [c \in Adders |-> All("none")]
  /\ flushing = FALSE /\ todo = {}
  /\ job = All("none") /\ tries = All(0) /\ stalls = All(0)
  /\ work = None /\ wstep = "idle" /\ final = FALSE /\ lock = None
  /\ exec = [c \in Callers |-> All("none")]
  /\ run = All("absent") /\ owner = All(0) /\ armed = All(FALSE)
  /\ conv = All("idle") /\ answers = All(0) /\ notices = All(0)
  /\ cancel = All("none")

(* A stretch of the server may run: no other one is half done. *)
Serving == proc = "serving" /\ turn = None
Fault   == faults < MaxFaults /\ faults' = faults + 1

(* updateAdmission: a closed row is never reopened. *)
Advance(m, state) ==
  outbox' = IF outbox[m] \in {"pending", "queued"}
              THEN [outbox EXCEPT ![m] = state] ELSE outbox

-----------------------------------------------------------------------------
(* The process: startup recovery, crash, queue initialization *)

Start ==
  /\ proc = "down" /\ epoch < MaxEpochs
  /\ proc' = "recovering" /\ epoch' = epoch + 1
  /\ UNCHANGED <<found, http, outbox, client, add, flush, redis, worker, exec, ledger, chat, cancel>>

(* Seeded fault: every run of a dead owner is taken for interrupted. *)
OrphansFinished == {m \in Messages :
  run[m] \in {"running", "completed", "failed"} /\ owner[m] # epoch /\ armed[m]}

Orphans == {m \in Messages : run[m] = "running" /\ owner[m] # epoch /\ armed[m]}

(* reconcileInterruptedRuns, run file by run file... *)
RecoverRun(m) ==
  /\ proc = "recovering" /\ m \in Orphans
  /\ run' = [run EXCEPT ![m] = "interrupted"]
  /\ found' = found \cup {m}
  /\ UNCHANGED <<proc, epoch, http, outbox, client, add, flush, redis, worker, exec,
                 owner, armed, chat, cancel>>

(* ...and then, conversation by conversation, the visible guidance. Only   *)
(* guidance carries the workflow id in its metadata.                       *)
RecoverChat(m) ==
  /\ proc = "recovering" /\ Orphans = {} /\ m \in found
  /\ conv' = [conv EXCEPT ![m] = "error"]
  /\ notices' = [notices EXCEPT ![m] = IF @ = 0 THEN 1 ELSE @]
  /\ found' = found \ {m}
  /\ UNCHANGED <<proc, epoch, http, outbox, client, add, flush, redis, worker, exec,
                 ledger, answers, cancel>>

(* Seeded fault: serves once the run files are marked. *)
ServeUnannounced ==
  /\ proc = "recovering" /\ Orphans = {}
  /\ proc' = "serving" /\ found' = {}
  /\ UNCHANGED <<epoch, http, outbox, client, add, flush, redis, worker, exec, ledger, chat, cancel>>

Serve ==
  /\ proc = "recovering" /\ Orphans = {} /\ found = {}
  /\ proc' = "serving"
  /\ UNCHANGED <<epoch, found, http, outbox, client, add, flush, redis, worker, exec, ledger, chat, cancel>>

(* A kill, or the supervisor replacing an unhealthy server. *)
Crash ==
  /\ proc # "down" /\ epoch < MaxEpochs
  /\ proc' = "down" /\ found' = {} /\ turn' = None /\ direct' = All("none")
  /\ queue' = "off" /\ avail' = FALSE
  /\ add' = [c \in Adders |-> All("none")] /\ flushing' = FALSE /\ todo' = {}
  /\ work' = None /\ wstep' = "idle" /\ final' = FALSE /\ lock' = None
  /\ exec' = [c \in Callers |-> All("none")]
  /\ cancel' = [m \in Messages |-> IF cancel[m] = "removed" THEN "none" ELSE cancel[m]]
  /\ UNCHANGED <<epoch, msg, outbox, redisUp, faults, redis, ledger, chat>>

(* initialize, whose flush is the first of the periodic ones. *)
InitQueue ==
  /\ Serving /\ queue = "off" /\ redisUp
  /\ queue' = "connected" /\ avail' = TRUE
  /\ UNCHANGED <<process, http, outbox, redisUp, faults, add, flush, redis, worker, exec, ledger, chat, cancel>>

(* Not tried again: the supervisor has to replace the server. *)
InitQueueFails ==
  /\ Serving /\ queue = "off" /\ ~redisUp /\ epoch < MaxEpochs
  /\ queue' = "disabled"
  /\ UNCHANGED <<process, http, outbox, avail, redisUp, faults, add, flush, redis, worker, exec, ledger, chat, cancel>>

ReplaceUnhealthy == queue = "disabled" /\ Crash

Outage ==
  /\ redisUp /\ Fault /\ redisUp' = FALSE
  /\ UNCHANGED <<process, http, outbox, queue, avail, add, flush, redis, worker, exec, ledger, chat, cancel>>

RedisBack ==
  /\ ~redisUp /\ redisUp' = TRUE
  /\ UNCHANGED <<process, http, outbox, queue, avail, faults, add, flush, redis, worker, exec, ledger, chat, cancel>>

(* The connections' ready, close and error events. *)
RefreshAvailability ==
  /\ Serving /\ queue = "connected" /\ avail # redisUp
  /\ avail' = redisUp
  /\ UNCHANGED <<process, http, outbox, queue, redisUp, faults, add, flush, redis, worker, exec, ledger, chat, cancel>>

-----------------------------------------------------------------------------
(* POST /api/conversations/:id/messages *)

SaveMessage(m) ==
  /\ Serving /\ msg[m] = "none"
  /\ RequireQueue => avail
  /\ msg' = [msg EXCEPT ![m] = "saved"] /\ turn' = m
  /\ UNCHANGED <<process, direct, outbox, client, add, flush, redis, worker, exec, ledger, chat, cancel>>

PersistAdmission(m) ==
  /\ proc = "serving" /\ turn = m /\ RequireQueue /\ outbox[m] = "none"
  /\ outbox' = [outbox EXCEPT ![m] = "pending"]
  /\ UNCHANGED <<process, http, client, add, flush, redis, worker, exec, ledger, chat, cancel>>

(* 201; then the queue, or the direct execution. *)
Acknowledge(m) ==
  /\ proc = "serving" /\ turn = m
  /\ RequireQueue => outbox[m] # "none"
  /\ msg' = [msg EXCEPT ![m] = "acked"]
  /\ IF avail THEN /\ add' = [add EXCEPT !["post"][m] = "sent"]
                   /\ UNCHANGED direct
              ELSE /\ direct' = [direct EXCEPT ![m] = "begin"]
                   /\ UNCHANGED add
  /\ turn' = None
  /\ UNCHANGED <<process, outbox, client, flush, redis, worker, exec, ledger, chat, cancel>>

PostAdded(m) ==
  /\ Serving /\ add["post"][m] = "applied"
  /\ add' = [add EXCEPT !["post"][m] = "none"]
  /\ UNCHANGED <<process, http, outbox, client, flush, redis, worker, exec, ledger, chat, cancel>>

(* The "error:" receipt: kept in the outbox, or executed directly. *)
PostRefused(m) ==
  /\ Serving /\ add["post"][m] = "sent" /\ redisUp /\ Fault
  /\ add' = [add EXCEPT !["post"][m] = "none"]
  /\ direct' = IF RequireQueue THEN direct ELSE [direct EXCEPT ![m] = "begin"]
  /\ UNCHANGED <<process, turn, msg, outbox, queue, avail, redisUp, flush, redis, worker, exec, ledger, chat, cancel>>

-----------------------------------------------------------------------------
(* TaskQueue.flushOutbox and enqueue, BullMQ's add *)

(* A stable job id: adding it again changes nothing while Redis has it. *)
ApplyAdd(c, m) ==
  /\ redisUp /\ add[c][m] = "sent"
  /\ add' = [add EXCEPT ![c][m] = "applied"]
  /\ job' = IF job[m] = "none" THEN [job EXCEPT ![m] = "waiting"] ELSE job
  /\ UNCHANGED <<process, http, outbox, client, flush, tries, stalls, worker, exec, ledger, chat, cancel>>

(* Seeded fault: only what never reached the queue is flushed. *)
UnfinishedPending == {m \in Messages : outbox[m] = "pending"}

(* unfinishedAdmissions; its LIMIT 100 is above the number of messages.    *)
Unfinished == {m \in Messages : outbox[m] \in {"pending", "queued"}}

FlushStart ==
  /\ Serving /\ avail /\ ~flushing
  /\ flushing' = TRUE /\ todo' = Unfinished
  /\ UNCHANGED <<process, http, outbox, client, add, redis, worker, exec, ledger, chat, cancel>>

FlushNext(m) ==
  /\ Serving /\ flushing /\ m \in todo
  /\ \A n \in Messages : add["flush"][n] = "none"
  /\ add' = IF outbox[m] = "failed" \/ ~avail
              THEN add ELSE [add EXCEPT !["flush"][m] = "sent"]
  /\ todo' = todo \ {m}
  /\ UNCHANGED <<process, http, outbox, client, flushing, redis, worker, exec, ledger, chat, cancel>>

FlushAdded(m) ==
  /\ Serving /\ add["flush"][m] = "applied"
  /\ add' = [add EXCEPT !["flush"][m] = "none"]
  /\ Advance(m, "queued")
  /\ UNCHANGED <<process, http, client, flush, redis, worker, exec, ledger, chat, cancel>>

FlushRefused(m) ==
  /\ Serving /\ add["flush"][m] = "sent" /\ redisUp /\ Fault
  /\ add' = [add EXCEPT !["flush"][m] = "none"]
  /\ UNCHANGED <<process, http, outbox, queue, avail, redisUp, flush, redis, worker, exec, ledger, chat, cancel>>

FlushEnd ==
  /\ Serving /\ flushing /\ todo = {}
  /\ \A n \in Messages : add["flush"][n] = "none"
  /\ flushing' = FALSE
  /\ UNCHANGED <<process, http, outbox, client, add, todo, redis, worker, exec, ledger, chat, cancel>>

(* cancelJob of a waiting job, in two steps; nothing in the server calls it. *)
CancelRemove(m) ==
  /\ Cancels /\ Serving /\ redisUp /\ avail
  /\ job[m] = "waiting" /\ cancel[m] = "none"
  /\ job' = [job EXCEPT ![m] = "none"]
  /\ cancel' = [cancel EXCEPT ![m] = "removed"]
  /\ UNCHANGED <<process, http, outbox, client, add, flush, tries, stalls, worker, exec, ledger, chat>>

CancelMark(m) ==
  /\ Serving /\ cancel[m] = "removed"
  /\ Advance(m, "failed")
  /\ cancel' = [cancel EXCEPT ![m] = "done"]
  /\ UNCHANGED <<process, http, client, add, flush, redis, worker, exec, ledger, chat>>

(* cancelJob of an active job: moveToFailed with the token "0", which every *)
(* lock lets pass.  BullMQ retries the job while it has attempts left, the *)
(* worker goes on without a lock, and its listener hears of no failure.    *)
CancelActive(m) ==
  /\ Cancels /\ Serving /\ redisUp /\ avail
  /\ job[m] = "active" /\ cancel[m] = "none"
  /\ tries' = [tries EXCEPT ![m] = @ + 1]
  /\ job' = [job EXCEPT ![m] = IF tries[m] + 1 < MaxAttempts THEN "waiting" ELSE "failed"]
  /\ lock' = IF lock = m THEN None ELSE lock
  /\ cancel' = [cancel EXCEPT ![m] = "marked"]
  /\ UNCHANGED <<process, http, outbox, client, add, flush, stalls, work, wstep, final,
                 exec, ledger, chat>>

(* Redis came back without the job. *)
LoseJob(m) ==
  /\ job[m] # "none" /\ Fault
  /\ job' = [job EXCEPT ![m] = "none"]
  /\ lock' = IF lock = m THEN None ELSE lock
  /\ tries' = [tries EXCEPT ![m] = 0] /\ stalls' = [stalls EXCEPT ![m] = 0]
  /\ UNCHANGED <<process, http, outbox, queue, avail, redisUp, add, flush, work, wstep, final,
                 exec, ledger, chat, cancel>>

-----------------------------------------------------------------------------
(* The BullMQ worker and processJobCore *)

WorkerAt(m, step) == Serving /\ work = m /\ wstep = step
WorkerGoes(step)  == wstep' = step /\ UNCHANGED <<work, lock, final>>
WorkerThrows(isFinal) == wstep' = "throwing" /\ final' = isFinal /\ UNCHANGED <<work, lock>>
WorkerRests == work' = None /\ wstep' = "idle" /\ final' = FALSE /\ lock' = None

(* A job that stalled twice is failed without being processed. *)
Take(m) ==
  /\ Serving /\ queue = "connected" /\ redisUp
  /\ work = None /\ job[m] = "waiting"
  /\ job' = [job EXCEPT ![m] = "active"]
  /\ work' = m /\ lock' = m
  /\ IF stalls[m] > 1 THEN wstep' = "throwing" /\ final' = TRUE
                      ELSE wstep' = "check" /\ final' = FALSE
  /\ UNCHANGED <<process, http, outbox, client, add, flush, tries, stalls, exec, ledger, chat, cancel>>

(* Seeded fault: executes whatever the queue delivers. *)
CheckNothing(m) ==
  /\ WorkerAt(m, "check")
  /\ WorkerGoes("starting")
  /\ UNCHANGED <<process, http, outbox, client, add, flush, redis, exec, ledger, chat, cancel>>

CheckAdmission(m) ==
  /\ WorkerAt(m, "check")
  /\ IF outbox[m] = "failed" THEN WorkerThrows(TRUE) ELSE WorkerGoes("starting")
  /\ UNCHANGED <<process, http, outbox, client, add, flush, redis, exec, ledger, chat, cancel>>

(* updateProgress throws when the job is gone. *)
ReportStarted(m) ==
  /\ WorkerAt(m, "starting") /\ redisUp
  /\ IF job[m] = "none" THEN WorkerThrows(FALSE) ELSE WorkerGoes("begin")
  /\ UNCHANGED <<process, http, outbox, client, add, flush, redis, exec, ledger, chat, cancel>>

ReportReturned(m) ==
  /\ WorkerAt(m, "returned") /\ redisUp
  /\ IF job[m] = "none" THEN WorkerThrows(FALSE) /\ UNCHANGED outbox
                        ELSE WorkerGoes("settling") /\ Advance(m, "completed")
  /\ UNCHANGED <<process, http, client, add, flush, redis, exec, ledger, chat, cancel>>

(* moveToCompleted and moveToFailed do nothing for a worker that lost the  *)
(* lock.                                                                   *)
MoveToCompleted(m) ==
  /\ WorkerAt(m, "settling") /\ redisUp
  /\ job' = IF lock = m THEN [job EXCEPT ![m] = "completed"] ELSE job
  /\ WorkerRests
  /\ UNCHANGED <<process, http, outbox, client, add, flush, tries, stalls, exec, ledger, chat, cancel>>

MoveToFailed(m) ==
  /\ WorkerAt(m, "throwing") /\ redisUp
  /\ IF lock # m THEN WorkerRests /\ UNCHANGED <<job, tries>>
     ELSE /\ tries' = [tries EXCEPT ![m] = @ + 1]
          /\ IF final \/ tries[m] + 1 >= MaxAttempts
               THEN job' = [job EXCEPT ![m] = "failed"] /\ WorkerGoes("event")
               ELSE job' = [job EXCEPT ![m] = "waiting"] /\ WorkerRests
  /\ UNCHANGED <<process, http, outbox, client, add, flush, stalls, exec, ledger, chat, cancel>>

(* The worker's "failed" listener. *)
FailedEvent(m) ==
  /\ WorkerAt(m, "event")
  /\ Advance(m, "failed")
  /\ WorkerRests
  /\ UNCHANGED <<process, http, client, add, flush, redis, exec, ledger, chat, cancel>>

(* The stall check finds an active job nobody renews... *)
Redeliver(m) ==
  /\ Serving /\ queue = "connected" /\ redisUp
  /\ job[m] = "active" /\ lock # m
  /\ job' = [job EXCEPT ![m] = "waiting"]
  /\ stalls' = [stalls EXCEPT ![m] = IF @ < 2 THEN @ + 1 ELSE @]
  /\ UNCHANGED <<process, http, outbox, client, add, flush, tries, worker, exec, ledger, chat, cancel>>

(* ...or one whose worker was cut off or blocked for longer than its lock. *)
LockLapses(m) ==
  /\ lock = m /\ job[m] = "active" /\ Fault
  /\ lock' = None
  /\ UNCHANGED <<process, http, outbox, queue, avail, redisUp, add, flush, redis,
                 work, wstep, final, exec, ledger, chat, cancel>>

-----------------------------------------------------------------------------
(* runOrchestrator, called by the worker or directly *)

Called(c, m) == /\ Serving
                /\ IF c = "worker" THEN work = m /\ wstep = "begin" ELSE direct[m] = "begin"
Running(c, m, at) == Serving /\ exec[c][m] = at

(* What the caller does next. *)
CallerWaits(c, m) ==
  IF c = "worker" THEN WorkerGoes("running") /\ UNCHANGED direct
                  ELSE direct' = [direct EXCEPT ![m] = "running"] /\ UNCHANGED worker
CallerReturns(c, m) ==
  IF c = "worker" THEN WorkerGoes("returned") /\ UNCHANGED direct
                  ELSE direct' = [direct EXCEPT ![m] = "ended"] /\ UNCHANGED worker
CallerThrows(c, m, isFinal) ==
  IF c = "worker" THEN WorkerThrows(isFinal) /\ UNCHANGED direct
                  ELSE direct' = [direct EXCEPT ![m] = "ended"] /\ UNCHANGED worker

Resumable(m) == run[m] = "running" /\ owner[m] # epoch /\ ~armed[m]

(* beginDurableRun answers "created". (That it quarantines an armed run of *)
(* a dead owner is in DurableRun: here the startup scan has done it.)      *)
BeginCreated(c, m) ==
  /\ Called(c, m)
  /\ run[m] = "absent" \/ Resumable(m)
  /\ run' = [run EXCEPT ![m] = "running"] /\ owner' = [owner EXCEPT ![m] = epoch]
  /\ exec' = [exec EXCEPT ![c][m] = "accepted"]
  /\ conv' = [conv EXCEPT ![m] = "busy"]
  /\ CallerWaits(c, m)
  /\ UNCHANGED <<process, turn, msg, outbox, client, add, flush, redis, armed, answers, notices, cancel>>

(* A completed run returns its receipt, any other refuses, for good. *)
BeginDuplicate(c, m) ==
  /\ Called(c, m)
  /\ run[m] # "absent" /\ ~Resumable(m)
  /\ IF run[m] = "completed" THEN CallerReturns(c, m) ELSE CallerThrows(c, m, TRUE)
  /\ UNCHANGED <<process, turn, msg, outbox, client, add, flush, redis, exec, ledger, chat, cancel>>

(* Seeded fault: acts without having recorded the plan. *)
PlanUnrecorded(c, m) ==
  /\ Running(c, m, "accepted")
  /\ exec' = [exec EXCEPT ![c][m] = "acting"]
  /\ UNCHANGED <<process, http, outbox, client, add, flush, redis, worker, ledger, chat, cancel>>

(* The plan, or a host health read, is recorded: from here on it acts. *)
Plan(c, m) ==
  /\ Running(c, m, "accepted")
  /\ exec' = [exec EXCEPT ![c][m] = "acting"]
  /\ armed' = [armed EXCEPT ![m] = TRUE]
  /\ UNCHANGED <<process, http, outbox, client, add, flush, redis, worker, run, owner, chat, cancel>>

NoModel(c, m) ==
  /\ Running(c, m, "accepted")
  /\ run' = [run EXCEPT ![m] = "failed"]
  /\ notices' = [notices EXCEPT ![m] = @ + 1] /\ conv' = [conv EXCEPT ![m] = "error"]
  /\ exec' = [exec EXCEPT ![c][m] = "none"]
  /\ CallerThrows(c, m, TRUE)
  /\ UNCHANGED <<process, turn, msg, outbox, client, add, flush, redis, owner, armed, answers, cancel>>

(* The catch block, which what follows the answer may reach as well:       *)
(* classified errors are final, others BullMQ retries.                     *)
Fail(c, m) ==
  /\ \E at \in {"accepted", "acting", "answered"} : Running(c, m, at)
  /\ run' = [run EXCEPT ![m] = "failed"]
  /\ conv' = [conv EXCEPT ![m] = "error"]
  /\ exec' = [exec EXCEPT ![c][m] = "none"]
  /\ \E isFinal \in BOOLEAN : CallerThrows(c, m, isFinal)
  /\ UNCHANGED <<process, turn, msg, outbox, client, add, flush, redis, owner, armed, answers, notices, cancel>>

Answer(c, m) ==
  /\ Running(c, m, "acting")
  /\ answers' = [answers EXCEPT ![m] = @ + 1]
  /\ exec' = [exec EXCEPT ![c][m] = "answered"]
  /\ UNCHANGED <<process, http, outbox, client, add, flush, redis, worker, ledger, conv, notices, cancel>>

(* After the memory update it waits for. *)
Complete(c, m) ==
  /\ Running(c, m, "answered")
  /\ run' = [run EXCEPT ![m] = "completed"] /\ conv' = [conv EXCEPT ![m] = "idle"]
  /\ exec' = [exec EXCEPT ![c][m] = "none"]
  /\ CallerReturns(c, m)
  /\ UNCHANGED <<process, turn, msg, outbox, client, add, flush, redis, owner, armed, answers, notices, cancel>>

-----------------------------------------------------------------------------
Recovery == Start \/ Serve \/ InitQueue \/ ReplaceUnhealthy \/ RefreshAvailability
            \/ \E m \in Messages : RecoverRun(m) \/ RecoverChat(m)

Post(m) == PersistAdmission(m) \/ Acknowledge(m) \/ PostAdded(m)

Flush == FlushStart \/ FlushEnd \/ \E m \in Messages : FlushNext(m) \/ FlushAdded(m)

Process(m) == \/ CheckAdmission(m) \/ ReportStarted(m) \/ ReportReturned(m)
              \/ MoveToCompleted(m) \/ MoveToFailed(m) \/ FailedEvent(m)

Orchestrate(c, m) == \/ BeginCreated(c, m) \/ BeginDuplicate(c, m) \/ Plan(c, m)
                     \/ NoModel(c, m) \/ Fail(c, m) \/ Answer(c, m) \/ Complete(c, m)

Adverse == \/ Crash \/ InitQueueFails \/ Outage
           \/ \E m \in Messages : \/ PostRefused(m) \/ FlushRefused(m) \/ LoseJob(m)
                                  \/ LockLapses(m) \/ CancelRemove(m) \/ CancelActive(m)

Next == \/ Recovery \/ RedisBack \/ Flush \/ Adverse
        \/ \E m \in Messages :
             \/ SaveMessage(m) \/ Post(m) \/ Process(m) \/ CancelMark(m)
             \/ Take(m) \/ Redeliver(m)
             \/ \E c \in Adders : ApplyAdd(c, m)
             \/ \E c \in Callers : Orchestrate(c, m)

(* The server is restarted, its event loop runs every ready stretch, Redis *)
(* comes back and answers, BullMQ delivers each waiting job and model and  *)
(* tool calls end. New messages, crashes and faults are not owed.          *)
Fairness ==
  /\ WF_vars(Recovery) /\ WF_vars(RedisBack)
  /\ WF_vars(FlushStart \/ FlushEnd)
  /\ \A m \in Messages :
       /\ WF_vars(FlushNext(m)) /\ WF_vars(FlushAdded(m))
       /\ WF_vars(Post(m)) /\ WF_vars(Process(m))
       /\ WF_vars(Take(m)) /\ WF_vars(Redeliver(m)) /\ WF_vars(CancelMark(m))
       /\ \A c \in Adders : WF_vars(ApplyAdd(c, m))
       /\ \A c \in Callers : WF_vars(Orchestrate(c, m))

Spec == Init /\ [][Next]_vars
FairSpec == Spec /\ Fairness

-----------------------------------------------------------------------------
(* Properties *)

(* A message is answered at most once, whatever is delivered again and     *)
(* however often the server dies between executing and reporting; and an   *)
(* admission is closed as completed only if its run completed and the      *)
(* answer is there (ADR-0002, "Only explicit completion receipts finish    *)
(* jobs"): duplicates of unfinished runs earn no receipt.                  *)
AnswerOnce == \A m \in Messages :
  /\ answers[m] <= 1
  /\ outbox[m] = "completed" \/ job[m] = "completed"
       => run[m] = "completed" /\ answers[m] = 1

(* "Terminal admissions cannot be resurrected by redispatch": a row that    *)
(* has failed is not behind any execution the worker runs or is about to   *)
(* start, though the job may be added again after Redis forgot it.         *)
NoResurrection == \A m \in Messages : outbox[m] = "failed" =>
  exec["worker"][m] = "none" /\ ~(work = m /\ wstep \in {"starting", "begin"})

(* "Start the app and drain it before backup": every acknowledged          *)
(* production message is eventually closed, so that drain ends.            *)
Drained == \A m \in Messages :
  RequireQueue /\ msg[m] = "acked" ~> outbox[m] \in Closed

(* Through crashes, every acknowledged production message comes to an      *)
(* outcome: its run ends, or the queue gives it up.  And unless the server *)
(* is killed it is closed, whatever Redis refuses, forgets or interrupts.  *)
Settled == \A m \in Messages :
  RequireQueue /\ msg[m] = "acked" ~>
    /\ run[m] \in Outcomes \/ job[m] = "failed"
    /\ outbox[m] \in Closed \/ epoch > 1

(* cancelJob of an active job: "attempt to mark failed (worker will detect *)
(* this)": after it answered true the worker does not answer the message.  *)
MarkedNotAnswered == [][\A m \in Messages :
  cancel[m] = "marked" => answers'[m] = answers[m]]_vars

(* "Later interruptions are marked interrupted with visible guidance": when *)
(* the server serves, every interrupted run has its guidance.              *)
InterruptionsAnnounced == \A m \in Messages :
  proc = "serving" /\ run[m] = "interrupted" => notices[m] > 0

(* That much the startup recovery does keep: guidance for every run it     *)
(* marked itself is there when it lets the server serve, so a run that the *)
(* very next incarnation finds interrupted is announced, whatever was      *)
(* delivered, retried or killed before; the kill that loses guidance is    *)
(* one inside the recovery.                                                *)
RestartAnnounces == \A m \in Messages :
  proc = "serving" /\ run[m] = "interrupted" /\ owner[m] + 1 = epoch => notices[m] > 0

-----------------------------------------------------------------------------
(* The pipeline uses durable runs as the ledger allows. *)
Ledger == INSTANCE RunLedger WITH
  Processes <- 1..MaxEpochs,
  Workflows <- Messages,
  Nobody <- 0,
  up     <- IF proc = "down" THEN {} ELSE {epoch},
  phase  <- run,
  holder <- owner,
  acted  <- armed

(* Deliveries, retries and restarts touch a durable run only by claiming,  *)
(* resuming, acting on, closing or interrupting it as RunLedger allows,    *)
(* which DurableRun's files implement.                                     *)
RunsFollowLedger == Ledger!Spec
=============================================================================
