------------------------------ MODULE DurableRun ------------------------------
(***************************************************************************)
(* The durable claim of server/durableExecution.ts: the files that decide  *)
(* which process may execute a workflow, and what a restarted process may  *)
(* do with a run whose owner died.                                         *)
(*                                                                         *)
(* A process is one incarnation of the server (or of the Temporal worker): *)
(* it starts, may run the startup reconciliation, serves begin requests,   *)
(* executes the runs it created, and may be killed between any two file    *)
(* operations. JavaScript runs one synchronous handler at a time, so a     *)
(* process has at most one file operation sequence in progress; sequences  *)
(* of different processes interleave freely.                               *)
(*                                                                         *)
(* The data is abstracted: a run keeps its identity, status, owner and the *)
(* set of its step ids; timestamps, attempts, events and step details only *)
(* describe. The idempotency keys, claims and runs are files; the mutex is *)
(* the SQLite transaction on claims.db, released when its holder dies.     *)
(***************************************************************************)
EXTENDS Naturals

CONSTANTS
  Processes,      \* incarnations; each has its own processToken
  AppProcesses,   \* those that call recoverInterruptedExecutions at startup
  Workflows, Keys, Conversations,
  Requests,       \* the begin requests: [workflowId, idempotencyKey, conversationId]
  StepIds,        \* ids a run may record
  Pids, Namespaces,
  PidOf, NsOf,    \* process.pid of an incarnation, and its pid namespace
  ForeignPids,    \* pids an unrelated process holds once their owner is gone
  ExclusiveOwner, \* TRUE in private mode: privateStateLock admits one process
  Nobody, NoRun, NoRequest

Resumable == {"orchestrator.accepted", "memory.recall", "skills.match"}
Terminal  == {"completed", "failed", "interrupted"}
Statuses  == {"running"} \cup Terminal

(* Callers derive workflow and key from one message id, so a key belongs   *)
(* to one workflow.                                                        *)
ASSUME DurableRunAssumption ==
  /\ Requests \subseteq [workflowId : Workflows, idempotencyKey : Keys,
                         conversationId : Conversations]
  /\ \A r, s \in Requests : r.idempotencyKey = s.idempotencyKey
                              => r.workflowId = s.workflowId
  /\ AppProcesses \subseteq Processes
  /\ PidOf \in [Processes -> Pids] /\ NsOf \in [Processes -> Namespaces]
  /\ ForeignPids \subseteq Pids
  /\ ExclusiveOwner \in BOOLEAN
  /\ Nobody \notin Processes /\ NoRequest \notin Requests

Run == [workflowId : Workflows, idempotencyKey : Keys,
        conversationId : Conversations, status : Statuses,
        owner : Processes, steps : SUBSET StepIds]

ASSUME NoRunAssumption == NoRun \notin Run

NoClaim  == "no claim file"
Torn     == "created but not written"
NoLink   == "no key file"

VARIABLES
  life,     \* life[p]: "fresh", "live" or "dead"
  mutex,    \* holder of the claims.db transaction
  run,      \* run[w]: the run file
  claim,    \* claim[w]: the .lock file: absent, empty, or naming its owner
  link,     \* link[k]: the idempotency file
  at,       \* at[p]: where p is in its current sequence of file operations
  ask,      \* ask[p]: the begin request being served
  view,     \* view[p]: the run record p read and is about to write
  scan,     \* scan[p]: run files the startup reconciliation has not read yet
  exec,     \* exec[w][p]: how far p's own execution of w is
  effects,  \* effects[w]: history, the processes that acted for w
  reply     \* reply[p]: history, how p's last begin ended

files == <<run, claim, link>>
vars  == <<life, mutex, run, claim, link, at, ask, view, scan, exec, effects, reply>>

Places == {"down", "scan", "scanWrite", "idle", "read", "link", "decide", "unlink",
           "inspect", "open", "fill", "persist", "key", "dup", "stop", "step",
           "mark", "unclaim"}
Replies == {"none", "created", "duplicate", "conflict", "interrupted", "active",
            "unreadable", "busy"}
Progress == {"none", "accepted", "armed", "failing", "ended"}

TypeOK ==
  /\ life \in [Processes -> {"fresh", "live", "dead"}]
  /\ mutex \in Processes \cup {Nobody}
  /\ run \in [Workflows -> Run \cup {NoRun}]
  /\ claim \in [Workflows -> Processes \cup {NoClaim, Torn}]
  /\ link \in [Keys -> Workflows \cup {NoLink}]
  /\ at \in [Processes -> Places]
  /\ ask \in [Processes -> Requests \cup {NoRequest}]
  /\ view \in [Processes -> Run \cup {NoRun}]
  /\ scan \in [Processes -> SUBSET Workflows]
  /\ exec \in [Workflows -> [Processes -> Progress]]
  /\ effects \in [Workflows -> SUBSET Processes]
  /\ reply \in [Processes -> Replies]

Init ==
  /\ life = [p \in Processes |-> "fresh"]
  /\ mutex = Nobody
  /\ run = [w \in Workflows |-> NoRun]
  /\ claim = [w \in Workflows |-> NoClaim]
  /\ link = [k \in Keys |-> NoLink]
  /\ at = [p \in Processes |-> "down"]
  /\ ask = [p \in Processes |-> NoRequest]
  /\ view = [p \in Processes |-> NoRun]
  /\ scan = [p \in Processes |-> {}]
  /\ exec = [w \in Workflows |-> [p \in Processes |-> "none"]]
  /\ effects = [w \in Workflows |-> {}]
  /\ reply = [p \in Processes |-> "none"]

Live(p) == life[p] = "live"

(* Seeded fault: trusts only its own token, never probes the owner's pid. *)
OwnerAliveByToken(p, o) == o = p

(* Signal 0 reaches any process of the caller's pid namespace: a live      *)
(* owner, another live incarnation with that pid, or an unrelated program. *)
OwnerAlive(p, o) ==
  IF PidOf[o] = PidOf[p] THEN o = p
  ELSE \/ PidOf[o] \in ForeignPids
       \/ \E q \in Processes : Live(q) /\ NsOf[q] = NsOf[p] /\ PidOf[q] = PidOf[o]

CanResume(r) == r.steps \subseteq Resumable

(* The sequence in progress moves on / ends. *)
Goto(p, from, to) == Live(p) /\ at[p] = from /\ at' = [at EXCEPT ![p] = to]
Finish(p, answer) ==
  /\ mutex' = Nobody
  /\ ask' = [ask EXCEPT ![p] = NoRequest]
  /\ view' = [view EXCEPT ![p] = NoRun]
  /\ reply' = [reply EXCEPT ![p] = answer]
PersistRun(p) == run' = [run EXCEPT ![view[p].workflowId] = view[p]]

-----------------------------------------------------------------------------
(* Process lifecycle *)

(* Private mode takes an exclusive lock on the state; the operating system *)
(* gives live processes of one namespace different pids.                   *)
Start(p) ==
  /\ life[p] = "fresh"
  /\ \A q \in Processes : Live(q) => /\ ~ExclusiveOwner
                                     /\ NsOf[q] = NsOf[p] => PidOf[q] # PidOf[p]
  /\ life' = [life EXCEPT ![p] = "live"]
  /\ at' = [at EXCEPT ![p] = IF p \in AppProcesses THEN "scan" ELSE "idle"]
  /\ scan' = [scan EXCEPT ![p] = IF p \in AppProcesses THEN Workflows ELSE {}]
  /\ UNCHANGED <<mutex, run, claim, link, ask, view, exec, effects, reply>>

Crash(p) ==
  /\ Live(p)
  /\ life' = [life EXCEPT ![p] = "dead"]
  /\ mutex' = IF mutex = p THEN Nobody ELSE mutex
  /\ at' = [at EXCEPT ![p] = "down"]
  /\ ask' = [ask EXCEPT ![p] = NoRequest]
  /\ view' = [view EXCEPT ![p] = NoRun]
  /\ scan' = [scan EXCEPT ![p] = {}]
  /\ reply' = [reply EXCEPT ![p] = "none"]
  /\ UNCHANGED <<run, claim, link, exec, effects>>

-----------------------------------------------------------------------------
(* reconcileInterruptedRuns: one run file at a time, no mutex *)

ScanRead(p, w) ==
  /\ w \in scan[p]
  /\ scan' = [scan EXCEPT ![p] = @ \ {w}]
  /\ IF /\ run[w] # NoRun /\ run[w].status = "running"
        /\ ~OwnerAlive(p, run[w].owner) /\ ~CanResume(run[w])
       THEN /\ Goto(p, "scan", "scanWrite")
            /\ view' = [view EXCEPT ![p] = [run[w] EXCEPT !.status = "interrupted"]]
       ELSE Goto(p, "scan", "scan") /\ UNCHANGED view
  /\ UNCHANGED <<life, mutex, run, claim, link, ask, exec, effects, reply>>

ScanWrite(p) ==
  /\ Goto(p, "scanWrite", "scan")
  /\ PersistRun(p)
  /\ view' = [view EXCEPT ![p] = NoRun]
  /\ UNCHANGED <<life, mutex, claim, link, ask, scan, exec, effects, reply>>

(* Seeded fault: serves before the scan is over. *)
ScanDoneEarly(p) ==
  /\ Goto(p, "scan", "idle")
  /\ scan' = [scan EXCEPT ![p] = {}]
  /\ UNCHANGED <<life, mutex, run, claim, link, ask, view, exec, effects, reply>>

ScanDone(p) ==
  /\ scan[p] = {}
  /\ Goto(p, "scan", "idle")
  /\ UNCHANGED <<life, mutex, run, claim, link, ask, view, scan, exec, effects, reply>>

-----------------------------------------------------------------------------
(* beginDurableRun *)

(* The transaction is taken at once, or after busy_timeout it fails. *)
Begin(p, r) ==
  /\ mutex = Nobody
  /\ Goto(p, "idle", "read")
  /\ mutex' = p
  /\ ask' = [ask EXCEPT ![p] = r]
  /\ UNCHANGED <<life, run, claim, link, view, scan, exec, effects, reply>>

BeginBusy(p) ==
  /\ Goto(p, "idle", "idle")
  /\ mutex \notin {Nobody, p}
  /\ reply' = [reply EXCEPT ![p] = "busy"]
  /\ UNCHANGED <<life, mutex, run, claim, link, ask, view, scan, exec, effects>>

Conflicts(r, e) == \/ e.idempotencyKey # r.idempotencyKey
                   \/ e.conversationId # r.conversationId
                   \/ e.workflowId # r.workflowId

(* Seeded fault: a run is looked up by its idempotency key only. *)
ExistingByKey(r) ==
  IF link[r.idempotencyKey] # NoLink THEN run[link[r.idempotencyKey]] ELSE NoRun

(* Look the run up through the key file, else by the request's workflow.   *)
Existing(r) ==
  run[IF link[r.idempotencyKey] # NoLink THEN link[r.idempotencyKey] ELSE r.workflowId]

ReadConflict(p) ==
  /\ Goto(p, "read", "idle")
  /\ Existing(ask[p]) # NoRun /\ Conflicts(ask[p], Existing(ask[p]))
  /\ Finish(p, "conflict")
  /\ UNCHANGED <<life, run, claim, link, scan, exec, effects>>

ReadExisting(p) ==
  /\ Goto(p, "read", IF link[ask[p].idempotencyKey] = NoLink THEN "link" ELSE "decide")
  /\ Existing(ask[p]) # NoRun /\ ~Conflicts(ask[p], Existing(ask[p]))
  /\ view' = [view EXCEPT ![p] = Existing(ask[p])]
  /\ UNCHANGED <<life, mutex, run, claim, link, ask, scan, exec, effects, reply>>

ReadFresh(p) ==
  /\ Goto(p, "read", "inspect")
  /\ Existing(ask[p]) = NoRun
  /\ view' = [view EXCEPT ![p] =
       [workflowId |-> ask[p].workflowId, idempotencyKey |-> ask[p].idempotencyKey,
        conversationId |-> ask[p].conversationId, status |-> "running",
        owner |-> p, steps |-> {}]]
  /\ UNCHANGED <<life, mutex, run, claim, link, ask, scan, exec, effects, reply>>

(* A crash between the run file and the key file left the key unwritten. *)
WriteMissingLink(p) ==
  /\ Goto(p, "link", "decide")
  /\ link' = [link EXCEPT ![ask[p].idempotencyKey] = view[p].workflowId]
  /\ UNCHANGED <<life, mutex, run, claim, ask, view, scan, exec, effects, reply>>

(* Seeded fault: a finished run of a dead process counts as abandoned. *)
AbandonedAnyStatus(p) == ~OwnerAlive(p, view[p].owner)

Abandoned(p) == view[p].status = "running" /\ ~OwnerAlive(p, view[p].owner)

DecideDuplicate(p) ==
  /\ Goto(p, "decide", "dup")
  /\ ~Abandoned(p)
  /\ UNCHANGED <<life, mutex, run, claim, link, ask, view, scan, exec, effects, reply>>

DecideInterrupted(p) ==
  /\ Goto(p, "decide", "stop")
  /\ Abandoned(p) /\ ~CanResume(view[p])
  /\ view' = [view EXCEPT ![p].status = "interrupted"]
  /\ UNCHANGED <<life, mutex, run, claim, link, ask, scan, exec, effects, reply>>

(* Seeded fault: resumes under the dead owner's name. *)
DecideResumeUnowned(p) ==
  /\ Goto(p, "decide", "unlink")
  /\ Abandoned(p) /\ CanResume(view[p])
  /\ UNCHANGED <<life, mutex, run, claim, link, ask, view, scan, exec, effects, reply>>

DecideResume(p) ==
  /\ Goto(p, "decide", "unlink")
  /\ Abandoned(p) /\ CanResume(view[p])
  /\ view' = [view EXCEPT ![p].owner = p]
  /\ UNCHANGED <<life, mutex, run, claim, link, ask, scan, exec, effects, reply>>

PersistDuplicate(p) ==
  /\ Goto(p, "dup", "idle")
  /\ PersistRun(p)
  /\ Finish(p, "duplicate")
  /\ UNCHANGED <<life, claim, link, scan, exec, effects>>

PersistInterrupted(p) ==
  /\ Goto(p, "stop", "idle")
  /\ PersistRun(p)
  /\ Finish(p, "interrupted")
  /\ UNCHANGED <<life, claim, link, scan, exec, effects>>

UnlinkClaim(p) ==
  /\ Goto(p, "unlink", "inspect")
  /\ claim' = [claim EXCEPT ![view[p].workflowId] = NoClaim]
  /\ UNCHANGED <<life, mutex, run, link, ask, view, scan, exec, effects, reply>>

(* claimRun: a readable claim of a dead owner is unlinked, an empty one    *)
(* does not parse and the begin throws.                                    *)
InspectClaim(p) ==
  LET w == view[p].workflowId IN
  /\ Goto(p, "inspect", "open")
  /\ claim[w] # Torn
  /\ claim' = IF claim[w] # NoClaim /\ ~OwnerAlive(p, claim[w])
                THEN [claim EXCEPT ![w] = NoClaim] ELSE claim
  /\ UNCHANGED <<life, mutex, run, link, ask, view, scan, exec, effects, reply>>

InspectTorn(p) ==
  /\ Goto(p, "inspect", "idle")
  /\ claim[view[p].workflowId] = Torn
  /\ Finish(p, "unreadable")
  /\ UNCHANGED <<life, run, claim, link, scan, exec, effects>>

OpenClaim(p) ==
  /\ Goto(p, "open", "fill")
  /\ claim[view[p].workflowId] = NoClaim
  /\ claim' = [claim EXCEPT ![view[p].workflowId] = Torn]
  /\ UNCHANGED <<life, mutex, run, link, ask, view, scan, exec, effects, reply>>

OpenActive(p) ==
  /\ Goto(p, "open", "idle")
  /\ claim[view[p].workflowId] # NoClaim
  /\ Finish(p, "active")
  /\ UNCHANGED <<life, run, claim, link, scan, exec, effects>>

FillClaim(p) ==
  /\ Goto(p, "fill", "persist")
  /\ claim' = [claim EXCEPT ![view[p].workflowId] = p]
  /\ UNCHANGED <<life, mutex, run, link, ask, view, scan, exec, effects, reply>>

(* The run file, then for a fresh run its key file (a resumed run has it:  *)
(* the write below then changes nothing).                                  *)
PersistClaimed(p) ==
  /\ Goto(p, "persist", "key")
  /\ PersistRun(p)
  /\ UNCHANGED <<life, mutex, claim, link, ask, view, scan, exec, effects, reply>>

WriteLink(p) ==
  /\ Goto(p, "key", "idle")
  /\ link' = [link EXCEPT ![ask[p].idempotencyKey] = view[p].workflowId]
  /\ exec' = [exec EXCEPT ![view[p].workflowId][p] = "accepted"]
  /\ Finish(p, "created")
  /\ UNCHANGED <<life, run, claim, scan, effects>>

-----------------------------------------------------------------------------
(* The execution the creator runs *)

Executing(w, p) == exec[w][p] \in {"accepted", "armed", "failing"}

(* recordDurableStep: read the file, add the step, write it back. *)
ReadForStep(p, w, s) ==
  /\ Executing(w, p) /\ run[w] # NoRun
  /\ Goto(p, "idle", "step")
  /\ view' = [view EXCEPT ![p] = [run[w] EXCEPT !.steps = @ \cup {s}]]
  /\ UNCHANGED <<life, mutex, run, claim, link, ask, scan, exec, effects, reply>>

(* Seeded fault: goes on without having written the step. *)
WriteStepUnsaved(p) ==
  LET w == view[p].workflowId IN
  /\ Goto(p, "step", "idle")
  /\ exec' = [exec EXCEPT ![w][p] = IF @ = "accepted" /\ ~CanResume(view[p])
                                      THEN "armed" ELSE @]
  /\ view' = [view EXCEPT ![p] = NoRun]
  /\ UNCHANGED <<life, mutex, run, claim, link, ask, scan, effects, reply>>

WriteStep(p) ==
  LET w == view[p].workflowId IN
  /\ Goto(p, "step", "idle")
  /\ PersistRun(p)
  /\ exec' = [exec EXCEPT ![w][p] = IF @ = "accepted" /\ ~CanResume(view[p])
                                      THEN "armed" ELSE @]
  /\ view' = [view EXCEPT ![p] = NoRun]
  /\ UNCHANGED <<life, mutex, claim, link, ask, scan, effects, reply>>

(* A tool, provider or database action. The orchestrator records a plan,   *)
(* task, tool or swarm step before the first of them.                      *)
Effect(p, w) ==
  /\ Live(p) /\ at[p] = "idle"
  /\ exec[w][p] = "armed"
  /\ effects' = [effects EXCEPT ![w] = @ \cup {p}]
  /\ UNCHANGED <<life, mutex, run, claim, link, at, ask, view, scan, exec, reply>>

(* markDurableRunStatus. Without a routable model the run is marked failed *)
(* inside the try block and once more by its catch ("failing").            *)
ReadForMark(p, w, status) ==
  /\ exec[w][p] = "armed" \/ (exec[w][p] = "failing" /\ status = "failed")
  /\ run[w] # NoRun
  /\ Goto(p, "idle", "mark")
  /\ view' = [view EXCEPT ![p] = [run[w] EXCEPT !.status = status]]
  /\ \E e \in {"ended"} \cup (IF status = "failed" THEN {"failing"} ELSE {}) :
       exec' = [exec EXCEPT ![w][p] = e]
  /\ UNCHANGED <<life, mutex, run, claim, link, ask, scan, effects, reply>>

WriteMark(p) ==
  /\ Goto(p, "mark", "unclaim")
  /\ PersistRun(p)
  /\ UNCHANGED <<life, mutex, claim, link, ask, view, scan, exec, effects, reply>>

(* Only the owner named in the record it wrote removes the claim file. *)
Unclaim(p) ==
  /\ Goto(p, "unclaim", "idle")
  /\ claim' = IF view[p].owner = p THEN [claim EXCEPT ![view[p].workflowId] = NoClaim]
                                   ELSE claim
  /\ view' = [view EXCEPT ![p] = NoRun]
  /\ UNCHANGED <<life, mutex, run, link, ask, scan, exec, effects, reply>>

-----------------------------------------------------------------------------
Reconcile(p) == ScanWrite(p) \/ ScanDone(p) \/ \E w \in Workflows : ScanRead(p, w)

BeginStep(p) ==
  \/ ReadConflict(p) \/ ReadExisting(p) \/ ReadFresh(p) \/ WriteMissingLink(p)
  \/ DecideDuplicate(p) \/ DecideInterrupted(p) \/ DecideResume(p)
  \/ PersistDuplicate(p) \/ PersistInterrupted(p) \/ UnlinkClaim(p)
  \/ InspectClaim(p) \/ InspectTorn(p) \/ OpenClaim(p) \/ OpenActive(p)
  \/ FillClaim(p) \/ PersistClaimed(p) \/ WriteLink(p)

Execute(p) ==
  \/ \E w \in Workflows :
       \/ \E s \in StepIds : ReadForStep(p, w, s)
       \/ \E status \in {"completed", "failed"} : ReadForMark(p, w, status)
       \/ Effect(p, w)
  \/ WriteStep(p) \/ WriteMark(p) \/ Unclaim(p)

Next == \E p \in Processes :
  \/ Start(p) \/ Crash(p) \/ BeginBusy(p)
  \/ \E r \in Requests : Begin(p, r)
  \/ Reconcile(p) \/ BeginStep(p) \/ Execute(p)

(* A started sequence of synchronous file operations runs to its end       *)
(* unless the process dies; requests, executions and crashes are not owed. *)
Fairness == \A p \in Processes : WF_vars(Reconcile(p)) /\ WF_vars(BeginStep(p))

Spec == Init /\ [][Next]_vars
FairSpec == Spec /\ Fairness

-----------------------------------------------------------------------------
(* Properties *)

(* The durable claim is the side-effect gate: whatever crashes and         *)
(* restarts happen, all tool and provider actions of a workflow come from  *)
(* one execution (orchestrator.ts:184, "only its creator may execute       *)
(* tools, providers, or persistence steps").                               *)
EffectsOnce == \A w \in Workflows : \A p, q \in effects[w] : p = q

(* Two live processes never execute one workflow at the same time, though  *)
(* neither the startup scan nor status writes take the claims mutex.       *)
OneExecutor == \A w \in Workflows : \A p, q \in Processes :
  Live(p) /\ Live(q) /\ Executing(w, p) /\ Executing(w, q) => p = q

(* While a live process executes, the files say so: the run is running and *)
(* owned by it and the claim file names it, so a second begin is refused.  *)
ExecutorOwnsFiles == \A w \in Workflows, p \in Processes :
  Live(p) /\ exec[w][p] \in {"accepted", "armed"} =>
    /\ run[w] # NoRun /\ run[w].owner = p /\ run[w].status = "running"
    /\ claim[w] = p

(* Whatever stale records processes that share the files write over each   *)
(* other, a workflow never passes to another request: its key and its      *)
(* conversation stay, and a key file is never redirected.                  *)
IdentityStable == [][
  /\ \A w \in Workflows : run[w] # NoRun =>
       /\ run'[w] # NoRun
       /\ run'[w].idempotencyKey = run[w].idempotencyKey
       /\ run'[w].conversationId = run[w].conversationId
  /\ \A k \in Keys : link[k] # NoLink => link'[k] = link[k]]_vars

(* A begin that is told "created" is the first execution of the workflow,  *)
(* or follows executions that died before recording anything but reads and *)
(* without acting: no accepted work is started twice after it acted.       *)
CreatedIsSafe == [][\A p \in Processes, w \in Workflows :
    exec[w][p] # "accepted" /\ exec'[w][p] = "accepted" =>
      effects[w] = {} /\ exec[w][p] = "none"]_vars

(* A run that died after planning or a tool call does not stay "running"   *)
(* once a server has started and stays up: it is marked interrupted.       *)
Orphaned(p, w) == /\ run[w] # NoRun /\ run[w].status = "running"
                  /\ ~OwnerAlive(p, run[w].owner) /\ ~CanResume(run[w])
OrphansReviewed == \A p \in AppProcesses, w \in Workflows :
  Live(p) /\ Orphaned(p, w) ~> ~Live(p) \/ ~Orphaned(p, w)

-----------------------------------------------------------------------------
(* Refinement: the files read as a ledger. *)
PhaseOf(w)  == IF run[w] = NoRun THEN "absent" ELSE run[w].status
HolderOf(w) == IF run[w] = NoRun THEN Nobody ELSE run[w].owner

Ledger == INSTANCE RunLedger WITH
  up     <- {p \in Processes : Live(p)},
  phase  <- [w \in Workflows |-> PhaseOf(w)],
  holder <- [w \in Workflows |-> HolderOf(w)],
  acted  <- [w \in Workflows |-> effects[w] # {}]

(* With one process at a time on the state, every crash, restart, resume   *)
(* and duplicate delivery is a step of the ledger or no step at all.       *)
ImplementsLedger == Ledger!Spec
=============================================================================
