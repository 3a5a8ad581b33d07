---------------------------- MODULE DurableRunProof ----------------------------
(***************************************************************************)
(* Proofs about DurableRun for every number of processes, workflows, keys  *)
(* and steps.                                                              *)
(***************************************************************************)
EXTENDS DurableRun, TLAPS

(* A sequence in progress holds the request and the record its later file  *)
(* operations use.                                                         *)
WithRequest == {"read", "link", "decide", "unlink", "inspect", "open", "fill",
                "persist", "key", "dup", "stop"}
WithRecord  == Places \ {"down", "scan", "idle", "read"}

Held == \A p \in Processes :
  /\ at[p] \in WithRequest => ask[p] \in Requests
  /\ at[p] \in WithRecord => view[p] \in Run

TypeInv == TypeOK /\ Held

(* The three ways a record changes leave it a record. *)
LEMMA RunUpdates ==
  ASSUME NEW r \in Run
  PROVE  /\ \A s \in Statuses : [r EXCEPT !.status = s] \in Run
         /\ \A p \in Processes : [r EXCEPT !.owner = p] \in Run
         /\ \A s \in StepIds : [r EXCEPT !.steps = @ \cup {s}] \in Run
  BY DEF Run

LEMMA StatusNames == {"completed", "failed", "interrupted", "running"} \subseteq Statuses
  BY DEF Statuses, Terminal

(* Every action keeps the type invariant. *)
LEMMA TypeStep == TypeInv /\ [Next]_vars => TypeInv'
<1> SUFFICES ASSUME TypeInv, [Next]_vars PROVE TypeInv'
  OBVIOUS
<1> USE DurableRunAssumption DEF TypeInv, TypeOK, Held, Places, WithRequest, WithRecord,
        Goto, Live
<1>1. CASE UNCHANGED vars
  BY <1>1 DEF vars
<1>2. ASSUME NEW p \in Processes, Start(p) PROVE TypeInv'
  BY <1>2 DEF Start
<1>3. ASSUME NEW p \in Processes, Crash(p) PROVE TypeInv'
  BY <1>3 DEF Crash, Replies
<1>4. ASSUME NEW p \in Processes, BeginBusy(p) PROVE TypeInv'
  BY <1>4 DEF BeginBusy, Replies
<1>5. ASSUME NEW p \in Processes, NEW r \in Requests, Begin(p, r) PROVE TypeInv'
  BY <1>5 DEF Begin
<1>6. ASSUME NEW p \in Processes, Reconcile(p) PROVE TypeInv'
  <2>1. ASSUME NEW w \in Workflows, ScanRead(p, w) PROVE TypeInv'
    <3>1. CASE view' = view /\ at' = [at EXCEPT ![p] = "scan"]
      BY <2>1, <3>1 DEF ScanRead
    <3>2. CASE /\ run[w] # NoRun
               /\ view' = [view EXCEPT ![p] = [run[w] EXCEPT !.status = "interrupted"]]
               /\ at' = [at EXCEPT ![p] = "scanWrite"]
      <4>1. [run[w] EXCEPT !.status = "interrupted"] \in Run
        BY <3>2, RunUpdates, StatusNames
      <4> QED BY <2>1, <3>2, <4>1 DEF ScanRead
    <3> QED BY <2>1, <3>1, <3>2 DEF ScanRead
  <2>2. CASE ScanWrite(p)
    BY <2>2 DEF ScanWrite, PersistRun
  <2>3. CASE ScanDone(p)
    BY <2>3 DEF ScanDone
  <2> QED BY <1>6, <2>1, <2>2, <2>3 DEF Reconcile
<1>7. ASSUME NEW p \in Processes, BeginStep(p) PROVE TypeInv'
  <2>1. CASE ReadConflict(p)
    BY <2>1 DEF ReadConflict, Finish, Replies
  <2>2. CASE ReadExisting(p)
    BY <2>2 DEF ReadExisting, Existing
  <2>3. CASE ReadFresh(p)
    BY <2>3 DEF ReadFresh, Run, Statuses, Terminal
  <2>4. CASE WriteMissingLink(p)
    BY <2>4 DEF WriteMissingLink, Run
  <2>5. CASE DecideDuplicate(p)
    BY <2>5 DEF DecideDuplicate
  <2>6. CASE DecideInterrupted(p)
    BY RunUpdates, StatusNames, <2>6 DEF DecideInterrupted
  <2>7. CASE DecideResume(p)
    BY RunUpdates, StatusNames, <2>7 DEF DecideResume
  <2>8. CASE PersistDuplicate(p)
    BY <2>8 DEF PersistDuplicate, PersistRun, Finish, Replies
  <2>9. CASE PersistInterrupted(p)
    BY <2>9 DEF PersistInterrupted, PersistRun, Finish, Replies
  <2>10. CASE UnlinkClaim(p)
    BY <2>10 DEF UnlinkClaim
  <2>11. CASE InspectClaim(p)
    BY <2>11 DEF InspectClaim
  <2>12. CASE InspectTorn(p)
    BY <2>12 DEF InspectTorn, Finish, Replies
  <2>13. CASE OpenClaim(p)
    BY <2>13 DEF OpenClaim
  <2>14. CASE OpenActive(p)
    BY <2>14 DEF OpenActive, Finish, Replies
  <2>15. CASE FillClaim(p)
    BY <2>15 DEF FillClaim
  <2>16. CASE PersistClaimed(p)
    BY <2>16 DEF PersistClaimed, PersistRun
  <2>17. CASE WriteLink(p)
    <3>1. view[p].workflowId \in Workflows /\ ask[p].idempotencyKey \in Keys
      BY <2>17 DEF WriteLink, Run
    <3>2. link' \in [Keys -> Workflows \cup {NoLink}]
      BY <2>17, <3>1 DEF WriteLink
    <3>3. exec' \in [Workflows -> [Processes -> Progress]]
      BY <2>17, <3>1 DEF WriteLink, Progress
    <3> QED BY <2>17, <3>2, <3>3 DEF WriteLink, Finish, Replies
  <2> QED BY <1>7, <2>1, <2>2, <2>3, <2>4, <2>5, <2>6, <2>7, <2>8, <2>9, <2>10,
             <2>11, <2>12, <2>13, <2>14, <2>15, <2>16, <2>17 DEF BeginStep
<1>8. ASSUME NEW p \in Processes, Execute(p) PROVE TypeInv'
  <2>1. ASSUME NEW w \in Workflows, NEW s \in StepIds, ReadForStep(p, w, s) PROVE TypeInv'
    BY RunUpdates, StatusNames, <2>1 DEF ReadForStep
  <2>2. ASSUME NEW w \in Workflows, NEW s \in {"completed", "failed"}, ReadForMark(p, w, s)
        PROVE TypeInv'
    <3>1. [run[w] EXCEPT !.status = s] \in Run
      BY <2>2, RunUpdates, StatusNames DEF ReadForMark
    <3>2. PICK e \in Progress : exec' = [exec EXCEPT ![w][p] = e]
      BY <2>2 DEF ReadForMark, Progress
    <3>3. exec' \in [Workflows -> [Processes -> Progress]]
      BY <3>2
    <3> QED BY <2>2, <3>1, <3>3 DEF ReadForMark
  <2>3. ASSUME NEW w \in Workflows, Effect(p, w) PROVE TypeInv'
    BY <2>3 DEF Effect
  <2>4. CASE WriteStep(p)
    <3> DEFINE w == view[p].workflowId
               e == IF exec[w][p] = "accepted" /\ ~CanResume(view[p])
                      THEN "armed" ELSE exec[w][p]
    <3>1. view[p] \in Run /\ w \in Workflows
      BY <2>4 DEF WriteStep, Run
    <3>2. e \in Progress
      BY <3>1 DEF Progress
    <3>3. exec' = [exec EXCEPT ![w][p] = e]
      BY <2>4 DEF WriteStep
    <3> HIDE DEF w, e
    <3>4. exec' \in [Workflows -> [Processes -> Progress]]
      BY <3>1, <3>2, <3>3
    <3> QED BY <2>4, <3>1, <3>4 DEF WriteStep, PersistRun
  <2>5. CASE WriteMark(p)
    BY <2>5 DEF WriteMark, PersistRun
  <2>6. CASE Unclaim(p)
    BY <2>6 DEF Unclaim
  <2> QED BY <1>8, <2>1, <2>2, <2>3, <2>4, <2>5, <2>6 DEF Execute
<1> QED BY <1>1, <1>2, <1>3, <1>4, <1>5, <1>6, <1>7, <1>8 DEF Next

(* Type correctness, with or without the private lock. *)
THEOREM TypeCorrect == Spec => []TypeOK
<1>1. Init => TypeInv
  BY DEF Init, TypeInv, TypeOK, Held, Places, WithRequest, WithRecord, Replies, Progress
<1>2. TypeInv => TypeOK
  BY DEF TypeInv
<1> QED BY <1>1, <1>2, TypeStep, PTL DEF Spec

-----------------------------------------------------------------------------
(* One process at a time: the inductive invariant of private mode. *)

Alone == \A p, q \in Processes : Live(p) /\ Live(q) => p = q

(* Run files are filed under their own workflow, and a key file points to  *)
(* a workflow whose run file was written before it.                        *)
Filed ==
  /\ \A w \in Workflows : run[w] # NoRun => run[w].workflowId = w
  /\ \A k \in Keys : link[k] # NoLink => run[link[k]] # NoRun

(* Who acted is on record as the owner, and recovery can see that it may   *)
(* have acted: the run is finished or holds a step that is not a read.     *)
ActedOnRecord == \A w \in Workflows : effects[w] # {} =>
  /\ run[w] # NoRun
  /\ \A q \in effects[w] : q = run[w].owner
  /\ run[w].status = "running" => ~CanResume(run[w])

(* The files name the live executor. *)
ExecutorOnRecord == \A w \in Workflows, p \in Processes :
  Live(p) /\ exec[w][p] \in {"accepted", "armed"} =>
    /\ run[w] # NoRun /\ run[w].owner = p /\ run[w].status = "running"
    /\ claim[w] = p
    /\ exec[w][p] = "armed" => ~CanResume(run[w])
SettledOnRecord == \A w \in Workflows, p \in Processes :
  Live(p) /\ exec[w][p] \in {"failing", "ended"} =>
    /\ run[w] # NoRun /\ run[w].owner = p
    /\ \/ at[p] = "mark" /\ view[p].workflowId = w
       \/ exec[w][p] = "ended" /\ run[w].status \in Terminal
       \/ run[w].status = "failed"
Unstarted == \A w \in Workflows, p \in Processes : life[p] = "fresh" => exec[w][p] = "none"

(* What a sequence in progress knows about the file it will write. *)
ViewOfRun(p) == LET w == view[p].workflowId IN
  /\ at[p] \in {"scanWrite", "stop"} =>
       /\ run[w] # NoRun /\ run[w].status = "running" /\ run[w].owner # p
       /\ view[p] = [run[w] EXCEPT !.status = "interrupted"]
       /\ ~Live(run[w].owner)
  /\ at[p] \in {"link", "decide", "dup"} => run[w] # NoRun /\ view[p] = run[w]
  /\ at[p] \in {"link", "decide", "unlink", "inspect", "open", "fill", "persist", "key"} =>
       /\ view[p].workflowId = ask[p].workflowId
       /\ view[p].idempotencyKey = ask[p].idempotencyKey
  /\ at[p] \in {"unlink", "inspect", "open", "fill", "persist"} =>
       /\ view[p].owner = p /\ view[p].status = "running" /\ CanResume(view[p])
       /\ run[w] # NoRun =>
            /\ run[w].status = "running" /\ run[w].owner # p /\ ~Live(run[w].owner)
            /\ view[p] = [run[w] EXCEPT !.owner = p]
  /\ at[p] = "unlink" => run[w] # NoRun
  /\ at[p] \in {"persist", "key"} => claim[w] = p
  /\ at[p] = "key" => /\ run[w] = view[p] /\ view[p].owner = p
                      /\ view[p].status = "running" /\ effects[w] = {}
                      /\ exec[w][p] = "none"
  /\ at[p] = "step" => /\ run[w] # NoRun /\ Executing(w, p)
                       /\ run[w].owner = p
                       /\ \E s \in StepIds : view[p] = [run[w] EXCEPT !.steps = @ \cup {s}]
  /\ at[p] = "mark" => /\ run[w] # NoRun /\ run[w].owner = p
                       /\ exec[w][p] \in {"failing", "ended"}
                       /\ exec[w][p] = "failing" => view[p].status = "failed"
                       /\ view[p].status \in {"completed", "failed"}
                       /\ run[w].status \in {"running", view[p].status}
                       /\ view[p] = [run[w] EXCEPT !.status = view[p].status]
  /\ at[p] = "unclaim" => /\ run[w] = view[p] /\ view[p].status \in Terminal
                          /\ exec[w][p] \in {"failing", "ended"}

ViewsOfRuns == \A p \in Processes : Live(p) => ViewOfRun(p)

Core == /\ Alone /\ Filed /\ ActedOnRecord /\ ExecutorOnRecord /\ SettledOnRecord
        /\ Unstarted /\ ViewsOfRuns
IInv == TypeInv /\ Core

(* The fields a record keeps through those changes. *)
LEMMA RunFields ==
  ASSUME NEW r \in Run
  PROVE  /\ \A s \in Statuses :
              LET x == [r EXCEPT !.status = s]
              IN  /\ x.status = s /\ x.owner = r.owner /\ x.steps = r.steps
                  /\ x.workflowId = r.workflowId /\ x.idempotencyKey = r.idempotencyKey
         /\ \A p \in Processes :
              LET x == [r EXCEPT !.owner = p]
              IN  /\ x.owner = p /\ x.status = r.status /\ x.steps = r.steps
                  /\ x.workflowId = r.workflowId /\ x.idempotencyKey = r.idempotencyKey
         /\ \A s \in StepIds :
              LET x == [r EXCEPT !.steps = @ \cup {s}]
              IN  /\ x.steps = r.steps \cup {s} /\ x.owner = r.owner /\ x.status = r.status
                  /\ x.workflowId = r.workflowId /\ x.idempotencyKey = r.idempotencyKey
  BY DEF Run

(* What persistRun leaves in the files. *)
LEMMA Written ==
  ASSUME TypeInv, NEW p \in Processes, at[p] \in WithRecord, PersistRun(p)
  PROVE  /\ view[p] \in Run /\ view[p] # NoRun /\ view[p].workflowId \in Workflows
         /\ \A v \in Workflows :
              run'[v] = IF v = view[p].workflowId THEN view[p] ELSE run[v]
  BY NoRunAssumption DEF TypeInv, TypeOK, Held, Run, PersistRun

(* With one live process, its view is the only one that matters. *)
LEMMA OnlyView ==
  ASSUME Alone, life' = life, NEW p \in Processes, Live(p), ViewOfRun(p)'
  PROVE  ViewsOfRuns'
  BY DEF Alone, Live, ViewsOfRuns

(* Writing the run file of the record in hand keeps the files consistent.  *)
LEMMA WrittenFiled ==
  ASSUME TypeInv, Filed, NEW p \in Processes, link' = link,
         view[p].workflowId \in Workflows, view[p] # NoRun,
         \A v \in Workflows :
           run'[v] = IF v = view[p].workflowId THEN view[p] ELSE run[v]
  PROVE  Filed'
<1>1. \A v \in Workflows : run'[v] # NoRun => run'[v].workflowId = v
  BY DEF Filed
<1>2. \A k \in Keys : link[k] # NoLink => link[k] \in Workflows /\ run'[link[k]] # NoRun
  BY DEF Filed, TypeInv, TypeOK
<1> QED BY <1>1, <1>2 DEF Filed

(* A step that leaves runs, key files and progress alone keeps all of Core *)
(* but the views; a claim may change where the process is no executor.     *)
RecordsKept == Alone /\ Filed /\ ActedOnRecord /\ ExecutorOnRecord /\ SettledOnRecord /\ Unstarted

LEMMA FilesKept ==
  ASSUME Core, NEW p \in Processes, Live(p), at[p] # "mark",
         UNCHANGED <<life, run, link, effects, exec>>,
         \A v \in Workflows : exec[v][p] \in {"accepted", "armed"} => claim'[v] = claim[v]
  PROVE  RecordsKept'
<1>1. \A q \in Processes : Live(q) => q = p
  BY DEF Core, Alone
<1>2. Alone' /\ Unstarted'
  BY DEF Core, Alone, Unstarted, Live
<1>3. Filed' /\ ActedOnRecord'
  BY DEF Core, Filed, ActedOnRecord, CanResume
<1>4. ExecutorOnRecord'
  BY <1>1 DEF Core, ExecutorOnRecord, CanResume, Live
<1>5. SettledOnRecord'
  BY <1>1 DEF Core, SettledOnRecord, Live
<1> QED BY <1>2, <1>3, <1>4, <1>5 DEF RecordsKept

(* A process about to claim a workflow has no execution of it. *)
LEMMA ClaimerIsIdle ==
  ASSUME TypeInv, Core, NEW p \in Processes, Live(p),
         at[p] \in {"unlink", "inspect", "open", "fill", "persist"}
  PROVE  exec[view[p].workflowId][p] = "none"
<1> DEFINE w == view[p].workflowId
<1>1. w \in Workflows
  BY DEF TypeInv, Held, WithRecord, Places, Run
<1>2. run[w] # NoRun => run[w].owner # p
  BY DEF Core, ViewsOfRuns, ViewOfRun
<1>3. exec[w][p] \notin {"accepted", "armed"}
  BY <1>1, <1>2 DEF Core, ExecutorOnRecord
<1>4. exec[w][p] \notin {"failing", "ended"}
  BY <1>1, <1>2 DEF Core, SettledOnRecord
<1> QED BY <1>1, <1>3, <1>4 DEF TypeInv, TypeOK, Progress

LEMMA CoreParts == ASSUME RecordsKept', ViewsOfRuns' PROVE Core'
  BY DEF RecordsKept, Core

(* Every action keeps Core. *)
LEMMA CoreStep == ASSUME ExclusiveOwner, IInv, [Next]_vars PROVE Core'
<1> USE DurableRunAssumption, NoRunAssumption DEF Live
<1>0. TypeInv /\ TypeInv' /\ Core
  BY TypeStep DEF IInv
<1>1. CASE UNCHANGED vars
  <2>1. UNCHANGED <<life, run, claim, link, at, ask, view, exec, effects>>
    BY <1>1 DEF vars
  <2>2. Alone' /\ Filed' /\ ActedOnRecord' /\ Unstarted'
    BY <1>0, <2>1 DEF Core, Alone, Filed, ActedOnRecord, Unstarted, CanResume
  <2>3. ExecutorOnRecord' /\ SettledOnRecord'
    BY <1>0, <2>1 DEF Core, ExecutorOnRecord, SettledOnRecord, CanResume
  <2>4. ViewsOfRuns'
    <3>1. ASSUME NEW p \in Processes, ViewOfRun(p) PROVE ViewOfRun(p)'
      <4>1. /\ life' = life /\ run' = run /\ claim' = claim /\ at' = at /\ ask' = ask
            /\ view' = view /\ exec' = exec /\ effects' = effects
        BY <2>1
      <4> QED BY <3>1, <4>1, Zenon DEF ViewOfRun, Executing
    <3> QED BY <1>0, <2>1, <3>1 DEF Core, ViewsOfRuns
  <2> QED BY <2>2, <2>3, <2>4 DEF Core
<1>2. ASSUME NEW p \in Processes, Start(p) PROVE Core'
  <2>1. /\ life' = [life EXCEPT ![p] = "live"] /\ life[p] = "fresh"
        /\ \A q \in Processes : ~Live(q)
        /\ UNCHANGED <<run, claim, link, effects, exec>>
        /\ at'[p] \in {"scan", "idle"}
    BY <1>0, <1>2 DEF Start, TypeInv, TypeOK
  <2>2. \A q \in Processes : life'[q] = IF q = p THEN "live" ELSE life[q]
    BY <1>0, <2>1 DEF TypeInv, TypeOK
  <2>3. \A w \in Workflows : exec[w][p] = "none"
    BY <1>0, <2>1 DEF Core, Unstarted
  <2>4. Alone' /\ Filed' /\ ActedOnRecord' /\ Unstarted'
    BY <1>0, <2>1, <2>2 DEF Core, Alone, Filed, ActedOnRecord, Unstarted, CanResume
  <2>5. ExecutorOnRecord' /\ SettledOnRecord'
    BY <2>1, <2>2, <2>3 DEF ExecutorOnRecord, SettledOnRecord
  <2>6. ViewsOfRuns'
    BY <2>1, <2>2 DEF ViewsOfRuns, ViewOfRun
  <2> QED BY <2>4, <2>5, <2>6 DEF Core
<1>3. ASSUME NEW p \in Processes, Crash(p) PROVE Core'
  <2>1. \A q \in Processes : life'[q] = IF q = p THEN "dead" ELSE life[q]
    BY <1>0, <1>3 DEF Crash, TypeInv, TypeOK
  <2>2. \A q \in Processes : life'[q] # "live"
    BY <1>0, <1>3, <2>1 DEF Crash, Core, Alone
  <2>3. UNCHANGED <<run, link, effects, exec>>
    BY <1>3 DEF Crash
  <2>4. Filed' /\ ActedOnRecord' /\ Unstarted'
    BY <1>0, <2>1, <2>3 DEF Core, Filed, ActedOnRecord, Unstarted, CanResume
  <2>5. Alone' /\ ExecutorOnRecord' /\ SettledOnRecord' /\ ViewsOfRuns'
    BY <2>2 DEF Alone, ExecutorOnRecord, SettledOnRecord, ViewsOfRuns
  <2> QED BY <2>4, <2>5 DEF Core
<1>4. ASSUME NEW p \in Processes, BeginBusy(p) PROVE Core'
  <2>1. /\ Live(p) /\ at[p] # "mark" /\ at'[p] = "idle"
        /\ UNCHANGED <<life, run, claim, link, effects, exec>>
    BY <1>0, <1>4 DEF BeginBusy, Goto, TypeInv, TypeOK
  <2>2. RecordsKept'
    BY <1>0, <2>1, FilesKept
  <2>3. ViewOfRun(p)'
    BY <2>1 DEF ViewOfRun
  <2> QED BY <1>0, <2>1, <2>2, <2>3, OnlyView, CoreParts DEF Core
<1>5. ASSUME NEW p \in Processes, NEW r \in Requests, Begin(p, r) PROVE Core'
  <2>1. /\ Live(p) /\ at[p] # "mark" /\ at'[p] = "read"
        /\ UNCHANGED <<life, run, claim, link, effects, exec>>
    BY <1>0, <1>5 DEF Begin, Goto, TypeInv, TypeOK
  <2>2. RecordsKept'
    BY <1>0, <2>1, FilesKept
  <2>3. ViewOfRun(p)'
    BY <2>1 DEF ViewOfRun
  <2> QED BY <1>0, <2>1, <2>2, <2>3, OnlyView, CoreParts DEF Core
<1>6. ASSUME NEW p \in Processes, NEW w \in Workflows, ScanRead(p, w) PROVE Core'
  <2>1. /\ Live(p) /\ at[p] # "mark" /\ UNCHANGED <<life, run, claim, link, effects, exec>>
    BY <1>6 DEF ScanRead, Goto
  <2>2. RecordsKept'
    BY <1>0, <2>1, FilesKept
  <2>6. ViewsOfRuns'
    <3>1. CASE at' = [at EXCEPT ![p] = "scan"] /\ view' = view
      <4>1. at'[p] = "scan" /\ life' = life
        BY <1>0, <1>6, <3>1 DEF ScanRead, Goto, TypeInv, TypeOK
      <4>2. ViewOfRun(p)'
        BY <4>1 DEF ViewOfRun
      <4> QED BY <1>0, <1>6, <4>1, <4>2, OnlyView DEF Core, ScanRead, Goto
    <3>2. CASE /\ at' = [at EXCEPT ![p] = "scanWrite"]
               /\ run[w] # NoRun /\ run[w].status = "running" /\ ~OwnerAlive(p, run[w].owner)
               /\ view' = [view EXCEPT ![p] = [run[w] EXCEPT !.status = "interrupted"]]
      <4>1. /\ run[w] \in Run /\ run[w].owner \in Processes /\ run[w].workflowId = w
        BY <1>0, <3>2 DEF TypeInv, TypeOK, Run, Core, Filed
      <4>2. run[w].owner # p
        BY <3>2 DEF OwnerAlive
      <4>3. ~Live(run[w].owner)
        BY <1>0, <1>6, <4>1, <4>2 DEF Core, Alone, ScanRead, Goto
      <4>4. /\ at'[p] = "scanWrite" /\ life' = life /\ run' = run
            /\ view'[p] = [run[w] EXCEPT !.status = "interrupted"]
        BY <1>0, <1>6, <3>2 DEF ScanRead, Goto, TypeInv, TypeOK
      <4>5. view'[p].workflowId = w
        BY <4>1, <4>4, RunFields, StatusNames
      <4>6. ViewOfRun(p)'
        BY <3>2, <4>2, <4>3, <4>4, <4>5 DEF ViewOfRun
      <4> QED BY <1>0, <1>6, <4>4, <4>6, OnlyView DEF Core, ScanRead, Goto
    <3> QED BY <1>6, <3>1, <3>2 DEF ScanRead, Goto
  <2> QED BY <2>2, <2>6, CoreParts
<1>7. ASSUME NEW p \in Processes, ScanWrite(p) PROVE Core'
  <2> DEFINE w == view[p].workflowId
  <2>a. /\ at[p] = "scanWrite" /\ PersistRun(p) /\ Live(p) /\ at'[p] = "scan"
        /\ UNCHANGED <<life, claim, link, effects, exec>>
    BY <1>0, <1>7 DEF ScanWrite, Goto, TypeInv, TypeOK
  <2>b. /\ view[p] \in Run /\ view[p] # NoRun /\ w \in Workflows
        /\ \A v \in Workflows : run'[v] = IF v = w THEN view[p] ELSE run[v]
    BY <1>0, <2>a, Written DEF WithRecord, Places
  <2>o. /\ run[w] # NoRun /\ run[w].owner # p
        /\ view[p] = [run[w] EXCEPT !.status = "interrupted"]
    BY <1>0, <2>a DEF Core, ViewsOfRuns, ViewOfRun
  <2>c. run[w] \in Run
    BY <1>0, <2>b, <2>o DEF TypeInv, TypeOK
  <2>d. view[p].owner = run[w].owner /\ view[p].status = "interrupted"
    BY <2>o, <2>c DEF Run
  <2>2. Filed'
    BY <1>0, <2>a, <2>b, WrittenFiled DEF Core
  <2>3. ActedOnRecord'
    BY <1>0, <2>a, <2>b, <2>o, <2>d DEF Core, ActedOnRecord, CanResume
  <2>1. \A q \in Processes : Live(q) => q = p
    BY <1>0, <2>a DEF Core, Alone
  <2>4. Alone' /\ Unstarted'
    BY <1>0, <2>a DEF Core, Alone, Unstarted
  <2>e. exec[w][p] \notin {"accepted", "armed", "failing", "ended"}
    BY <1>0, <2>a, <2>b, <2>o DEF Core, ExecutorOnRecord, SettledOnRecord
  <2>5. ExecutorOnRecord'
    BY <1>0, <2>1, <2>a, <2>b, <2>e DEF Core, ExecutorOnRecord, CanResume
  <2>6. SettledOnRecord'
    BY <1>0, <2>1, <2>a, <2>b, <2>e DEF Core, SettledOnRecord
  <2>7. ViewOfRun(p)'
    BY <2>a DEF ViewOfRun
  <2> QED BY <1>0, <2>a, <2>2, <2>3, <2>4, <2>5, <2>6, <2>7, OnlyView DEF Core
<1>8. ASSUME NEW p \in Processes, ScanDone(p) PROVE Core'
  <2>1. /\ Live(p) /\ at[p] # "mark" /\ at'[p] = "idle"
        /\ UNCHANGED <<life, run, claim, link, effects, exec>>
    BY <1>0, <1>8 DEF ScanDone, Goto, TypeInv, TypeOK
  <2>2. RecordsKept'
    BY <1>0, <2>1, FilesKept
  <2>3. ViewOfRun(p)'
    BY <2>1 DEF ViewOfRun
  <2> QED BY <1>0, <2>1, <2>2, <2>3, OnlyView, CoreParts DEF Core
<1>9. ASSUME NEW p \in Processes, ReadConflict(p) PROVE Core'
  <2>1. /\ Live(p) /\ at[p] # "mark" /\ at'[p] = "idle"
        /\ UNCHANGED <<life, run, claim, link, effects, exec>>
    BY <1>0, <1>9 DEF ReadConflict, Finish, Goto, TypeInv, TypeOK
  <2>2. RecordsKept'
    BY <1>0, <2>1, FilesKept
  <2>3. ViewOfRun(p)'
    BY <2>1 DEF ViewOfRun
  <2> QED BY <1>0, <2>1, <2>2, <2>3, OnlyView, CoreParts DEF Core
<1>10. ASSUME NEW p \in Processes, ReadExisting(p) PROVE Core'
  <2>1. /\ Live(p) /\ at[p] # "mark" /\ UNCHANGED <<life, run, claim, link, effects, exec>>
    BY <1>10 DEF ReadExisting, Goto
  <2>2. RecordsKept'
    BY <1>0, <2>1, FilesKept
  <2>6. ViewsOfRuns'
    <3> DEFINE w == ask[p].workflowId
    <3>1. ask[p] \in Requests /\ w \in Workflows /\ ask[p].idempotencyKey \in Keys
      BY <1>0, <1>10 DEF ReadExisting, Goto, TypeInv, Held, WithRequest
    <3>2. \E v \in Workflows : Existing(ask[p]) = run[v]
      <4> DEFINE k == ask[p].idempotencyKey
      <4>1. CASE link[k] = NoLink
        BY <4>1, <3>1 DEF Existing
      <4>2. CASE link[k] # NoLink
        <5>1. link[k] \in Workflows
          BY <1>0, <3>1, <4>2 DEF TypeInv, TypeOK
        <5> QED BY <4>2, <5>1 DEF Existing
      <4> QED BY <4>1, <4>2
    <3>7. PICK v \in Workflows : Existing(ask[p]) = run[v]
      BY <3>2
    <3>3. v = w /\ run[w] # NoRun /\ run[w].idempotencyKey = ask[p].idempotencyKey
      BY <1>0, <1>10, <3>7 DEF ReadExisting, Goto, Conflicts, Core, Filed
    <3>4. /\ at'[p] \in {"link", "decide"} /\ life' = life /\ run' = run /\ ask' = ask
          /\ view'[p] = run[w]
      BY <1>0, <1>10, <3>1, <3>7, <3>3 DEF ReadExisting, Goto, TypeInv, TypeOK
    <3>5. run[w].workflowId = w
      BY <1>0, <3>1, <3>3 DEF Core, Filed
    <3>6. ViewOfRun(p)'
      BY <3>3, <3>4, <3>5 DEF ViewOfRun
    <3> QED BY <1>0, <1>10, <3>4, <3>6, OnlyView DEF Core, ReadExisting, Goto
  <2> QED BY <2>2, <2>6, CoreParts
<1>11. ASSUME NEW p \in Processes, ReadFresh(p) PROVE Core'
  <2>1. /\ Live(p) /\ at[p] # "mark" /\ UNCHANGED <<life, run, claim, link, effects, exec>>
    BY <1>11 DEF ReadFresh, Goto
  <2>2. RecordsKept'
    BY <1>0, <2>1, FilesKept
  <2> DEFINE w == ask[p].workflowId
  <2>3. /\ ask[p] \in Requests /\ w \in Workflows /\ ask[p].idempotencyKey \in Keys
        /\ ask[p].conversationId \in Conversations
    BY <1>0, <1>11 DEF ReadFresh, Goto, TypeInv, Held, WithRequest
  <2>4. run[w] = NoRun
    <3>1. CASE link[ask[p].idempotencyKey] = NoLink
      BY <1>11, <3>1 DEF ReadFresh, Existing
    <3>2. CASE link[ask[p].idempotencyKey] # NoLink
      <4>1. run[link[ask[p].idempotencyKey]] # NoRun
        BY <1>0, <2>3, <3>2 DEF Core, Filed
      <4> QED BY <1>11, <3>2, <4>1 DEF ReadFresh, Existing
    <3> QED BY <3>1, <3>2
  <2>5. /\ at'[p] = "inspect" /\ ask' = ask
        /\ view'[p] = [workflowId |-> w, idempotencyKey |-> ask[p].idempotencyKey,
                       conversationId |-> ask[p].conversationId, status |-> "running",
                       owner |-> p, steps |-> {}]
    BY <1>0, <1>11 DEF ReadFresh, Goto, TypeInv, TypeOK
  <2>6. ViewOfRun(p)'
    BY <2>1, <2>4, <2>5 DEF ViewOfRun, CanResume
  <2> QED BY <1>0, <2>1, <2>2, <2>6, OnlyView, CoreParts DEF Core
<1>12. ASSUME NEW p \in Processes, WriteMissingLink(p) PROVE Core'
  <2> DEFINE w == view[p].workflowId
  <2>1. /\ Live(p) /\ at[p] = "link" /\ at'[p] = "decide"
        /\ UNCHANGED <<life, run, claim, effects, exec, view, ask>>
    BY <1>0, <1>12 DEF WriteMissingLink, Goto, TypeInv, TypeOK
  <2>2. /\ run[w] # NoRun /\ view[p] = run[w] /\ w = ask[p].workflowId
        /\ view[p].idempotencyKey = ask[p].idempotencyKey
    BY <1>0, <2>1 DEF Core, ViewsOfRuns, ViewOfRun
  <2>3. \A k \in Keys : link'[k] = IF k = ask[p].idempotencyKey THEN w ELSE link[k]
    BY <1>0, <1>12 DEF WriteMissingLink, TypeInv, TypeOK
  <2>4. Filed'
    BY <1>0, <2>1, <2>2, <2>3 DEF Core, Filed
  <2>5. \A q \in Processes : Live(q) => q = p
    BY <1>0, <2>1 DEF Core, Alone
  <2>6. Alone' /\ Unstarted' /\ ActedOnRecord' /\ ExecutorOnRecord'
    BY <1>0, <2>1 DEF Core, Alone, Unstarted, ActedOnRecord, ExecutorOnRecord, CanResume
  <2>7. SettledOnRecord'
    BY <1>0, <2>1, <2>5 DEF Core, SettledOnRecord
  <2>8. ViewOfRun(p)'
    BY <2>1, <2>2 DEF ViewOfRun
  <2> QED BY <1>0, <2>1, <2>4, <2>6, <2>7, <2>8, OnlyView DEF Core
<1>13. ASSUME NEW p \in Processes, DecideDuplicate(p) PROVE Core'
  <2>1. /\ Live(p) /\ at[p] # "mark" /\ UNCHANGED <<life, run, claim, link, effects, exec>>
    BY <1>13 DEF DecideDuplicate, Goto
  <2>2. RecordsKept'
    BY <1>0, <2>1, FilesKept
  <2> DEFINE w == view[p].workflowId
  <2>3. /\ view[p] \in Run /\ view[p] = run[w] /\ run[w] # NoRun
        /\ w = ask[p].workflowId /\ view[p].idempotencyKey = ask[p].idempotencyKey
    BY <1>0, <1>13 DEF DecideDuplicate, Goto, Core, ViewsOfRuns, ViewOfRun, TypeInv, Held,
                         WithRecord, Places
  <2>4. at'[p] = "dup" /\ view' = view
    BY <1>0, <1>13 DEF DecideDuplicate, Goto, TypeInv, TypeOK
  <2>6. ViewOfRun(p)'
    BY <2>1, <2>3, <2>4 DEF ViewOfRun
  <2> QED BY <1>0, <2>1, <2>2, <2>6, OnlyView, CoreParts DEF Core
<1>14. ASSUME NEW p \in Processes, DecideInterrupted(p) PROVE Core'
  <2>1. /\ Live(p) /\ at[p] # "mark" /\ UNCHANGED <<life, run, claim, link, effects, exec>>
    BY <1>14 DEF DecideInterrupted, Goto
  <2>2. RecordsKept'
    BY <1>0, <2>1, FilesKept
  <2> DEFINE w == view[p].workflowId
  <2>3. /\ view[p] \in Run /\ view[p] = run[w] /\ run[w] # NoRun
        /\ w = ask[p].workflowId /\ view[p].idempotencyKey = ask[p].idempotencyKey
    BY <1>0, <1>14 DEF DecideInterrupted, Goto, Core, ViewsOfRuns, ViewOfRun, TypeInv, Held,
                         WithRecord, Places
  <2>4. view[p].status = "running" /\ view[p].owner # p
    BY <1>14 DEF DecideInterrupted, Abandoned, OwnerAlive
  <2>5. view[p].owner \in Processes /\ ~Live(view[p].owner)
    BY <1>0, <2>1, <2>3, <2>4 DEF Core, Alone, Run
  <2>7. at'[p] = "stop" /\ view'[p] = [view[p] EXCEPT !.status = "interrupted"]
    BY <1>0, <1>14 DEF DecideInterrupted, Goto, TypeInv, TypeOK
  <2>8. view'[p].workflowId = w
    BY <2>3, <2>7 DEF Run
  <2>6. ViewOfRun(p)'
    BY <2>1, <2>3, <2>4, <2>5, <2>7, <2>8 DEF ViewOfRun
  <2> QED BY <1>0, <2>1, <2>2, <2>6, OnlyView, CoreParts DEF Core
<1>15. ASSUME NEW p \in Processes, DecideResume(p) PROVE Core'
  <2>1. /\ Live(p) /\ at[p] # "mark" /\ UNCHANGED <<life, run, claim, link, effects, exec>>
    BY <1>15 DEF DecideResume, Goto
  <2>2. RecordsKept'
    BY <1>0, <2>1, FilesKept
  <2> DEFINE w == view[p].workflowId
  <2>3. /\ view[p] \in Run /\ view[p] = run[w] /\ run[w] # NoRun
        /\ w = ask[p].workflowId /\ view[p].idempotencyKey = ask[p].idempotencyKey
    BY <1>0, <1>15 DEF DecideResume, Goto, Core, ViewsOfRuns, ViewOfRun, TypeInv, Held,
                         WithRecord, Places
  <2>4. view[p].status = "running" /\ view[p].owner # p /\ CanResume(view[p])
    BY <1>15 DEF DecideResume, Abandoned, OwnerAlive
  <2>5. view[p].owner \in Processes /\ ~Live(view[p].owner)
    BY <1>0, <2>1, <2>3, <2>4 DEF Core, Alone, Run
  <2>7. /\ at'[p] = "unlink" /\ ask' = ask
        /\ view'[p] = [view[p] EXCEPT !.owner = p]
    BY <1>0, <1>15 DEF DecideResume, Goto, TypeInv, TypeOK
  <2>8. /\ view'[p].owner = p /\ view'[p].status = "running"
        /\ view'[p].steps = view[p].steps /\ view'[p].workflowId = w
        /\ view'[p].idempotencyKey = view[p].idempotencyKey
    BY <2>3, <2>4, <2>7 DEF Run
  <2>6. ViewOfRun(p)'
    BY <2>1, <2>3, <2>4, <2>5, <2>7, <2>8 DEF ViewOfRun, CanResume
  <2> QED BY <1>0, <2>1, <2>2, <2>6, OnlyView, CoreParts DEF Core
<1>16. ASSUME NEW p \in Processes, PersistDuplicate(p) PROVE Core'
  <2> DEFINE w == view[p].workflowId
  <2>a. /\ at[p] = "dup" /\ PersistRun(p) /\ Live(p) /\ at'[p] = "idle"
        /\ UNCHANGED <<life, claim, link, effects, exec>>
    BY <1>0, <1>16 DEF PersistDuplicate, Goto, TypeInv, TypeOK
  <2>b. view[p] = run[w]
    BY <1>0, <2>a DEF Core, ViewsOfRuns, ViewOfRun
  <2>c. run' = run
    BY <1>0, <2>a, <2>b DEF PersistRun, TypeInv, TypeOK
  <2>2. RecordsKept'
    BY <1>0, <2>a, <2>c, FilesKept
  <2>3. ViewOfRun(p)'
    BY <2>a DEF ViewOfRun
  <2> QED BY <1>0, <2>a, <2>2, <2>3, OnlyView, CoreParts DEF Core
<1>17. ASSUME NEW p \in Processes, PersistInterrupted(p) PROVE Core'
  <2> DEFINE w == view[p].workflowId
  <2>a. /\ at[p] = "stop" /\ PersistRun(p) /\ Live(p) /\ at'[p] = "idle"
        /\ UNCHANGED <<life, claim, link, effects, exec>>
    BY <1>0, <1>17 DEF PersistInterrupted, Goto, TypeInv, TypeOK
  <2>b. /\ view[p] \in Run /\ view[p] # NoRun /\ w \in Workflows
        /\ \A v \in Workflows : run'[v] = IF v = w THEN view[p] ELSE run[v]
    BY <1>0, <2>a, Written DEF WithRecord, Places
  <2>o. /\ run[w] # NoRun /\ run[w].owner # p
        /\ view[p] = [run[w] EXCEPT !.status = "interrupted"]
    BY <1>0, <2>a DEF Core, ViewsOfRuns, ViewOfRun
  <2>c. run[w] \in Run
    BY <1>0, <2>b, <2>o DEF TypeInv, TypeOK
  <2>d. view[p].owner = run[w].owner /\ view[p].status = "interrupted"
    BY <2>o, <2>c DEF Run
  <2>2. Filed'
    BY <1>0, <2>a, <2>b, WrittenFiled DEF Core
  <2>3. ActedOnRecord'
    BY <1>0, <2>a, <2>b, <2>o, <2>d DEF Core, ActedOnRecord, CanResume
  <2>1. \A q \in Processes : Live(q) => q = p
    BY <1>0, <2>a DEF Core, Alone
  <2>4. Alone' /\ Unstarted'
    BY <1>0, <2>a DEF Core, Alone, Unstarted
  <2>e. exec[w][p] \notin {"accepted", "armed", "failing", "ended"}
    BY <1>0, <2>a, <2>b, <2>o DEF Core, ExecutorOnRecord, SettledOnRecord
  <2>5. ExecutorOnRecord'
    BY <1>0, <2>1, <2>a, <2>b, <2>e DEF Core, ExecutorOnRecord, CanResume
  <2>6. SettledOnRecord'
    BY <1>0, <2>1, <2>a, <2>b, <2>e DEF Core, SettledOnRecord
  <2>7. ViewOfRun(p)'
    BY <2>a DEF ViewOfRun
  <2> QED BY <1>0, <2>a, <2>2, <2>3, <2>4, <2>5, <2>6, <2>7, OnlyView DEF Core
<1>18. ASSUME NEW p \in Processes, UnlinkClaim(p) PROVE Core'
  <2> DEFINE w == view[p].workflowId
  <2>1. /\ Live(p) /\ at[p] = "unlink" /\ at'[p] = "inspect"
        /\ UNCHANGED <<life, run, link, effects, exec, view, ask>>
        /\ \A v \in Workflows : v # w => claim'[v] = claim[v]
    BY <1>0, <1>18 DEF UnlinkClaim, Goto, TypeInv, TypeOK
  <2>2. exec[w][p] = "none"
    BY <1>0, <2>1, ClaimerIsIdle
  <2>3. RecordsKept'
    BY <1>0, <2>1, <2>2, FilesKept
  <2>4. ViewOfRun(p)
    BY <1>0, <2>1 DEF Core, ViewsOfRuns
  <2>6. ViewOfRun(p)'
    BY <2>1, <2>4 DEF ViewOfRun, CanResume
  <2> QED BY <1>0, <2>1, <2>3, <2>6, OnlyView, CoreParts DEF Core
<1>19. ASSUME NEW p \in Processes, InspectClaim(p) PROVE Core'
  <2> DEFINE w == view[p].workflowId
  <2>1. /\ Live(p) /\ at[p] = "inspect" /\ at'[p] = "open"
        /\ UNCHANGED <<life, run, link, effects, exec, view, ask>>
        /\ \A v \in Workflows : v # w => claim'[v] = claim[v]
    BY <1>0, <1>19 DEF InspectClaim, Goto, TypeInv, TypeOK
  <2>2. exec[w][p] = "none"
    BY <1>0, <2>1, ClaimerIsIdle
  <2>3. RecordsKept'
    BY <1>0, <2>1, <2>2, FilesKept
  <2>4. ViewOfRun(p)
    BY <1>0, <2>1 DEF Core, ViewsOfRuns
  <2>6. ViewOfRun(p)'
    BY <2>1, <2>4 DEF ViewOfRun, CanResume
  <2> QED BY <1>0, <2>1, <2>3, <2>6, OnlyView, CoreParts DEF Core
<1>20. ASSUME NEW p \in Processes, InspectTorn(p) PROVE Core'
  <2>1. /\ Live(p) /\ at[p] # "mark" /\ at'[p] = "idle"
        /\ UNCHANGED <<life, run, claim, link, effects, exec>>
    BY <1>0, <1>20 DEF InspectTorn, Finish, Goto, TypeInv, TypeOK
  <2>2. RecordsKept'
    BY <1>0, <2>1, FilesKept
  <2>3. ViewOfRun(p)'
    BY <2>1 DEF ViewOfRun
  <2> QED BY <1>0, <2>1, <2>2, <2>3, OnlyView, CoreParts DEF Core
<1>21. ASSUME NEW p \in Processes, OpenClaim(p) PROVE Core'
  <2> DEFINE w == view[p].workflowId
  <2>1. /\ Live(p) /\ at[p] = "open" /\ at'[p] = "fill"
        /\ UNCHANGED <<life, run, link, effects, exec, view, ask>>
        /\ \A v \in Workflows : v # w => claim'[v] = claim[v]
    BY <1>0, <1>21 DEF OpenClaim, Goto, TypeInv, TypeOK
  <2>2. exec[w][p] = "none"
    BY <1>0, <2>1, ClaimerIsIdle
  <2>3. RecordsKept'
    BY <1>0, <2>1, <2>2, FilesKept
  <2>4. ViewOfRun(p)
    BY <1>0, <2>1 DEF Core, ViewsOfRuns
  <2>6. ViewOfRun(p)'
    BY <2>1, <2>4 DEF ViewOfRun, CanResume
  <2> QED BY <1>0, <2>1, <2>3, <2>6, OnlyView, CoreParts DEF Core
<1>22. ASSUME NEW p \in Processes, OpenActive(p) PROVE Core'
  <2>1. /\ Live(p) /\ at[p] # "mark" /\ at'[p] = "idle"
        /\ UNCHANGED <<life, run, claim, link, effects, exec>>
    BY <1>0, <1>22 DEF OpenActive, Finish, Goto, TypeInv, TypeOK
  <2>2. RecordsKept'
    BY <1>0, <2>1, FilesKept
  <2>3. ViewOfRun(p)'
    BY <2>1 DEF ViewOfRun
  <2> QED BY <1>0, <2>1, <2>2, <2>3, OnlyView, CoreParts DEF Core
<1>23. ASSUME NEW p \in Processes, FillClaim(p) PROVE Core'
  <2> DEFINE w == view[p].workflowId
  <2>1. /\ Live(p) /\ at[p] = "fill" /\ at'[p] = "persist"
        /\ UNCHANGED <<life, run, link, effects, exec, view, ask>>
        /\ \A v \in Workflows : v # w => claim'[v] = claim[v]
    BY <1>0, <1>23 DEF FillClaim, Goto, TypeInv, TypeOK
  <2>2. exec[w][p] = "none"
    BY <1>0, <2>1, ClaimerIsIdle
  <2>3. RecordsKept'
    BY <1>0, <2>1, <2>2, FilesKept
  <2>4. ViewOfRun(p)
    BY <1>0, <2>1 DEF Core, ViewsOfRuns
  <2>5. claim'[w] = p
    <3>1. w \in Workflows
      BY <1>0, <2>1 DEF TypeInv, Held, WithRecord, Places, Run
    <3> QED BY <1>0, <1>23, <3>1 DEF FillClaim, TypeInv, TypeOK
  <2>6. ViewOfRun(p)'
    BY <2>1, <2>4, <2>5 DEF ViewOfRun, CanResume
  <2> QED BY <1>0, <2>1, <2>3, <2>6, OnlyView, CoreParts DEF Core
<1>24. ASSUME NEW p \in Processes, PersistClaimed(p) PROVE Core'
  <2> DEFINE w == view[p].workflowId
  <2>a. /\ at[p] = "persist" /\ PersistRun(p) /\ Live(p) /\ at'[p] = "key"
        /\ UNCHANGED <<life, claim, link, effects, exec, view, ask>>
    BY <1>0, <1>24 DEF PersistClaimed, Goto, TypeInv, TypeOK
  <2>b. /\ view[p] \in Run /\ view[p] # NoRun /\ w \in Workflows
        /\ \A v \in Workflows : run'[v] = IF v = w THEN view[p] ELSE run[v]
    BY <1>0, <2>a, Written DEF WithRecord, Places
  <2>c. ViewOfRun(p)
    BY <1>0, <2>a DEF Core, ViewsOfRuns
  <2>d. /\ view[p].owner = p /\ view[p].status = "running" /\ CanResume(view[p])
        /\ claim[w] = p /\ w = ask[p].workflowId
        /\ view[p].idempotencyKey = ask[p].idempotencyKey
    BY <2>a, <2>c DEF ViewOfRun
  <2>e. run[w] # NoRun => run[w].status = "running" /\ view[p] = [run[w] EXCEPT !.owner = p]
    BY <2>a, <2>c DEF ViewOfRun
  <2>f. run[w] # NoRun => CanResume(run[w])
    <3>1. ASSUME run[w] # NoRun PROVE view[p].steps = run[w].steps
      <4>1. run[w] \in Run
        BY <1>0, <2>b, <3>1 DEF TypeInv, TypeOK
      <4> QED BY <2>e, <3>1, <4>1 DEF Run
    <3> QED BY <2>d, <3>1 DEF CanResume
  <2>g. effects[w] = {}
    BY <1>0, <2>b, <2>e, <2>f DEF Core, ActedOnRecord
  <2>h. exec[w][p] = "none"
    BY <1>0, <2>a, ClaimerIsIdle
  <2>1. \A q \in Processes : Live(q) => q = p
    BY <1>0, <2>a DEF Core, Alone
  <2>2. Alone' /\ Unstarted'
    BY <1>0, <2>a DEF Core, Alone, Unstarted
  <2>3. Filed'
    BY <1>0, <2>a, <2>b, WrittenFiled DEF Core
  <2>4. ActedOnRecord'
    BY <1>0, <2>a, <2>b, <2>g DEF Core, ActedOnRecord, CanResume
  <2>5. ExecutorOnRecord'
    BY <1>0, <2>1, <2>a, <2>b, <2>h DEF Core, ExecutorOnRecord, CanResume
  <2>6. SettledOnRecord'
    BY <1>0, <2>1, <2>a, <2>b, <2>h DEF Core, SettledOnRecord
  <2>7. ViewOfRun(p)'
    BY <2>a, <2>b, <2>d, <2>g, <2>h DEF ViewOfRun
  <2> QED BY <1>0, <2>a, <2>2, <2>3, <2>4, <2>5, <2>6, <2>7, OnlyView DEF Core
<1>25. ASSUME NEW p \in Processes, WriteLink(p) PROVE Core'
  <2> DEFINE w == view[p].workflowId
  <2>a. /\ ask[p] \in Requests /\ ask[p].idempotencyKey \in Keys /\ Live(p) /\ at[p] = "key"
        /\ view[p] \in Run /\ w \in Workflows /\ view[p] # NoRun /\ at'[p] = "idle"
    <3>1. Live(p) /\ at[p] = "key" /\ at'[p] = "idle"
      BY <1>0, <1>25 DEF WriteLink, Goto, TypeInv, TypeOK
    <3>2. ask[p] # NoRequest /\ view[p] # NoRun
      BY <1>0, <3>1 DEF TypeInv, Held, WithRequest, WithRecord, Places
    <3>3. ask[p] \in Requests /\ view[p] \in Run
      BY <1>0, <3>2 DEF TypeInv, TypeOK
    <3>4. ask[p].idempotencyKey \in Keys /\ w \in Workflows
      BY <3>3 DEF Run
    <3> QED BY <3>1, <3>2, <3>3, <3>4
  <2>b. /\ run[w] = view[p] /\ view[p].owner = p /\ view[p].status = "running"
        /\ claim[w] = p
    BY <1>0, <2>a DEF Core, ViewsOfRuns, ViewOfRun
  <2>c. UNCHANGED <<life, run, claim, effects>>
    BY <1>25 DEF WriteLink
  <2>d. \A k \in Keys : link'[k] = IF k = ask[p].idempotencyKey THEN w ELSE link[k]
    BY <1>0, <1>25, <2>a DEF WriteLink, TypeInv, TypeOK
  <2>e. \A v \in Workflows, q \in Processes :
          exec'[v][q] = IF v = w /\ q = p THEN "accepted" ELSE exec[v][q]
    BY <1>0, <1>25, <2>a DEF WriteLink, TypeInv, TypeOK
  <2>1. \A q \in Processes : Live(q) => q = p
    BY <1>0, <2>a DEF Core, Alone
  <2>2. Filed' /\ ActedOnRecord'
    BY <1>0, <2>a, <2>b, <2>c, <2>d DEF Core, Filed, ActedOnRecord, CanResume
  <2>3. Alone' /\ Unstarted'
    BY <1>0, <2>a, <2>c, <2>e DEF Core, Alone, Unstarted
  <2>4. ExecutorOnRecord'
    BY <1>0, <2>a, <2>b, <2>c, <2>e DEF Core, ExecutorOnRecord, CanResume
  <2>5. SettledOnRecord'
    BY <1>0, <2>1, <2>a, <2>c, <2>e DEF Core, SettledOnRecord
  <2>6. ViewOfRun(p)'
    BY <2>a DEF ViewOfRun
  <2> QED BY <1>0, <2>a, <2>c, <2>2, <2>3, <2>4, <2>5, <2>6, OnlyView DEF Core
<1>26. ASSUME NEW p \in Processes, NEW w \in Workflows, NEW s \in StepIds,
              ReadForStep(p, w, s) PROVE Core'
  <2>1. /\ Live(p) /\ at[p] # "mark" /\ UNCHANGED <<life, run, claim, link, effects, exec>>
    BY <1>26 DEF ReadForStep, Goto
  <2>2. RecordsKept'
    BY <1>0, <2>1, FilesKept
  <2>6. ViewsOfRuns'
    <3>1. run[w] \in Run /\ run[w].workflowId = w
      BY <1>0, <1>26 DEF ReadForStep, Goto, TypeInv, TypeOK, Core, Filed
    <3>2. run[w].owner = p
      BY <1>0, <1>26 DEF ReadForStep, Goto, Executing, Core, ExecutorOnRecord, SettledOnRecord
    <3>3. /\ at'[p] = "step" /\ life' = life /\ run' = run /\ exec' = exec
          /\ view'[p] = [run[w] EXCEPT !.steps = @ \cup {s}]
      BY <1>0, <1>26, <3>1 DEF ReadForStep, Goto, TypeInv, TypeOK
    <3>4. view'[p].workflowId = w
      BY <3>1, <3>3 DEF Run
    <3>5. ViewOfRun(p)'
      BY <1>26, <3>1, <3>2, <3>3, <3>4 DEF ViewOfRun, Executing, ReadForStep
    <3> QED BY <1>0, <1>26, <3>3, <3>5, OnlyView DEF Core, ReadForStep, Goto
  <2> QED BY <2>2, <2>6, CoreParts
<1>27. ASSUME NEW p \in Processes, NEW w \in Workflows,
              NEW s \in {"completed", "failed"}, ReadForMark(p, w, s) PROVE Core'
  <2>a. run[w] \in Run /\ run[w] # NoRun /\ run[w].workflowId = w
    BY <1>0, <1>27 DEF ReadForMark, Goto, TypeInv, TypeOK, Core, Filed
  <2>b. PICK e \in {"ended", "failing"} : /\ exec' = [exec EXCEPT ![w][p] = e]
                                          /\ e = "failing" => s = "failed"
    BY <1>27 DEF ReadForMark, Goto
  <2>c. \A v \in Workflows, q \in Processes :
          exec'[v][q] = IF v = w /\ q = p THEN e ELSE exec[v][q]
    BY <1>0, <2>b DEF TypeInv, TypeOK
  <2>d. /\ at[p] = "idle" /\ at'[p] = "mark" /\ UNCHANGED <<life, run>>
        /\ view'[p] = [run[w] EXCEPT !.status = s]
        /\ \A q \in Processes : q # p => at'[q] = at[q] /\ view'[q] = view[q]
    BY <1>0, <1>27, <2>a DEF ReadForMark, Goto, TypeInv, TypeOK
  <2>e. view'[p].workflowId = w /\ view'[p].status = s
    BY <2>a, <2>d DEF Run
  <2>f. run[w].owner = p /\ run[w].status \in {"running", s}
    <3>1. CASE exec[w][p] = "armed"
      BY <1>0, <1>27, <3>1 DEF Core, ExecutorOnRecord, ReadForMark, Goto
    <3>2. CASE exec[w][p] = "failing" /\ s = "failed"
      BY <1>0, <1>27, <2>d, <3>2 DEF Core, SettledOnRecord, ReadForMark, Goto
    <3> QED BY <1>27, <3>1, <3>2 DEF ReadForMark, Goto
  <2>5. SettledOnRecord'
    <3> SUFFICES ASSUME NEW v \in Workflows, NEW q \in Processes, Live(q),
                        exec'[v][q] \in {"failing", "ended"}
                 PROVE  /\ run[v] # NoRun /\ run[v].owner = q
                        /\ \/ at'[q] = "mark" /\ view'[q].workflowId = v
                           \/ exec'[v][q] = "ended" /\ run[v].status \in Terminal
                           \/ run[v].status = "failed"
      BY <2>d DEF SettledOnRecord
    <3>1. CASE v = w /\ q = p
      BY <3>1, <2>a, <2>d, <2>e, <2>f
    <3>2. CASE ~(v = w /\ q = p)
      <4>1. exec'[v][q] = exec[v][q]
        BY <3>2, <2>c
      <4>2. q = p
        BY <1>0, <1>27 DEF Core, Alone, ReadForMark, Goto
      <4> QED BY <1>0, <4>1, <4>2, <2>d DEF Core, SettledOnRecord
    <3> QED BY <3>1, <3>2
  <2>6. ViewsOfRuns'
    <3>1. ViewOfRun(p)'
      BY <2>a, <2>b, <2>c, <2>d, <2>e, <2>f DEF ViewOfRun
    <3> QED BY <1>0, <1>27, <2>d, <3>1, OnlyView DEF Core, ReadForMark, Goto
  <2>1. UNCHANGED <<claim, link, effects>> /\ Live(p)
    BY <1>27 DEF ReadForMark, Goto
  <2>2. Filed' /\ ActedOnRecord'
    BY <1>0, <2>1, <2>d DEF Core, Filed, ActedOnRecord, CanResume
  <2>3. Alone' /\ Unstarted'
    BY <1>0, <2>1, <2>c, <2>d DEF Core, Alone, Unstarted
  <2>4. ExecutorOnRecord'
    BY <1>0, <2>1, <2>b, <2>c, <2>d DEF Core, ExecutorOnRecord, CanResume
  <2> QED BY <2>2, <2>3, <2>4, <2>5, <2>6 DEF Core
<1>28. ASSUME NEW p \in Processes, NEW w \in Workflows, Effect(p, w) PROVE Core'
  <2>1. /\ Live(p) /\ at[p] = "idle" /\ exec[w][p] = "armed"
        /\ UNCHANGED <<life, run, claim, link, exec, at, view, ask>>
    BY <1>28 DEF Effect
  <2>2. \A v \in Workflows : effects'[v] = IF v = w THEN effects[w] \cup {p} ELSE effects[v]
    BY <1>0, <1>28 DEF Effect, TypeInv, TypeOK
  <2>3. /\ run[w] # NoRun /\ run[w].owner = p /\ ~CanResume(run[w])
    BY <1>0, <2>1 DEF Core, ExecutorOnRecord
  <2>4. ActedOnRecord'
    BY <1>0, <2>1, <2>2, <2>3 DEF Core, ActedOnRecord, CanResume
  <2>5. Alone' /\ Unstarted' /\ Filed' /\ ExecutorOnRecord' /\ SettledOnRecord'
    BY <1>0, <2>1 DEF Core, Alone, Unstarted, Filed, ExecutorOnRecord, SettledOnRecord, CanResume
  <2>6. ViewOfRun(p)'
    BY <2>1 DEF ViewOfRun
  <2> QED BY <1>0, <2>1, <2>4, <2>5, <2>6, OnlyView DEF Core
<1>29. ASSUME NEW p \in Processes, WriteStep(p) PROVE Core'
  <2> DEFINE w == view[p].workflowId
  <2>a. /\ at[p] = "step" /\ PersistRun(p) /\ Live(p) /\ at'[p] = "idle"
        /\ \A q \in Processes : q # p => at'[q] = at[q] /\ view'[q] = view[q]
        /\ UNCHANGED <<life, claim, link, effects>>
    BY <1>0, <1>29 DEF WriteStep, Goto, TypeInv, TypeOK
  <2>b. /\ view[p] \in Run /\ view[p] # NoRun /\ w \in Workflows
        /\ \A v \in Workflows : run'[v] = IF v = w THEN view[p] ELSE run[v]
    BY <1>0, <2>a, Written DEF WithRecord, Places
  <2>c. PICK s \in StepIds : view[p] = [run[w] EXCEPT !.steps = @ \cup {s}]
    BY <1>0, <2>a DEF Core, ViewsOfRuns, ViewOfRun
  <2>d. run[w] # NoRun /\ run[w] \in Run /\ run[w].owner = p /\ Executing(w, p)
    BY <1>0, <2>a, <2>b DEF Core, ViewsOfRuns, ViewOfRun, TypeInv, TypeOK
  <2>e. /\ view[p].owner = p /\ view[p].status = run[w].status
        /\ view[p].steps = run[w].steps \cup {s}
    BY <2>c, <2>d DEF Run
  <2>f. \A v \in Workflows, q \in Processes : exec'[v][q] =
          IF v = w /\ q = p /\ exec[w][p] = "accepted" /\ ~CanResume(view[p])
            THEN "armed" ELSE exec[v][q]
    BY <1>0, <1>29, <2>b DEF WriteStep, Goto, TypeInv, TypeOK
  <2>2. Filed'
    BY <1>0, <2>a, <2>b, WrittenFiled DEF Core
  <2>3. ActedOnRecord'
    BY <1>0, <2>a, <2>b, <2>d, <2>e DEF Core, ActedOnRecord, CanResume
  <2>4. ExecutorOnRecord'
    BY <1>0, <2>a, <2>b, <2>d, <2>e, <2>f DEF Core, ExecutorOnRecord, CanResume
  <2>5. SettledOnRecord'
    <3>1. \A v \in Workflows, q \in Processes :
            exec'[v][q] \in {"failing", "ended"} => exec[v][q] = exec'[v][q]
      BY <2>f
    <3>2. \A v \in Workflows : run[v] # NoRun =>
            run'[v] # NoRun /\ run'[v].owner = run[v].owner /\ run'[v].status = run[v].status
      BY <2>b, <2>d, <2>e
    <3> QED BY <1>0, <2>a, <3>1, <3>2 DEF Core, Alone, SettledOnRecord
  <2>6. ViewsOfRuns'
    <3>1. ViewOfRun(p)'
      BY <2>a DEF ViewOfRun
    <3> QED BY <1>0, <2>a, <3>1, OnlyView DEF Core
  <2>1. Alone' /\ Unstarted'
    BY <1>0, <2>a, <2>f DEF Core, Alone, Unstarted
  <2> QED BY <2>1, <2>2, <2>3, <2>4, <2>5, <2>6 DEF Core
<1>30. ASSUME NEW p \in Processes, WriteMark(p) PROVE Core'
  <2> DEFINE w == view[p].workflowId
  <2>a. /\ at[p] = "mark" /\ PersistRun(p) /\ Live(p) /\ at'[p] = "unclaim"
        /\ \A q \in Processes : q # p => at'[q] = at[q]
        /\ UNCHANGED <<life, claim, link, effects, exec, view>>
    BY <1>0, <1>30 DEF WriteMark, Goto, TypeInv, TypeOK
  <2>b. /\ view[p] \in Run /\ view[p] # NoRun /\ w \in Workflows
        /\ \A v \in Workflows : run'[v] = IF v = w THEN view[p] ELSE run[v]
    BY <1>0, <2>a, Written DEF WithRecord, Places
  <2>c. /\ run[w] # NoRun /\ run[w] \in Run /\ run[w].owner = p
        /\ view[p] = [run[w] EXCEPT !.status = view[p].status]
        /\ view[p].status \in {"completed", "failed"}
        /\ exec[w][p] \in {"failing", "ended"}
        /\ exec[w][p] = "failing" => view[p].status = "failed"
    BY <1>0, <2>a, <2>b DEF Core, ViewsOfRuns, ViewOfRun, TypeInv, TypeOK
  <2>d. view[p].owner = p
    BY <2>c DEF Run
  <2>3. ActedOnRecord'
    BY <1>0, <2>a, <2>b, <2>c, <2>d DEF Core, ActedOnRecord, CanResume
  <2>4. ExecutorOnRecord'
    BY <1>0, <2>a, <2>b, <2>c DEF Core, Alone, ExecutorOnRecord, CanResume
  <2>5. SettledOnRecord'
    BY <1>0, <2>a, <2>b, <2>c, <2>d DEF Core, Alone, SettledOnRecord, Terminal
  <2>6. ViewsOfRuns'
    <3>1. ViewOfRun(p)'
      BY <2>a, <2>b, <2>c, <2>d DEF ViewOfRun, Terminal
    <3> QED BY <1>0, <2>a, <3>1, OnlyView DEF Core
  <2>1. Alone' /\ Unstarted'
    BY <1>0, <2>a DEF Core, Alone, Unstarted
  <2>2. Filed'
    BY <1>0, <2>a, <2>b, WrittenFiled DEF Core
  <2> QED BY <2>1, <2>2, <2>3, <2>4, <2>5, <2>6 DEF Core
<1>31. ASSUME NEW p \in Processes, Unclaim(p) PROVE Core'
  <2> DEFINE w == view[p].workflowId
  <2>1. /\ Live(p) /\ at[p] = "unclaim" /\ at'[p] = "idle"
        /\ UNCHANGED <<life, run, link, effects, exec>>
        /\ \A v \in Workflows : v # w => claim'[v] = claim[v]
    BY <1>0, <1>31 DEF Unclaim, Goto, TypeInv, TypeOK
  <2>2. exec[w][p] \in {"failing", "ended"}
    BY <1>0, <2>1 DEF Core, ViewsOfRuns, ViewOfRun
  <2>3. RecordsKept'
    BY <1>0, <2>1, <2>2, FilesKept
  <2>4. ViewOfRun(p)'
    BY <2>1 DEF ViewOfRun
  <2> QED BY <1>0, <2>1, <2>3, <2>4, OnlyView, CoreParts DEF Core
<1> QED BY <1>1, <1>2, <1>3, <1>4, <1>5, <1>6, <1>7, <1>8, <1>9, <1>10, <1>11, <1>12, <1>13,
           <1>14, <1>15, <1>16, <1>17, <1>18, <1>19, <1>20, <1>21, <1>22, <1>23, <1>24, <1>25,
           <1>26, <1>27, <1>28, <1>29, <1>30, <1>31
    DEF Next, Reconcile, BeginStep, Execute

LEMMA Invariance == ASSUME ExclusiveOwner PROVE Spec => []IInv
<1>1. Init => IInv
  BY DEF Init, IInv, Core, Alone, Filed, ActedOnRecord, ExecutorOnRecord, SettledOnRecord,
         Unstarted, ViewsOfRuns, Live, TypeInv, TypeOK, Held, Places, WithRequest, WithRecord,
         Replies, Progress
<1>2. IInv /\ [Next]_vars => IInv'
  BY CoreStep, TypeStep DEF IInv
<1> QED BY <1>1, <1>2, PTL DEF Spec

(* In private mode all actions of a workflow come from one execution,      *)
(* whatever is delivered again and wherever the processes die.             *)
THEOREM ActsOnce == ASSUME ExclusiveOwner PROVE Spec => []EffectsOnce
<1>1. IInv => EffectsOnce
  BY DEF IInv, Core, ActedOnRecord, EffectsOnce
<1> QED BY <1>1, Invariance, PTL

(* While a process executes, the run and claim files name it. *)
THEOREM FilesNameExecutor == ASSUME ExclusiveOwner PROVE Spec => []ExecutorOwnsFiles
<1>1. IInv => ExecutorOwnsFiles
  BY DEF IInv, Core, ExecutorOnRecord, ExecutorOwnsFiles
<1> QED BY <1>1, Invariance, PTL

(* A begin answers "created" only where nothing has acted and this process *)
(* has not executed the workflow before.                                   *)
THEOREM CreatedOnlyBeforeActing == ASSUME ExclusiveOwner PROVE Spec => CreatedIsSafe
<1> DEFINE Safe == \A p \in Processes, w \in Workflows :
      exec[w][p] # "accepted" /\ exec'[w][p] = "accepted" =>
        effects[w] = {} /\ exec[w][p] = "none"
<1>1. IInv /\ [Next]_vars => Safe
  <2> SUFFICES ASSUME IInv, [Next]_vars, NEW p \in Processes, NEW w \in Workflows,
                      exec[w][p] # "accepted", exec'[w][p] = "accepted"
               PROVE  effects[w] = {} /\ exec[w][p] = "none"
    OBVIOUS
  <2>1. ASSUME NEW q \in Processes, WriteLink(q)
        PROVE  effects[w] = {} /\ exec[w][p] = "none"
    <3>1. /\ exec \in [Workflows -> [Processes -> Progress]]
          /\ at[q] = "key" /\ exec' = [exec EXCEPT ![view[q].workflowId][q] = "accepted"]
      BY <2>1 DEF WriteLink, Goto, IInv, TypeInv, TypeOK
    <3>2. w = view[q].workflowId /\ p = q
      BY <3>1
    <3>3. ViewOfRun(q)
      BY <2>1 DEF WriteLink, Goto, IInv, Core, ViewsOfRuns
    <3> QED BY <3>1, <3>2, <3>3 DEF ViewOfRun
  <2>2. ASSUME NEW q \in Processes, WriteStep(q) PROVE FALSE
    <3>1. exec \in [Workflows -> [Processes -> Progress]]
      BY DEF IInv, TypeInv, TypeOK
    <3> QED BY <2>2, <3>1 DEF WriteStep
  <2>3. ASSUME NEW q \in Processes, NEW v \in Workflows, NEW s \in {"completed", "failed"},
               ReadForMark(q, v, s)
        PROVE  FALSE
    <3>1. exec \in [Workflows -> [Processes -> Progress]]
      BY DEF IInv, TypeInv, TypeOK
    <3> QED BY <2>3, <3>1 DEF ReadForMark
  <2>4. CASE exec' = exec
    BY <2>4
  <2>5. \/ exec' = exec
        \/ \E q \in Processes : WriteLink(q) \/ WriteStep(q)
        \/ \E q \in Processes, v \in Workflows, s \in {"completed", "failed"} :
             ReadForMark(q, v, s)
    BY DEF vars, Next, Reconcile, BeginStep, Execute, Start, Crash, BeginBusy, Begin, ScanRead,
           ScanWrite, ScanDone, ReadConflict, ReadExisting, ReadFresh, WriteMissingLink,
           DecideDuplicate, DecideInterrupted, DecideResume, PersistDuplicate,
           PersistInterrupted, UnlinkClaim, InspectClaim, InspectTorn, OpenClaim, OpenActive,
           FillClaim, PersistClaimed, ReadForStep, Effect, WriteMark, Unclaim
  <2> QED BY <2>1, <2>2, <2>3, <2>4, <2>5
<1>2. Spec => []IInv
  BY Invariance
<1> QED BY <1>1, <1>2, PTL DEF Spec, CreatedIsSafe

-----------------------------------------------------------------------------
(* Private mode implements the ledger. *)

(* A step that leaves every run its status and its owner, and nobody new   *)
(* alive or acting, leaves the ledger alone.                               *)
LEMMA SameLedger ==
  ASSUME life' = life, effects' = effects,
         \A w \in Workflows : PhaseOf(w)' = PhaseOf(w) /\ HolderOf(w)' = HolderOf(w)
  PROVE  UNCHANGED Ledger!ledgerVars
BY DEF Ledger!ledgerVars, Live

(* What the ledger sees of one run file that is written.                   *)
LEMMA LedgerWritten ==
  ASSUME TypeInv, NEW p \in Processes, at[p] \in WithRecord, PersistRun(p),
         life' = life, effects' = effects
  PROVE  LET w == view[p].workflowId
             phase == [v \in Workflows |-> PhaseOf(v)]
             holder == [v \in Workflows |-> HolderOf(v)]
         IN  /\ w \in Workflows /\ view[p] # NoRun
             /\ phase' = [phase EXCEPT ![w] = view[p].status]
             /\ holder' = [holder EXCEPT ![w] = view[p].owner]
             /\ {q \in Processes : Live(q)}' = {q \in Processes : Live(q)}
             /\ [v \in Workflows |-> effects[v] # {}]' = [v \in Workflows |-> effects[v] # {}]
<1> DEFINE w == view[p].workflowId
<1>1. /\ view[p] # NoRun /\ w \in Workflows
      /\ \A v \in Workflows : run'[v] = IF v = w THEN view[p] ELSE run[v]
  BY Written
<1>2. [v \in Workflows |-> PhaseOf(v)]'
        = [[v \in Workflows |-> PhaseOf(v)] EXCEPT ![w] = view[p].status]
  BY <1>1 DEF PhaseOf
<1>3. [v \in Workflows |-> HolderOf(v)]'
        = [[v \in Workflows |-> HolderOf(v)] EXCEPT ![w] = view[p].owner]
  BY <1>1 DEF HolderOf
<1>4. {q \in Processes : Live(q)}' = {q \in Processes : Live(q)}
  BY DEF Live
<1>5. [v \in Workflows |-> effects[v] # {}]' = [v \in Workflows |-> effects[v] # {}]
  OBVIOUS
<1> QED BY <1>1, <1>2, <1>3, <1>4, <1>5

(* A run marked interrupted, by the startup scan or by a begin.            *)
LEMMA MarksInterrupted ==
  ASSUME IInv, NEW p \in Processes, Live(p), at[p] \in {"scanWrite", "stop"}, PersistRun(p),
         life' = life, effects' = effects
  PROVE  Ledger!Interrupt(p, view[p].workflowId)
<1> DEFINE w == view[p].workflowId
<1>1. TypeInv /\ at[p] \in WithRecord /\ ViewOfRun(p)
  BY DEF IInv, Core, ViewsOfRuns, WithRecord, Places
<1>2. /\ run[w] # NoRun /\ run[w].status = "running" /\ ~Live(run[w].owner)
      /\ view[p] = [run[w] EXCEPT !.status = "interrupted"]
  BY <1>1 DEF ViewOfRun
<1>3. w \in Workflows
  BY <1>1, LedgerWritten
<1>4. run[w] \in Run
  BY <1>1, <1>2, <1>3 DEF TypeInv, TypeOK
<1>5. view[p].status = "interrupted" /\ view[p].owner = run[w].owner
  <2>1. \A r \in Run : view[p] = [r EXCEPT !.status = "interrupted"]
          => view[p].status = "interrupted" /\ view[p].owner = r.owner
    BY RunFields, StatusNames
  <2> QED BY <1>2, <1>4, <2>1
<1> QED BY <1>1, <1>2, <1>3, <1>5, LedgerWritten DEF Ledger!Interrupt, PhaseOf, HolderOf

(* A record whose status and owner the file has already.                   *)
LEMMA WritesSame ==
  ASSUME IInv, NEW p \in Processes, at[p] \in WithRecord, PersistRun(p),
         life' = life, effects' = effects,
         run[view[p].workflowId] # NoRun,
         view[p].status = run[view[p].workflowId].status,
         view[p].owner = run[view[p].workflowId].owner
  PROVE  UNCHANGED Ledger!ledgerVars
<1> DEFINE w == view[p].workflowId
<1>1. /\ view[p] # NoRun /\ w \in Workflows
      /\ \A v \in Workflows : run'[v] = IF v = w THEN view[p] ELSE run[v]
  BY Written DEF IInv
<1>2. \A v \in Workflows : PhaseOf(v)' = PhaseOf(v) /\ HolderOf(v)' = HolderOf(v)
  BY <1>1 DEF PhaseOf, HolderOf
<1> QED BY <1>2, SameLedger

(* A claimed record: the first execution, or one after a dead owner that   *)
(* recorded nothing but reads, and so did not act.                         *)
LEMMA WritesClaim ==
  ASSUME IInv, NEW p \in Processes, PersistClaimed(p)
  PROVE  LET w == view[p].workflowId
         IN  w \in Workflows /\ (Ledger!Claim(p, w) \/ Ledger!Resume(p, w))
<1> DEFINE w == view[p].workflowId
<1>1. /\ TypeInv /\ Live(p) /\ at[p] = "persist" /\ at[p] \in WithRecord /\ PersistRun(p)
      /\ life' = life /\ effects' = effects /\ ViewOfRun(p)
  BY DEF PersistClaimed, Goto, IInv, Core, ViewsOfRuns, WithRecord, Places
<1>2. /\ view[p].owner = p /\ view[p].status = "running" /\ CanResume(view[p])
      /\ run[w] # NoRun =>
           /\ run[w].status = "running" /\ ~Live(run[w].owner)
           /\ view[p] = [run[w] EXCEPT !.owner = p]
  BY <1>1 DEF ViewOfRun
<1>3. w \in Workflows
  BY <1>1, LedgerWritten
<1>4. CASE run[w] = NoRun
  BY <1>1, <1>2, <1>3, <1>4, LedgerWritten DEF Ledger!Claim, PhaseOf
<1>5. CASE run[w] # NoRun
  <2>1. run[w] \in Run
    BY <1>1, <1>3, <1>5 DEF TypeInv, TypeOK
  <2>2. view[p].steps = run[w].steps
    <3>1. \A r \in Run : view[p] = [r EXCEPT !.owner = p] => view[p].steps = r.steps
      BY RunFields
    <3> QED BY <1>2, <1>5, <2>1, <3>1
  <2>3. effects[w] = {}
    BY <1>2, <1>3, <1>5, <2>2 DEF IInv, Core, ActedOnRecord, CanResume
  <2>4. [v \in Workflows |-> PhaseOf(v)]' = [v \in Workflows |-> PhaseOf(v)]
    <3>1. \A v \in Workflows : PhaseOf(v)' = PhaseOf(v)
      BY <1>1, <1>2, <1>5, Written DEF PhaseOf
    <3> QED BY <3>1
  <2> QED BY <1>1, <1>2, <1>3, <1>5, <2>3, <2>4, LedgerWritten DEF Ledger!Resume, PhaseOf, HolderOf
<1> QED BY <1>3, <1>4, <1>5

(* An outcome: the executor's, the first time; written again after that.   *)
LEMMA WritesOutcome ==
  ASSUME IInv, NEW p \in Processes, WriteMark(p)
  PROVE  \/ UNCHANGED Ledger!ledgerVars
         \/ view[p].workflowId \in Workflows /\ Ledger!Close(p, view[p].workflowId)
<1> DEFINE w == view[p].workflowId
<1>1. /\ TypeInv /\ Live(p) /\ at[p] = "mark" /\ at[p] \in WithRecord /\ PersistRun(p)
      /\ life' = life /\ effects' = effects /\ ViewOfRun(p)
  BY DEF WriteMark, Goto, IInv, Core, ViewsOfRuns, WithRecord, Places
<1>2. /\ run[w] # NoRun /\ run[w].owner = p
      /\ view[p].status \in {"completed", "failed"}
      /\ run[w].status \in {"running", view[p].status}
      /\ view[p] = [run[w] EXCEPT !.status = view[p].status]
  BY <1>1 DEF ViewOfRun
<1>3. w \in Workflows
  BY <1>1, LedgerWritten
<1>4. view[p].owner = p
  <2>1. run[w] \in Run
    BY <1>1, <1>2, <1>3 DEF TypeInv, TypeOK
  <2>2. \A r \in Run, s \in Statuses : view[p] = [r EXCEPT !.status = s]
          => view[p].owner = r.owner
    BY RunFields
  <2>3. view[p].status \in Statuses
    BY <1>2, StatusNames
  <2> QED BY <1>2, <2>1, <2>2, <2>3
<1>5. CASE run[w].status = view[p].status
  BY <1>1, <1>2, <1>4, <1>5, WritesSame
<1>6. CASE run[w].status = "running"
  <2>1. [v \in Workflows |-> HolderOf(v)]' = [v \in Workflows |-> HolderOf(v)]
    <3>1. \A v \in Workflows : HolderOf(v)' = HolderOf(v)
      BY <1>1, <1>2, <1>4, Written DEF HolderOf
    <3> QED BY <3>1
  <2> QED BY <1>1, <1>2, <1>3, <1>6, <2>1, LedgerWritten DEF Ledger!Close, PhaseOf, HolderOf
<1> QED BY <1>2, <1>5, <1>6

(* Every step of the files is a step of the ledger or leaves it alone.     *)
LEMMA LedgerStep == IInv /\ [Next]_vars => [Ledger!Next]_(Ledger!ledgerVars)
<1> SUFFICES ASSUME IInv, [Next]_vars PROVE [Ledger!Next]_(Ledger!ledgerVars)
  OBVIOUS
<1>1. CASE UNCHANGED <<life, run, effects>>
  BY <1>1, SameLedger DEF PhaseOf, HolderOf
<1>2. ASSUME NEW p \in Processes, Start(p) PROVE Ledger!Next
  <2>1. Ledger!Join(p)
    BY <1>2 DEF Start, Ledger!Join, Live, PhaseOf, HolderOf, IInv, TypeInv, TypeOK
  <2> QED BY <2>1 DEF Ledger!Next
<1>3. ASSUME NEW p \in Processes, Crash(p) PROVE Ledger!Next
  <2>1. Ledger!Leave(p)
    BY <1>3 DEF Crash, Ledger!Leave, Live, PhaseOf, HolderOf, IInv, TypeInv, TypeOK
  <2> QED BY <2>1 DEF Ledger!Next
<1>4. ASSUME NEW p \in Processes, ScanWrite(p) \/ PersistInterrupted(p) PROVE Ledger!Next
  <2>1. /\ Live(p) /\ at[p] \in {"scanWrite", "stop"} /\ at[p] \in WithRecord /\ PersistRun(p)
        /\ life' = life /\ effects' = effects
    BY <1>4 DEF ScanWrite, PersistInterrupted, Goto, WithRecord, Places
  <2>2. view[p].workflowId \in Workflows
    BY <2>1, LedgerWritten DEF IInv
  <2> QED BY <2>1, <2>2, MarksInterrupted DEF Ledger!Next
<1>5. ASSUME NEW p \in Processes, PersistDuplicate(p) PROVE UNCHANGED Ledger!ledgerVars
  <2>1. /\ Live(p) /\ at[p] = "dup" /\ at[p] \in WithRecord /\ PersistRun(p)
        /\ life' = life /\ effects' = effects /\ ViewOfRun(p)
    BY <1>5 DEF PersistDuplicate, Goto, WithRecord, Places, IInv, Core, ViewsOfRuns
  <2>2. run[view[p].workflowId] # NoRun /\ view[p] = run[view[p].workflowId]
    BY <2>1 DEF ViewOfRun
  <2> QED BY <2>1, <2>2, WritesSame
<1>6. ASSUME NEW p \in Processes, WriteStep(p) PROVE UNCHANGED Ledger!ledgerVars
  <2> DEFINE w == view[p].workflowId
  <2>1. /\ TypeInv /\ Live(p) /\ at[p] = "step" /\ at[p] \in WithRecord /\ PersistRun(p)
        /\ life' = life /\ effects' = effects /\ ViewOfRun(p)
    BY <1>6 DEF WriteStep, Goto, WithRecord, Places, IInv, Core, ViewsOfRuns
  <2>2. PICK s \in StepIds : run[w] # NoRun /\ view[p] = [run[w] EXCEPT !.steps = @ \cup {s}]
    BY <2>1 DEF ViewOfRun
  <2>3. run[w] \in Run
    BY <2>1, <2>2, LedgerWritten DEF TypeInv, TypeOK
  <2>4. view[p].status = run[w].status /\ view[p].owner = run[w].owner
    <3>1. \A r \in Run : view[p] = [r EXCEPT !.steps = @ \cup {s}]
            => view[p].status = r.status /\ view[p].owner = r.owner
      BY RunFields
    <3> QED BY <2>2, <2>3, <3>1
  <2> QED BY <2>1, <2>2, <2>4, WritesSame
<1>7. ASSUME NEW p \in Processes, PersistClaimed(p) PROVE Ledger!Next
  BY <1>7, WritesClaim DEF Ledger!Next
<1>8. ASSUME NEW p \in Processes, WriteMark(p) PROVE [Ledger!Next]_(Ledger!ledgerVars)
  BY <1>8, WritesOutcome DEF Ledger!Next
<1>9. ASSUME NEW p \in Processes, NEW w \in Workflows, Effect(p, w) PROVE Ledger!Next
  <2>1. /\ life' = life /\ run' = run /\ effects' = [effects EXCEPT ![w] = @ \cup {p}]
        /\ Live(p) /\ exec[w][p] = "armed" /\ effects \in [Workflows -> SUBSET Processes]
    BY <1>9 DEF Effect, IInv, TypeInv, TypeOK
  <2>2. PhaseOf(w) = "running" /\ HolderOf(w) = p
    BY <2>1 DEF IInv, Core, ExecutorOnRecord, PhaseOf, HolderOf
  <2>3. [v \in Workflows |-> effects[v] # {}]'
          = [[v \in Workflows |-> effects[v] # {}] EXCEPT ![w] = TRUE]
    BY <2>1
  <2>4. Ledger!Act(p, w)
    BY <2>1, <2>2, <2>3 DEF Ledger!Act, Live, PhaseOf, HolderOf
  <2> QED BY <2>4 DEF Ledger!Next
<1>10. ASSUME NEW p \in Processes, Reconcile(p)
       PROVE  UNCHANGED <<life, run, effects>> \/ ScanWrite(p)
  BY <1>10 DEF Reconcile, ScanRead, ScanDone
<1>11. ASSUME NEW p \in Processes, BeginStep(p)
       PROVE  \/ UNCHANGED <<life, run, effects>>
              \/ PersistDuplicate(p) \/ PersistInterrupted(p) \/ PersistClaimed(p)
  BY <1>11 DEF BeginStep, ReadConflict, ReadExisting, ReadFresh, WriteMissingLink, DecideDuplicate,
         DecideInterrupted, DecideResume, UnlinkClaim, InspectClaim, InspectTorn, OpenClaim,
         OpenActive, FillClaim, WriteLink
<1>12. ASSUME NEW p \in Processes, Execute(p)
       PROVE  \/ UNCHANGED <<life, run, effects>> \/ WriteStep(p) \/ WriteMark(p)
              \/ \E w \in Workflows : Effect(p, w)
  BY <1>12 DEF Execute, ReadForStep, ReadForMark, Unclaim
<1>13. ASSUME NEW p \in Processes, BeginBusy(p) \/ \E r \in Requests : Begin(p, r)
       PROVE  UNCHANGED <<life, run, effects>>
  BY <1>13 DEF BeginBusy, Begin
<1>14. UNCHANGED vars => UNCHANGED <<life, run, effects>>
  BY DEF vars
<1> QED BY <1>1, <1>2, <1>3, <1>4, <1>5, <1>6, <1>7, <1>8, <1>9, <1>10, <1>11, <1>12, <1>13, <1>14
        DEF Next

(* With one process at a time on the state, the files implement the ledger *)
(* under every crash, restart, resume and duplicate delivery.              *)
THEOREM PrivateModeIsALedger == ASSUME ExclusiveOwner PROVE Spec => ImplementsLedger
<1>1. Init => Ledger!Init
  BY DEF Init, Ledger!Init, Live, PhaseOf, HolderOf
<1> QED BY <1>1, LedgerStep, Invariance, PTL DEF Spec, ImplementsLedger, Ledger!Spec

-----------------------------------------------------------------------------
(* Processes that share the files: the inductive invariant without the     *)
(* private lock.                                                           *)

Claiming == {"unlink", "inspect", "open", "fill", "persist", "key"}

DistinctPids == \A p, q \in Processes : Live(p) /\ Live(q) /\ PidOf[p] = PidOf[q] => p = q
DeadIsDown == \A p \in Processes : ~Live(p) => at[p] = "down"
MutexHeld == \A p \in Processes : at[p] \in WithRequest => mutex = p

(* The run file of a workflow that is executed exists, and if it says that *)
(* the run goes on it names the executor.                                  *)
RunNamesExecutor == \A w \in Workflows, p \in Processes :
  Live(p) /\ Executing(w, p) =>
    run[w] # NoRun /\ (run[w].status = "running" => run[w].owner = p)

(* What a process may be about to write, or to do: a record that says that *)
(* the run goes on names whoever executes it; one who claims a workflow    *)
(* has nobody execute it.                                                  *)
ViewAllowed(r) == LET w == view[r].workflowId IN
  /\ at[r] \in {"scanWrite", "stop", "mark", "unclaim"} => view[r].status # "running"
  /\ at[r] \in Claiming => /\ view[r].owner = r
                           /\ \A p \in Processes : Live(p) => ~Executing(w, p)
  /\ at[r] = "key" /\ run[w].status = "running" => run[w].owner = r
  /\ at[r] = "step" => Executing(w, r)
  /\ at[r] \in {"link", "decide", "dup", "step"} /\ view[r].status = "running" =>
       \A p \in Processes : Live(p) /\ Executing(w, p) => view[r].owner = p
  /\ at[r] \in WithRecord \ {"inspect", "open", "fill", "persist"} => run[w] # NoRun

Gate == /\ DistinctPids /\ DeadIsDown /\ Unstarted /\ MutexHeld /\ Filed /\ OneExecutor
        /\ RunNamesExecutor /\ \A r \in Processes : ViewAllowed(r)
SharedInv == TypeInv /\ Gate

(* A step of p that starts no execution, and writes no run file or that of *)
(* its record: what is left to show is what p itself is about to do.       *)
Moves(p) ==
  /\ Live(p) /\ life' = life
  /\ \/ run' = run
     \/ at[p] \in {"scanWrite", "dup", "stop", "persist", "step", "mark"} /\ PersistRun(p)
  /\ \A k \in Keys : \/ link'[k] = link[k]
                     \/ link'[k] = view[p].workflowId /\ at[p] = "link"
  /\ \A q \in Processes \ {p} : at'[q] = at[q] /\ view'[q] = view[q]
  /\ \A w \in Workflows : \A q \in Processes \ {p} : exec'[w][q] = exec[w][q]
  /\ \A w \in Workflows : Executing(w, p)' => Executing(w, p)
  /\ mutex' = mutex \/ mutex \in {Nobody, p}
  /\ at'[p] \in WithRequest => mutex' = p

LEMMA MovesKeepGate ==
  ASSUME SharedInv, NEW p \in Processes, Moves(p), ViewAllowed(p)'
  PROVE  Gate'
<1> USE DEF SharedInv, Gate, Live
<1>1. DistinctPids' /\ Unstarted'
  BY DEF Moves, DistinctPids, Unstarted
<1>2. DeadIsDown'
  BY DEF Moves, DeadIsDown
<1>3. MutexHeld'
  BY DurableRunAssumption DEF Moves, MutexHeld
<1>4. \A w \in Workflows, q \in Processes : Executing(w, q)' => Executing(w, q)
  BY DEF Moves, Executing
<1>5. OneExecutor'
  BY <1>4 DEF Moves, OneExecutor
<1>6. ASSUME run' # run
      PROVE  /\ at[p] \in {"scanWrite", "dup", "stop", "persist", "step", "mark"}
             /\ view[p] # NoRun /\ view[p].workflowId \in Workflows
             /\ \A v \in Workflows :
                  run'[v] = IF v = view[p].workflowId THEN view[p] ELSE run[v]
  BY <1>6, Written DEF Moves, WithRecord, Places
<1>7. \A v \in Workflows : run[v] # NoRun => run'[v] # NoRun
  BY <1>6
<1>8. Filed'
  <2>1. \A v \in Workflows : run'[v] # NoRun => run'[v].workflowId = v
    BY <1>6 DEF Filed
  <2>2. ASSUME NEW k \in Keys, link'[k] # NoLink PROVE run'[link'[k]] # NoRun
    <3>1. CASE link'[k] = link[k]
      BY <1>7, <2>2, <3>1 DEF Filed, TypeInv, TypeOK
    <3>2. CASE link'[k] = view[p].workflowId /\ at[p] = "link"
      <4>1. view[p].workflowId \in Workflows /\ run[view[p].workflowId] # NoRun
        BY <3>2 DEF ViewAllowed, WithRecord, Places, TypeInv, Held, Run
      <4> QED BY <1>7, <3>2, <4>1
    <3> QED BY <3>1, <3>2 DEF Moves
  <2> QED BY <2>1, <2>2 DEF Filed
<1>9. RunNamesExecutor'
  <2> SUFFICES ASSUME NEW w \in Workflows, NEW q \in Processes, Live(q)', Executing(w, q)'
               PROVE  run'[w] # NoRun /\ (run'[w].status = "running" => run'[w].owner = q)
    BY DEF RunNamesExecutor
  <2>1. Live(q) /\ Executing(w, q)
    BY <1>4 DEF Moves
  <2>2. run[w] # NoRun /\ (run[w].status = "running" => run[w].owner = q)
    BY <2>1 DEF RunNamesExecutor
  <2>3. CASE run'[w] = run[w]
    BY <2>2, <2>3
  <2>4. CASE run'[w] # run[w]
    <3>1. w = view[p].workflowId /\ run'[w] = view[p]
      BY <1>6, <2>4
    <3>2. view[p].status = "running" => view[p].owner = q
      BY <1>6, <2>1, <2>4, <3>1 DEF ViewAllowed, Claiming
    <3> QED BY <1>7, <2>2, <3>1, <3>2
  <2> QED BY <2>3, <2>4
<1>10. ASSUME NEW r \in Processes, r # p PROVE ViewAllowed(r)'
  <2>1. at'[r] = at[r] /\ view'[r] = view[r] /\ ViewAllowed(r)
    BY <1>10 DEF Moves
  <2>2. CASE at[r] \notin WithRecord
    BY <2>1, <2>2 DEF ViewAllowed, WithRecord, Places, Claiming
  <2>3. CASE at[r] \in WithRecord
    <3>1. PICK w \in Workflows : w = view[r].workflowId
      BY <2>3 DEF TypeInv, Held, Run
    <3>2. Executing(w, r)' <=> Executing(w, r)
      BY <1>10, <3>1 DEF Moves, Executing
    <3>3. ASSUME at[r] = "key", run'[w].status = "running" PROVE run'[w].owner = r
      <4>1. CASE run'[w] = run[w]
        BY <2>1, <3>1, <3>3, <4>1 DEF ViewAllowed
      <4>2. CASE run'[w] # run[w]
        <5>1. w = view[p].workflowId /\ run'[w] = view[p]
          BY <1>6, <4>2
        <5>2. at[p] \notin WithRequest
          BY <1>10, <3>3 DEF MutexHeld, WithRequest
        <5>3. at[p] \in {"scanWrite", "step", "mark"}
          BY <1>6, <4>2, <5>2 DEF WithRequest
        <5>4. ~Executing(w, p)
          BY <2>1, <3>1, <3>3 DEF ViewAllowed, Claiming, Moves
        <5> QED BY <3>3, <5>1, <5>3, <5>4 DEF ViewAllowed
      <4> QED BY <4>1, <4>2
    <3>4. \A q \in Processes : Live(q)' /\ Executing(w, q)' => Live(q) /\ Executing(w, q)
      BY <1>4, <3>1 DEF Moves
    <3>5. run[w] # NoRun => run'[w] # NoRun
      BY <1>7, <3>1
    <3>6. /\ at[r] \in {"scanWrite", "stop", "mark", "unclaim"} => view[r].status # "running"
          /\ at[r] \in Claiming => /\ view[r].owner = r
                                   /\ \A q \in Processes : Live(q)' => ~Executing(w, q)'
          /\ at[r] = "step" => Executing(w, r)'
          /\ at[r] \in {"link", "decide", "dup", "step"} /\ view[r].status = "running" =>
               \A q \in Processes : Live(q)' /\ Executing(w, q)' => view[r].owner = q
          /\ at[r] \in WithRecord \ {"inspect", "open", "fill", "persist"} => run'[w] # NoRun
      BY <2>1, <3>1, <3>2, <3>4, <3>5 DEF ViewAllowed
    <3> QED BY <2>1, <3>1, <3>3, <3>6 DEF ViewAllowed
  <2> QED BY <2>2, <2>3
<1> QED BY <1>1, <1>2, <1>3, <1>5, <1>8, <1>9, <1>10

(* The actions that move nothing but the process's own sequence.           *)
LEMMA SequenceMoves ==
  ASSUME SharedInv, TypeInv', NEW p \in Processes,
         Goto(p, at[p], at'[p]), UNCHANGED <<life, run, link, exec>>,
         \E v : view' = [view EXCEPT ![p] = v],
         mutex' = mutex \/ mutex \in {Nobody, p}, at'[p] \in WithRequest => mutex' = p,
         ViewAllowed(p)'
  PROVE  Gate'
<1>1. Moves(p)
  <2>1. /\ \A q \in Processes \ {p} : at'[q] = at[q] /\ view'[q] = view[q]
        /\ Live(p)
    BY DEF SharedInv, TypeInv, TypeOK, Goto
  <2> QED BY <2>1 DEF Moves, Executing
<1> QED BY <1>1, MovesKeepGate

(* Looking the run up finds the one filed for the request, if there is     *)
(* any.                                                                    *)
LEMMA Found ==
  ASSUME SharedInv, NEW p \in Processes, at[p] = "read"
  PROVE  /\ Existing(ask[p]) # NoRun =>
              \E w \in Workflows : Existing(ask[p]) = run[w] /\ run[w].workflowId = w
         /\ Existing(ask[p]) = NoRun => run[ask[p].workflowId] = NoRun
<1>1. ask[p] \in Requests /\ ask[p].workflowId \in Workflows /\ ask[p].idempotencyKey \in Keys
  BY DurableRunAssumption DEF SharedInv, TypeInv, Held, WithRequest
<1>2. link[ask[p].idempotencyKey] # NoLink => link[ask[p].idempotencyKey] \in Workflows
  BY <1>1 DEF SharedInv, TypeInv, TypeOK
<1> QED BY <1>1, <1>2 DEF SharedInv, Gate, Filed, Existing

(* A live owner is found alive where all processes see each other's pids.  *)
LEMMA LiveOwnerFound ==
  ASSUME \A x, y \in Processes : NsOf[x] = NsOf[y], DistinctPids,
         NEW p \in Processes, NEW o \in Processes, Live(p), Live(o)
  PROVE  OwnerAlive(p, o)
BY DEF DistinctPids, OwnerAlive

(* reconcileInterruptedRuns writes nothing but interruptions.              *)
LEMMA ScanKeepsGate ==
  ASSUME SharedInv, TypeInv', NEW p \in Processes, Reconcile(p)
  PROVE  Gate'
<1> USE DEF SharedInv, TypeInv, TypeOK, Goto, WithRequest, WithRecord, Places, Claiming
<1>1. ASSUME NEW w \in Workflows, ScanRead(p, w) PROVE Gate'
  <2>1. CASE at' = [at EXCEPT ![p] = "scan"] /\ view' = view
    <3>1. ViewAllowed(p)'
      BY <2>1 DEF ViewAllowed
    <3>2. Moves(p)
      BY <1>1, <2>1 DEF ScanRead, Moves, Executing
    <3> QED BY <3>1, <3>2, MovesKeepGate
  <2>2. CASE /\ run[w] # NoRun /\ at' = [at EXCEPT ![p] = "scanWrite"]
             /\ view' = [view EXCEPT ![p] = [run[w] EXCEPT !.status = "interrupted"]]
    <3>1. run[w] \in Run /\ run[w].workflowId = w
      BY <2>2 DEF Gate, Filed
    <3>2. view'[p].status = "interrupted" /\ view'[p].workflowId = w
      BY <2>2, <3>1, RunFields, StatusNames
    <3>3. ViewAllowed(p)'
      BY <1>1, <2>2, <3>2 DEF ViewAllowed, ScanRead
    <3> QED BY <1>1, <2>2, <3>3, SequenceMoves DEF ScanRead
  <2> QED BY <1>1, <2>1, <2>2 DEF ScanRead
<1>2. CASE ScanWrite(p)
  <2>1. ViewAllowed(p)'
    BY <1>2 DEF ScanWrite, ViewAllowed
  <2>2. Moves(p)
    BY <1>2 DEF ScanWrite, Moves, Executing
  <2> QED BY <2>1, <2>2, MovesKeepGate
<1>3. CASE ScanDone(p)
  <2>1. ViewAllowed(p)'
    BY <1>3 DEF ScanDone, ViewAllowed
  <2>2. Moves(p)
    BY <1>3 DEF ScanDone, Moves, Executing
  <2> QED BY <2>1, <2>2, MovesKeepGate
<1> QED BY <1>1, <1>2, <1>3 DEF Reconcile

(* The begin that holds the mutex is the only one that claims, and it      *)
(* claims only a workflow that has no live executor.                       *)
LEMMA BeginKeepsGate ==
  ASSUME \A x, y \in Processes : NsOf[x] = NsOf[y],
         SharedInv, TypeInv', NEW p \in Processes,
         BeginStep(p) \/ BeginBusy(p) \/ \E r \in Requests : Begin(p, r)
  PROVE  Gate'
<1> USE NoRunAssumption DEF SharedInv, TypeInv, Held, TypeOK, Goto, WithRequest, WithRecord, Places,
        Claiming
<1>0. ASSUME NEW place, at[p] = place, place \in WithRequest PROVE mutex = p
  BY <1>0 DEF Gate, MutexHeld
<1>1. ASSUME NEW r \in Requests, Begin(p, r) PROVE Gate'
  <2>1. ViewAllowed(p)'
    BY <1>1 DEF Begin, ViewAllowed
  <2>2. Moves(p)
    BY <1>1 DEF Begin, Moves, Executing
  <2> QED BY <2>1, <2>2, MovesKeepGate
<1>2. CASE BeginBusy(p)
  <2>1. ViewAllowed(p)'
    BY <1>2 DEF BeginBusy, ViewAllowed
  <2>2. Moves(p)
    BY <1>2 DEF BeginBusy, Moves, Executing
  <2> QED BY <2>1, <2>2, MovesKeepGate
<1>3. CASE ReadConflict(p) \/ InspectTorn(p) \/ OpenActive(p)
  <2>1. ViewAllowed(p)'
    BY <1>3 DEF ReadConflict, InspectTorn, OpenActive, ViewAllowed
  <2>2. Moves(p)
    BY <1>0, <1>3 DEF ReadConflict, InspectTorn, OpenActive, Finish, Moves, Executing
  <2> QED BY <2>1, <2>2, MovesKeepGate
<1>4. CASE ReadExisting(p)
  <2>1. PICK w \in Workflows : Existing(ask[p]) = run[w] /\ run[w].workflowId = w /\ run[w] # NoRun
    BY <1>4, Found DEF ReadExisting
  <2>2. view'[p] = run[w] /\ at'[p] \in {"link", "decide"} /\ UNCHANGED <<run, exec, life>>
    BY <1>4, <2>1 DEF ReadExisting
  <2>3. ViewAllowed(p)'
    BY <2>1, <2>2 DEF ViewAllowed, Gate, RunNamesExecutor, Live, Executing
  <2>4. Moves(p)
    BY <1>0, <1>4 DEF ReadExisting, Moves, Executing
  <2> QED BY <2>3, <2>4, MovesKeepGate
<1>5. CASE ReadFresh(p)
  <2>1. /\ view'[p].workflowId = ask[p].workflowId /\ view'[p].owner = p /\ at'[p] = "inspect"
        /\ UNCHANGED <<run, exec, life>> /\ run[ask[p].workflowId] = NoRun
        /\ ask[p].workflowId \in Workflows
    <3>1. ask[p] \in Requests /\ run[ask[p].workflowId] = NoRun
      BY <1>5, Found DEF ReadFresh
    <3>2. ask[p].workflowId \in Workflows
      BY <3>1, DurableRunAssumption
    <3> QED BY <1>5, <3>1, <3>2 DEF ReadFresh
  <2>2. ViewAllowed(p)'
    BY <2>1 DEF ViewAllowed, Gate, RunNamesExecutor, Live, Executing
  <2>3. Moves(p)
    BY <1>0, <1>5 DEF ReadFresh, Moves, Executing
  <2> QED BY <2>2, <2>3, MovesKeepGate
<1>6. CASE WriteMissingLink(p)
  <2>1. ViewAllowed(p)
    BY DEF Gate
  <2>2. ViewAllowed(p)'
    BY <1>6, <2>1 DEF WriteMissingLink, ViewAllowed, Live, Executing
  <2>3. Moves(p)
    BY <1>0, <1>6 DEF WriteMissingLink, Moves, Executing
  <2> QED BY <2>2, <2>3, MovesKeepGate
<1>7. CASE DecideDuplicate(p)
  <2>1. ViewAllowed(p)
    BY DEF Gate
  <2>2. ViewAllowed(p)'
    BY <1>7, <2>1 DEF DecideDuplicate, ViewAllowed, Live, Executing
  <2>3. Moves(p)
    BY <1>0, <1>7 DEF DecideDuplicate, Moves, Executing
  <2> QED BY <2>2, <2>3, MovesKeepGate
<1>8. CASE DecideInterrupted(p)
  <2>1. /\ view'[p].status = "interrupted" /\ view'[p].workflowId = view[p].workflowId
        /\ at'[p] = "stop" /\ UNCHANGED <<run, exec, life>> /\ run[view[p].workflowId] # NoRun
    <3>1. view[p] \in Run /\ view'[p] = [view[p] EXCEPT !.status = "interrupted"]
      BY <1>8 DEF DecideInterrupted
    <3>2. run[view[p].workflowId] # NoRun
      BY <1>8 DEF DecideInterrupted, Gate, ViewAllowed
    <3> QED BY <1>8, <3>1, <3>2, RunFields, StatusNames DEF DecideInterrupted
  <2>2. ViewAllowed(p)'
    BY <2>1 DEF ViewAllowed
  <2>3. Moves(p)
    BY <1>0, <1>8 DEF DecideInterrupted, Moves, Executing
  <2> QED BY <2>2, <2>3, MovesKeepGate
<1>9. CASE DecideResume(p)
  <2>1. /\ view'[p].owner = p /\ view'[p].workflowId = view[p].workflowId
        /\ at'[p] = "unlink" /\ UNCHANGED <<run, exec, life>> /\ run[view[p].workflowId] # NoRun
        /\ view[p].owner \in Processes /\ view[p].workflowId \in Workflows
    <3>1. view[p] \in Run /\ view'[p] = [view[p] EXCEPT !.owner = p]
      BY <1>9 DEF DecideResume
    <3>2. run[view[p].workflowId] # NoRun
      BY <1>9 DEF DecideResume, Gate, ViewAllowed
    <3>3. view[p].owner \in Processes /\ view[p].workflowId \in Workflows
      BY <3>1 DEF Run
    <3> QED BY <1>9, <3>1, <3>2, <3>3, RunFields DEF DecideResume
  <2>2. view[p].status = "running" /\ ~Live(view[p].owner)
    BY <1>9, <2>1, LiveOwnerFound DEF DecideResume, Abandoned, Gate
  <2>3. \A q \in Processes : Live(q) => ~Executing(view[p].workflowId, q)
    BY <1>9, <2>1, <2>2 DEF DecideResume, Gate, ViewAllowed
  <2>4. ViewAllowed(p)'
    BY <2>1, <2>3 DEF ViewAllowed, Live, Executing
  <2>5. Moves(p)
    BY <1>0, <1>9 DEF DecideResume, Moves, Executing
  <2> QED BY <2>4, <2>5, MovesKeepGate
<1>10. CASE PersistDuplicate(p) \/ PersistInterrupted(p)
  <2>1. ViewAllowed(p)'
    BY <1>10 DEF PersistDuplicate, PersistInterrupted, ViewAllowed
  <2>2. Moves(p)
    BY <1>0, <1>10 DEF PersistDuplicate, PersistInterrupted, Finish, Moves, Executing
  <2> QED BY <2>1, <2>2, MovesKeepGate
<1>11. CASE UnlinkClaim(p) \/ InspectClaim(p) \/ OpenClaim(p) \/ FillClaim(p)
  <2>1. ViewAllowed(p) /\ at[p] \in {"unlink", "inspect", "open", "fill"}
        /\ at'[p] \in {"inspect", "open", "fill", "persist"}
        /\ UNCHANGED <<view, exec, life, run>>
    BY <1>11 DEF UnlinkClaim, InspectClaim, OpenClaim, FillClaim, Gate
  <2>2. ViewAllowed(p)'
    BY <2>1 DEF ViewAllowed, Live, Executing
  <2>3. Moves(p)
    BY <1>0, <1>11 DEF UnlinkClaim, InspectClaim, OpenClaim, FillClaim, Moves, Executing
  <2> QED BY <2>2, <2>3, MovesKeepGate
<1>12. CASE PersistClaimed(p)
  <2>1. ViewAllowed(p)
    BY DEF Gate
  <2>2. /\ view[p] # NoRun /\ at[p] = "persist" /\ at'[p] = "key"
        /\ run'[view[p].workflowId] = view[p] /\ UNCHANGED <<view, exec, life>>
    BY <1>12, Written DEF PersistClaimed
  <2>3. ViewAllowed(p)'
    BY <2>1, <2>2 DEF ViewAllowed, Live, Executing
  <2>4. Moves(p)
    BY <1>0, <1>12 DEF PersistClaimed, Moves, Executing
  <2> QED BY <2>3, <2>4, MovesKeepGate
<1>13. CASE WriteLink(p)
  <2> DEFINE w == view[p].workflowId
  <2>1. /\ Live(p) /\ at[p] = "key" /\ ViewAllowed(p) /\ w \in Workflows /\ mutex = p
        /\ run[w] # NoRun /\ (run[w].status = "running" => run[w].owner = p)
        /\ \A q \in Processes : Live(q) => ~Executing(w, q)
    <3>1. Live(p) /\ at[p] = "key" /\ ViewAllowed(p) /\ mutex = p
      BY <1>0, <1>13 DEF WriteLink, Gate
    <3>2. w \in Workflows
      BY <3>1 DEF Run
    <3> QED BY <3>1, <3>2 DEF ViewAllowed
  <2>2. /\ exec' = [exec EXCEPT ![w][p] = "accepted"] /\ UNCHANGED <<life, run>>
        /\ link' = [link EXCEPT ![ask[p].idempotencyKey] = w]
        /\ at' = [at EXCEPT ![p] = "idle"] /\ mutex' = Nobody
        /\ \A q \in Processes \ {p} : view'[q] = view[q]
    BY <1>13 DEF WriteLink, Finish
  <2> HIDE DEF w
  <2>3. \A v \in Workflows, q \in Processes :
          exec'[v][q] = IF v = w /\ q = p THEN "accepted" ELSE exec[v][q]
    BY <2>1, <2>2
  <2>4. \A v \in Workflows, q \in Processes :
          Executing(v, q)' => Executing(v, q) \/ (v = w /\ q = p)
    <3> SUFFICES ASSUME NEW v \in Workflows, NEW q \in Processes, Executing(v, q)',
                        ~(v = w /\ q = p)
                 PROVE  Executing(v, q)
      OBVIOUS
    <3>1. exec'[v][q] = exec[v][q]
      BY <2>3
    <3> QED BY <3>1 DEF Executing
  <2>5. DistinctPids' /\ DeadIsDown' /\ Unstarted'
    BY <2>1, <2>2, <2>3 DEF Gate, DistinctPids, DeadIsDown, Unstarted, Live
  <2>6. MutexHeld'
    BY <2>1, <2>2 DEF Gate, MutexHeld
  <2>7. Filed'
    BY <2>1, <2>2 DEF Gate, Filed
  <2>8. OneExecutor'
    BY <2>1, <2>2, <2>4 DEF Gate, OneExecutor, Live
  <2>9. RunNamesExecutor'
    BY <2>1, <2>2, <2>4 DEF Gate, RunNamesExecutor, Live
  <2>10. ViewAllowed(p)'
    BY <2>2 DEF ViewAllowed
  <2>11. ASSUME NEW r \in Processes, r # p PROVE ViewAllowed(r)'
    <3>1. /\ at'[r] = at[r] /\ view'[r] = view[r] /\ ViewAllowed(r) /\ at[r] \notin WithRequest
      BY <2>1, <2>2, <2>11 DEF Gate, MutexHeld
    <3>2. CASE at[r] \notin WithRecord
      BY <3>1, <3>2 DEF ViewAllowed
    <3>3. CASE at[r] \in WithRecord
      <4>1. PICK v \in Workflows : v = view[r].workflowId
        BY <3>3 DEF Run
      <4>2. at[r] = "step" => v # w
        BY <2>1, <2>2, <3>1, <4>1 DEF ViewAllowed, Gate, DeadIsDown
      <4>3. Executing(v, r)' <=> Executing(v, r)
        BY <2>3, <2>11 DEF Executing
      <4>4. \A q \in Processes : at[r] = "step" /\ Live(q)' /\ Executing(v, q)' =>
              Live(q) /\ Executing(v, q)
        BY <2>2, <2>4, <4>2 DEF Live
      <4> QED BY <2>2, <3>1, <3>3, <4>1, <4>3, <4>4 DEF ViewAllowed
    <3> QED BY <3>2, <3>3
  <2> QED BY <2>5, <2>6, <2>7, <2>8, <2>9, <2>10, <2>11 DEF Gate
<1> QED BY <1>1, <1>2, <1>3, <1>4, <1>5, <1>6, <1>7, <1>8, <1>9, <1>10, <1>11, <1>12, <1>13
        DEF BeginStep

(* An executor writes what it has just read, with more steps or an end.    *)
LEMMA ExecuteKeepsGate ==
  ASSUME SharedInv, TypeInv', NEW p \in Processes, Execute(p)
  PROVE  Gate'
<1> USE NoRunAssumption DEF SharedInv, TypeInv, Held, TypeOK, Goto, WithRequest, WithRecord, Places,
        Claiming
<1>1. ASSUME NEW w \in Workflows, NEW s \in StepIds, ReadForStep(p, w, s) PROVE Gate'
  <2>1. run[w] \in Run /\ run[w].workflowId = w
    BY <1>1 DEF ReadForStep, Gate, Filed
  <2>2. /\ view'[p].workflowId = w /\ view'[p].owner = run[w].owner
        /\ view'[p].status = run[w].status
        /\ Executing(w, p) /\ at'[p] = "step" /\ UNCHANGED <<life, run, exec>>
    BY <1>1, <2>1, RunFields DEF ReadForStep
  <2>3. ViewAllowed(p)'
    BY <1>1, <2>2 DEF ReadForStep, ViewAllowed, Gate, RunNamesExecutor, Live, Executing
  <2>4. Moves(p)
    BY <1>1 DEF ReadForStep, Moves, Executing
  <2> QED BY <2>3, <2>4, MovesKeepGate
<1>2. ASSUME NEW w \in Workflows, NEW status \in {"completed", "failed"},
             ReadForMark(p, w, status)
      PROVE  Gate'
  <2>1. run[w] \in Run /\ run[w].workflowId = w
    BY <1>2 DEF ReadForMark, Gate, Filed
  <2>2. /\ view'[p].workflowId = w /\ view'[p].status = status
        /\ at'[p] = "mark" /\ UNCHANGED <<life, run>> /\ run[w] # NoRun
    BY <1>2, <2>1, RunFields, StatusNames DEF ReadForMark
  <2>3. ViewAllowed(p)'
    BY <2>2 DEF ViewAllowed
  <2>4. PICK e : exec' = [exec EXCEPT ![w][p] = e]
    BY <1>2 DEF ReadForMark
  <2>5. Executing(w, p)
    BY <1>2 DEF ReadForMark, Executing
  <2>6. /\ \A v \in Workflows : \A q \in Processes \ {p} : exec'[v][q] = exec[v][q]
        /\ \A v \in Workflows : Executing(v, p)' => Executing(v, p)
    BY <2>4, <2>5 DEF Executing
  <2>7. Moves(p)
    BY <1>2, <2>6 DEF ReadForMark, Moves
  <2> QED BY <2>3, <2>7, MovesKeepGate
<1>3. ASSUME NEW w \in Workflows, Effect(p, w) PROVE Gate'
  <2>1. ViewAllowed(p)'
    BY <1>3 DEF Effect, ViewAllowed
  <2>2. Moves(p)
    BY <1>3 DEF Effect, Moves, Executing
  <2> QED BY <2>1, <2>2, MovesKeepGate
<1>4. CASE WriteStep(p)
  <2>1. view[p].workflowId \in Workflows /\ at[p] = "step" /\ at'[p] = "idle"
    BY <1>4 DEF WriteStep, Run
  <2>2. ViewAllowed(p)'
    BY <2>1 DEF ViewAllowed
  <2>3. PICK e : /\ exec' = [exec EXCEPT ![view[p].workflowId][p] = e]
                 /\ e \in {"armed", exec[view[p].workflowId][p]}
                 /\ e = "armed" => exec[view[p].workflowId][p] \in {"accepted", "armed"}
    BY <1>4 DEF WriteStep
  <2>4. /\ \A v \in Workflows : \A q \in Processes \ {p} : exec'[v][q] = exec[v][q]
        /\ \A v \in Workflows : Executing(v, p)' => Executing(v, p)
    BY <2>1, <2>3 DEF Executing
  <2>5. Moves(p)
    BY <1>4, <2>4 DEF WriteStep, Moves
  <2> QED BY <2>2, <2>5, MovesKeepGate
<1>5. CASE WriteMark(p)
  <2>1. ViewAllowed(p)
    BY DEF Gate
  <2>2. /\ view[p] # NoRun /\ at[p] = "mark" /\ at'[p] = "unclaim"
        /\ run'[view[p].workflowId] = view[p] /\ UNCHANGED <<view, exec, life>>
    BY <1>5, Written DEF WriteMark
  <2>3. ViewAllowed(p)'
    BY <2>1, <2>2 DEF ViewAllowed
  <2>4. Moves(p)
    BY <1>5 DEF WriteMark, Moves, Executing
  <2> QED BY <2>3, <2>4, MovesKeepGate
<1>6. CASE Unclaim(p)
  <2>1. ViewAllowed(p)'
    BY <1>6 DEF Unclaim, ViewAllowed
  <2>2. Moves(p)
    BY <1>6 DEF Unclaim, Moves, Executing
  <2> QED BY <2>1, <2>2, MovesKeepGate
<1> QED BY <1>1, <1>2, <1>3, <1>4, <1>5, <1>6 DEF Execute

(* A process that starts executes nothing, and one that dies nothing any   *)
(* more.                                                                   *)
LEMMA LifeKeepsGate ==
  ASSUME \A x, y \in Processes : NsOf[x] = NsOf[y],
         SharedInv, TypeInv', NEW p \in Processes, Start(p) \/ Crash(p)
  PROVE  Gate'
<1> USE NoRunAssumption DEF SharedInv, TypeInv, Held, TypeOK, WithRequest, WithRecord, Places,
        Claiming, Live
<1>1. /\ UNCHANGED <<run, link, exec>>
      /\ \A q \in Processes \ {p} : life'[q] = life[q] /\ at'[q] = at[q] /\ view'[q] = view[q]
      /\ at'[p] \in {"scan", "idle", "down"}
  BY DEF Start, Crash
<1>2. \A w \in Workflows, q \in Processes :
        Live(q)' /\ Executing(w, q)' => Live(q) /\ Executing(w, q)
  BY <1>1 DEF Start, Crash, Executing, Gate, Unstarted
<1>3. DistinctPids'
  BY <1>1 DEF Start, Crash, Gate, DistinctPids
<1>4. DeadIsDown' /\ Unstarted'
  <2>1. CASE Start(p)
    BY <2>1 DEF Start, Gate, DeadIsDown, Unstarted
  <2>2. CASE Crash(p)
    BY <2>2 DEF Crash, Gate, DeadIsDown, Unstarted
  <2> QED BY <2>1, <2>2
<1>5. MutexHeld'
  BY <1>1 DEF Start, Crash, Gate, MutexHeld
<1>6. Filed'
  BY <1>1 DEF Gate, Filed
<1>7. OneExecutor' /\ RunNamesExecutor'
  BY <1>1, <1>2 DEF Gate, OneExecutor, RunNamesExecutor
<1>8. ViewAllowed(p)'
  BY <1>1 DEF ViewAllowed
<1>9. ASSUME NEW r \in Processes, r # p PROVE ViewAllowed(r)'
  <2>1. CASE at[r] \notin WithRecord
    BY <1>1, <1>9, <2>1 DEF ViewAllowed
  <2>2. CASE at[r] \in WithRecord
    <3>1. PICK w \in Workflows : w = view[r].workflowId
      BY <2>2 DEF Run
    <3>2. Executing(w, r)' <=> Executing(w, r)
      BY <1>1 DEF Executing
    <3> QED BY <1>1, <1>2, <1>9, <2>2, <3>1, <3>2 DEF ViewAllowed, Gate
  <2> QED BY <2>1, <2>2
<1> QED BY <1>3, <1>4, <1>5, <1>6, <1>7, <1>8, <1>9 DEF Gate

(* Two live processes never execute one workflow, though neither the       *)
(* startup scan nor status writes take the claims mutex, whatever records  *)
(* they write over each other: provided that they share a pid namespace,   *)
(* without which a live owner is taken for a dead one.                     *)
THEOREM ExecutesAlone ==
  ASSUME \A x, y \in Processes : NsOf[x] = NsOf[y]
  PROVE  Spec => []OneExecutor
<1>1. Init => SharedInv
  BY DEF Init, SharedInv, Gate, DistinctPids, DeadIsDown, Unstarted, MutexHeld, Filed, OneExecutor,
         RunNamesExecutor, ViewAllowed, Claiming, Executing, Live, TypeInv, TypeOK, Held, Places,
         WithRequest, WithRecord, Replies, Progress
<1>2. SharedInv /\ [Next]_vars => SharedInv'
  <2> SUFFICES ASSUME SharedInv, [Next]_vars PROVE Gate'
    BY TypeStep DEF SharedInv
  <2>1. TypeInv'
    BY TypeStep DEF SharedInv
  <2>2. CASE UNCHANGED vars
    <3>1. UNCHANGED <<life, mutex, run, link, at, view, exec>>
      BY <2>2 DEF vars
    <3>2. DistinctPids' /\ DeadIsDown' /\ Unstarted' /\ MutexHeld' /\ Filed'
      BY <3>1 DEF SharedInv, Gate, DistinctPids, DeadIsDown, Unstarted, MutexHeld, Filed, Live
    <3>3. OneExecutor' /\ RunNamesExecutor'
      BY <3>1 DEF SharedInv, Gate, OneExecutor, RunNamesExecutor, Live, Executing
    <3>4. ASSUME NEW r \in Processes PROVE ViewAllowed(r)'
      <4>1. /\ life' = life /\ run' = run /\ at' = at /\ view' = view /\ exec' = exec
        BY <3>1
      <4>2. ViewAllowed(r)
        BY DEF SharedInv, Gate
      <4> QED BY <4>1, <4>2, Zenon DEF ViewAllowed, Live, Executing
    <3> QED BY <3>2, <3>3, <3>4 DEF Gate
  <2> QED BY <2>1, <2>2, ScanKeepsGate, BeginKeepsGate, ExecuteKeepsGate, LifeKeepsGate DEF Next
<1>3. SharedInv => OneExecutor
  BY DEF SharedInv, Gate
<1> QED BY <1>1, <1>2, <1>3, PTL DEF Spec
-----------------------------------------------------------------------------
(* Records keep their workflow, in either mode. *)

Same(r, s) == /\ r.workflowId = s.workflowId /\ r.idempotencyKey = s.idempotencyKey
              /\ r.conversationId = s.conversationId

BeforeFirstWrite == {"inspect", "open", "fill", "persist"}

(* However stale, the copy a process holds is of the request whose run is  *)
(* filed; and the key file it is going to write is not there yet, or says  *)
(* the same.                                                               *)
ViewTrue(p) == LET w == view[p].workflowId
                   k == ask[p].idempotencyKey IN
  /\ at[p] \in WithRecord /\ run[w] # NoRun => Same(view[p], run[w])
  /\ at[p] \in WithRecord \ BeforeFirstWrite => run[w] # NoRun
  /\ at[p] \in WithRequest \ {"read"} => link[k] = NoLink \/ link[k] = w
  /\ at[p] = "link" => link[k] = NoLink

IdInv == TypeInv /\ MutexHeld /\ Filed /\ \A p \in Processes : ViewTrue(p)

(* What a step may do to the files. *)
RunsStay == \A w \in Workflows : run[w] # NoRun =>
  /\ run'[w] # NoRun /\ Same(run'[w], run[w])
LinksStay == \A k \in Keys : link[k] # NoLink => link'[k] = link[k]

(* A step of p that writes no file but those of its record and request.    *)
Writes(p) ==
  /\ run' = run \/ (at[p] \in WithRecord /\ PersistRun(p))
  /\ \/ link' = link
     \/ /\ at[p] \in {"link", "key"}
        /\ link' = [link EXCEPT ![ask[p].idempotencyKey] = view[p].workflowId]
  /\ \A q \in Processes \ {p} : at'[q] = at[q] /\ view'[q] = view[q] /\ ask'[q] = ask[q]
  /\ mutex' = mutex \/ mutex \in {Nobody, p}
  /\ at'[p] \in WithRequest => mutex' = p

LEMMA WritesKeep ==
  ASSUME IdInv, NEW p \in Processes, Writes(p)
  PROVE  /\ RunsStay /\ LinksStay /\ Filed' /\ MutexHeld'
         /\ \A q \in Processes \ {p} : ViewTrue(q)'
<1> USE DEF IdInv
<1>1. /\ ViewTrue(p)
      /\ at[p] \in WithRecord => view[p] \in Run /\ view[p].workflowId \in Workflows
      /\ at[p] \in WithRequest => ask[p].idempotencyKey \in Keys
  BY DurableRunAssumption DEF TypeInv, Held, Run
<1>2. ASSUME run' # run
      PROVE  /\ at[p] \in WithRecord /\ view[p] # NoRun /\ view[p].workflowId \in Workflows
             /\ \A v \in Workflows :
                  run'[v] = IF v = view[p].workflowId THEN view[p] ELSE run[v]
  BY <1>2, Written DEF Writes
<1>3. RunsStay
  <2> SUFFICES ASSUME NEW w \in Workflows, run[w] # NoRun
               PROVE  run'[w] # NoRun /\ Same(run'[w], run[w])
    BY DEF RunsStay
  <2>1. CASE run'[w] = run[w]
    BY <2>1 DEF Same
  <2>2. CASE run'[w] # run[w]
    BY <1>1, <1>2, <2>2 DEF ViewTrue
  <2> QED BY <2>1, <2>2
<1>4. ASSUME NEW k \in Keys
      PROVE  \/ link'[k] = link[k]
             \/ /\ at[p] \in {"link", "key"} /\ k = ask[p].idempotencyKey
                /\ link'[k] = view[p].workflowId
  BY DEF Writes, TypeInv, TypeOK
<1>5. ASSUME NEW k \in Keys, link'[k] # link[k]
      PROVE  /\ at[p] \in {"link", "key"} /\ at[p] \in WithRequest /\ link[k] = NoLink
             /\ link'[k] = view[p].workflowId /\ link'[k] \in Workflows
             /\ run[link'[k]] # NoRun
  BY <1>1, <1>4, <1>5 DEF ViewTrue, WithRequest, WithRecord, Places, BeforeFirstWrite
<1>6. LinksStay
  BY <1>5 DEF LinksStay
<1>7. Filed'
  <2>1. ASSUME NEW v \in Workflows, run'[v] # NoRun PROVE run'[v].workflowId = v
    BY <1>2, <2>1 DEF Filed
  <2>2. ASSUME NEW k \in Keys, link'[k] # NoLink PROVE run'[link'[k]] # NoRun
    <3>1. link'[k] \in Workflows /\ run[link'[k]] # NoRun
      BY <1>5, <2>2 DEF Filed, TypeInv, TypeOK
    <3> QED BY <1>3, <3>1 DEF RunsStay
  <2> QED BY <2>1, <2>2 DEF Filed
<1>8. MutexHeld'
  BY DurableRunAssumption DEF Writes, MutexHeld
<1>9. ASSUME NEW q \in Processes \ {p} PROVE ViewTrue(q)'
  <2>1. at'[q] = at[q] /\ view'[q] = view[q] /\ ask'[q] = ask[q] /\ ViewTrue(q)
    BY DEF Writes
  <2> DEFINE w == view[q].workflowId
             k == ask[q].idempotencyKey
  <2>2. /\ at[q] \in WithRecord => view[q] \in Run /\ w \in Workflows
        /\ at[q] \in WithRequest => k \in Keys
    BY DurableRunAssumption DEF TypeInv, Held, Run
  <2>3. at[q] \in WithRequest => at[p] \notin WithRequest
    BY DEF MutexHeld
  <2>4. at[q] \in WithRequest => link'[k] = link[k]
    BY <1>5, <2>2, <2>3
  <2>5. at[q] \in WithRecord /\ run[w] # NoRun => run'[w] # NoRun /\ Same(run'[w], run[w])
    BY <1>3, <2>2 DEF RunsStay
  <2>6. ASSUME at[q] \in WithRecord, run[w] = NoRun PROVE run'[w] = NoRun
    <3>1. at[q] \in BeforeFirstWrite /\ at[q] \in WithRequest
      BY <2>1, <2>6 DEF ViewTrue, BeforeFirstWrite, WithRequest
    <3>2. at[p] \notin BeforeFirstWrite
      BY <2>3, <3>1 DEF BeforeFirstWrite, WithRequest
    <3>3. run' = run \/ (at[p] \in WithRecord /\ run[view[p].workflowId] # NoRun)
      BY <1>1, <1>2, <3>2 DEF ViewTrue
    <3> QED BY <1>2, <2>2, <2>6, <3>3
  <2>7. at[q] \in WithRecord /\ run'[w] # NoRun => Same(view[q], run'[w])
    BY <2>1, <2>5, <2>6 DEF ViewTrue, Same
  <2> HIDE DEF w, k
  <2>8. /\ at[q] \in WithRecord \ BeforeFirstWrite => run'[w] # NoRun
        /\ at[q] \in WithRequest \ {"read"} => link'[k] = NoLink \/ link'[k] = w
        /\ at[q] = "link" => link'[k] = NoLink
    BY <2>1, <2>4, <2>5 DEF ViewTrue, WithRequest, w, k
  <2> QED BY <2>1, <2>7, <2>8 DEF ViewTrue, w, k
<1> QED BY <1>3, <1>6, <1>7, <1>8, <1>9
(* What is left of a step: what the process itself holds after it.         *)
IdKept == IdInv' /\ RunsStay /\ LinksStay

LEMMA Keeping ==
  ASSUME IdInv, TypeInv', NEW p \in Processes, Writes(p), ViewTrue(p)'
  PROVE  IdKept
<1>1. \A q \in Processes : ViewTrue(q)'
  BY WritesKeep
<1> QED BY <1>1, WritesKeep DEF IdInv, IdKept

(* A record with other steps, another status or another owner is of the    *)
(* same request.                                                           *)
LEMMA SameRequest ==
  ASSUME NEW r \in Run
  PROVE  /\ \A s \in Statuses : Same([r EXCEPT !.status = s], r)
         /\ \A p \in Processes : Same([r EXCEPT !.owner = p], r)
         /\ \A s \in StepIds : Same([r EXCEPT !.steps = @ \cup {s}], r)
  BY DEF Run, Same

LEMMA ScanKeepsIdentity ==
  ASSUME IdInv, TypeInv', NEW p \in Processes, Reconcile(p)
  PROVE  IdKept
<1> USE DEF IdInv, TypeInv, TypeOK, Goto, WithRequest, WithRecord, Places, BeforeFirstWrite
<1>1. ASSUME NEW w \in Workflows, ScanRead(p, w) PROVE IdKept
  <2>1. Writes(p)
    BY <1>1 DEF ScanRead, Writes
  <2>2. CASE at' = [at EXCEPT ![p] = "scan"]
    <3>1. ViewTrue(p)'
      BY <2>2 DEF ViewTrue
    <3> QED BY <2>1, <3>1, Keeping
  <2>3. CASE /\ run[w] # NoRun /\ at' = [at EXCEPT ![p] = "scanWrite"]
             /\ view' = [view EXCEPT ![p] = [run[w] EXCEPT !.status = "interrupted"]]
    <3>1. run[w] \in Run /\ run[w].workflowId = w /\ run' = run
      BY <1>1, <2>3 DEF ScanRead, Filed
    <3>2. Same(view'[p], run[w]) /\ at'[p] = "scanWrite"
      BY <2>3, <3>1, SameRequest, StatusNames
    <3>3. ViewTrue(p)'
      BY <2>3, <3>1, <3>2 DEF ViewTrue, Same
    <3> QED BY <2>1, <3>3, Keeping
  <2> QED BY <1>1, <2>2, <2>3 DEF ScanRead
<1>2. CASE ScanWrite(p) \/ ScanDone(p)
  <2>1. ViewTrue(p)'
    BY <1>2 DEF ScanWrite, ScanDone, ViewTrue
  <2>2. Writes(p)
    BY <1>2 DEF ScanWrite, ScanDone, Writes
  <2> QED BY <2>1, <2>2, Keeping
<1> QED BY <1>1, <1>2 DEF Reconcile

LEMMA BeginKeepsIdentity ==
  ASSUME IdInv, TypeInv', NEW p \in Processes,
         BeginStep(p) \/ BeginBusy(p) \/ \E r \in Requests : Begin(p, r)
  PROVE  IdKept
<1> USE NoRunAssumption
    DEF IdInv, TypeInv, Held, TypeOK, Goto, WithRequest, WithRecord, Places, BeforeFirstWrite
<1>1. ViewTrue(p) /\ (at[p] \in WithRequest => mutex = p)
  BY DEF MutexHeld
<1>2. CASE BeginBusy(p) \/ \E r \in Requests : Begin(p, r)
  <2>1. ViewTrue(p)'
    BY <1>2 DEF BeginBusy, Begin, ViewTrue
  <2>2. Writes(p)
    BY <1>2 DEF BeginBusy, Begin, Writes
  <2> QED BY <2>1, <2>2, Keeping
<1>3. CASE ReadConflict(p) \/ InspectTorn(p) \/ OpenActive(p)
  <2>1. ViewTrue(p)'
    BY <1>3 DEF ReadConflict, InspectTorn, OpenActive, ViewTrue
  <2>2. Writes(p)
    BY <1>1, <1>3 DEF ReadConflict, InspectTorn, OpenActive, Finish, Writes
  <2> QED BY <2>1, <2>2, Keeping
<1>4. CASE ReadExisting(p)
  <2> DEFINE k == ask[p].idempotencyKey
             w == IF link[k] # NoLink THEN link[k] ELSE ask[p].workflowId
  <2>1. k \in Keys /\ w \in Workflows /\ run[w] # NoRun /\ run[w].workflowId = w
        /\ link[k] \in {NoLink, w}
    <3>1. ask[p] \in Requests /\ k \in Keys /\ ask[p].workflowId \in Workflows
      BY <1>4, DurableRunAssumption DEF ReadExisting
    <3> QED BY <1>4, <3>1 DEF ReadExisting, Existing, Filed
  <2>2. /\ view'[p] = run[w] /\ at'[p] = IF link[k] = NoLink THEN "link" ELSE "decide"
        /\ ask' = ask /\ run' = run /\ link' = link
    BY <1>4 DEF ReadExisting, Existing
  <2> HIDE DEF w
  <2>3. ViewTrue(p)'
    BY <2>1, <2>2 DEF ViewTrue, Same
  <2>4. Writes(p)
    BY <1>1, <1>4 DEF ReadExisting, Writes
  <2> QED BY <2>3, <2>4, Keeping
<1>5. CASE ReadFresh(p)
  <2>1. ask[p] \in Requests /\ ask[p].workflowId \in Workflows /\ ask[p].idempotencyKey \in Keys
    BY <1>5, DurableRunAssumption DEF ReadFresh
  <2>2. link[ask[p].idempotencyKey] = NoLink /\ run[ask[p].workflowId] = NoRun
    BY <1>5, <2>1 DEF ReadFresh, Existing, Filed
  <2>3. /\ view'[p].workflowId = ask[p].workflowId /\ at'[p] = "inspect"
        /\ ask' = ask /\ run' = run /\ link' = link
    BY <1>5 DEF ReadFresh
  <2>4. ViewTrue(p)'
    BY <2>2, <2>3 DEF ViewTrue
  <2>5. Writes(p)
    BY <1>1, <1>5 DEF ReadFresh, Writes
  <2> QED BY <2>4, <2>5, Keeping
<1>6. CASE WriteMissingLink(p)
  <2>1. ask[p].idempotencyKey \in Keys
    BY <1>6, DurableRunAssumption DEF WriteMissingLink
  <2>2. ViewTrue(p)'
    BY <1>1, <1>6, <2>1 DEF WriteMissingLink, ViewTrue
  <2>3. Writes(p)
    BY <1>1, <1>6 DEF WriteMissingLink, Writes
  <2> QED BY <2>2, <2>3, Keeping
<1>7. CASE DecideDuplicate(p) \/ UnlinkClaim(p) \/ InspectClaim(p) \/ OpenClaim(p) \/ FillClaim(p)
  <2>1. ViewTrue(p)'
    BY <1>1, <1>7 DEF DecideDuplicate, UnlinkClaim, InspectClaim, OpenClaim, FillClaim, ViewTrue
  <2>2. Writes(p)
    BY <1>1, <1>7 DEF DecideDuplicate, UnlinkClaim, InspectClaim, OpenClaim, FillClaim, Writes
  <2> QED BY <2>1, <2>2, Keeping
<1>8. CASE DecideInterrupted(p) \/ DecideResume(p)
  <2>1. /\ view[p] \in Run /\ at[p] = "decide" /\ at'[p] \in {"stop", "unlink"}
        /\ ask' = ask /\ run' = run /\ link' = link
    BY <1>8 DEF DecideInterrupted, DecideResume
  <2>2. Same(view'[p], view[p])
    BY <1>8, <2>1, SameRequest, StatusNames DEF DecideInterrupted, DecideResume
  <2>3. ViewTrue(p)'
    BY <1>1, <2>1, <2>2 DEF ViewTrue, Same
  <2>4. Writes(p)
    BY <1>1, <1>8 DEF DecideInterrupted, DecideResume, Writes
  <2> QED BY <2>3, <2>4, Keeping
<1>9. CASE PersistDuplicate(p) \/ PersistInterrupted(p)
  <2>1. ViewTrue(p)'
    BY <1>9 DEF PersistDuplicate, PersistInterrupted, ViewTrue
  <2>2. Writes(p)
    BY <1>1, <1>9 DEF PersistDuplicate, PersistInterrupted, Finish, Writes
  <2> QED BY <2>1, <2>2, Keeping
<1>10. CASE PersistClaimed(p)
  <2>1. /\ view[p] # NoRun /\ at[p] = "persist" /\ at'[p] = "key"
        /\ run'[view[p].workflowId] = view[p]
        /\ view' = view /\ ask' = ask /\ link' = link
    BY <1>10, Written DEF PersistClaimed
  <2>2. ViewTrue(p)'
    BY <1>1, <2>1 DEF ViewTrue, Same
  <2>3. Writes(p)
    BY <1>1, <1>10 DEF PersistClaimed, Writes
  <2> QED BY <2>2, <2>3, Keeping
<1>11. CASE WriteLink(p)
  <2>1. ViewTrue(p)'
    BY <1>11 DEF WriteLink, ViewTrue
  <2>2. Writes(p)
    BY <1>1, <1>11 DEF WriteLink, Finish, Writes
  <2> QED BY <2>1, <2>2, Keeping
<1> QED BY <1>2, <1>3, <1>4, <1>5, <1>6, <1>7, <1>8, <1>9, <1>10, <1>11 DEF BeginStep

LEMMA ExecuteKeepsIdentity ==
  ASSUME IdInv, TypeInv', NEW p \in Processes, Execute(p)
  PROVE  IdKept
<1> USE NoRunAssumption
    DEF IdInv, TypeInv, Held, TypeOK, Goto, WithRequest, WithRecord, Places, BeforeFirstWrite
<1>1. ASSUME NEW w \in Workflows, NEW s \in StepIds, ReadForStep(p, w, s) PROVE IdKept
  <2>1. run[w] \in Run /\ run[w].workflowId = w
    BY <1>1 DEF ReadForStep, Filed
  <2>2. Same(view'[p], run[w]) /\ at'[p] = "step" /\ run' = run /\ run[w] # NoRun
    BY <1>1, <2>1, SameRequest DEF ReadForStep
  <2>3. ViewTrue(p)'
    BY <2>1, <2>2 DEF ViewTrue, Same
  <2>4. Writes(p)
    BY <1>1 DEF ReadForStep, Writes
  <2> QED BY <2>3, <2>4, Keeping
<1>2. ASSUME NEW w \in Workflows, NEW status \in {"completed", "failed"},
             ReadForMark(p, w, status)
      PROVE  IdKept
  <2>1. run[w] \in Run /\ run[w].workflowId = w
    BY <1>2 DEF ReadForMark, Filed
  <2>2. Same(view'[p], run[w]) /\ at'[p] = "mark" /\ run' = run /\ run[w] # NoRun
    BY <1>2, <2>1, SameRequest, StatusNames DEF ReadForMark
  <2>3. ViewTrue(p)'
    BY <2>1, <2>2 DEF ViewTrue, Same
  <2>4. Writes(p)
    BY <1>2 DEF ReadForMark, Writes
  <2> QED BY <2>3, <2>4, Keeping
<1>3. ASSUME NEW w \in Workflows, Effect(p, w) PROVE IdKept
  <2>1. ViewTrue(p)'
    BY <1>3 DEF Effect, ViewTrue
  <2>2. Writes(p)
    BY <1>3 DEF Effect, Writes
  <2> QED BY <2>1, <2>2, Keeping
<1>4. CASE WriteStep(p) \/ Unclaim(p)
  <2>1. ViewTrue(p)'
    BY <1>4 DEF WriteStep, Unclaim, ViewTrue
  <2>2. Writes(p)
    BY <1>4 DEF WriteStep, Unclaim, Writes
  <2> QED BY <2>1, <2>2, Keeping
<1>5. CASE WriteMark(p)
  <2>1. /\ view[p] # NoRun /\ at[p] = "mark" /\ at'[p] = "unclaim"
        /\ run'[view[p].workflowId] = view[p] /\ view' = view
    BY <1>5, Written DEF WriteMark
  <2>2. ViewTrue(p)'
    BY <2>1 DEF ViewTrue, Same
  <2>3. Writes(p)
    BY <1>5 DEF WriteMark, Writes
  <2> QED BY <2>2, <2>3, Keeping
<1> QED BY <1>1, <1>2, <1>3, <1>4, <1>5 DEF Execute

(* Whatever stale records processes that share the files write over each   *)
(* other, whichever pids and namespaces they see, no workflow passes to    *)
(* another request and no key file is redirected.                          *)
THEOREM WorkflowsStayTheirs == Spec => IdentityStable
<1> DEFINE Stays ==
      /\ \A w \in Workflows : run[w] # NoRun =>
           /\ run'[w] # NoRun
           /\ run'[w].idempotencyKey = run[w].idempotencyKey
           /\ run'[w].conversationId = run[w].conversationId
      /\ \A k \in Keys : link[k] # NoLink => link'[k] = link[k]
<1>1. Init => IdInv
  BY DEF Init, IdInv, TypeInv, TypeOK, Held, Places, WithRequest, WithRecord, Replies, Progress,
         MutexHeld, Filed, ViewTrue, BeforeFirstWrite
<1>2. IdInv /\ [Next]_vars => IdKept
  <2> SUFFICES ASSUME IdInv, [Next]_vars PROVE IdKept
    OBVIOUS
  <2>1. TypeInv'
    BY TypeStep DEF IdInv
  <2>2. CASE UNCHANGED vars
    <3>1. UNCHANGED <<mutex, run, link, at, ask, view>>
      BY <2>2 DEF vars
    <3>2. MutexHeld' /\ Filed' /\ RunsStay /\ LinksStay
      BY <3>1 DEF IdInv, MutexHeld, Filed, RunsStay, LinksStay, Same
    <3>3. ASSUME NEW r \in Processes PROVE ViewTrue(r)'
      BY <3>1 DEF IdInv, ViewTrue
    <3> QED BY <2>1, <3>2, <3>3 DEF IdInv, IdKept
  <2>3. ASSUME NEW p \in Processes, Start(p) \/ Crash(p) PROVE IdKept
    <3>1. ViewTrue(p)'
      BY <2>3 DEF Start, Crash, ViewTrue, IdInv, TypeInv, TypeOK, WithRecord, WithRequest
    <3>2. Writes(p)
      BY <2>3 DEF Start, Crash, Writes, IdInv, TypeInv, TypeOK, WithRequest
    <3> QED BY <2>1, <3>1, <3>2, Keeping
  <2> QED BY <2>1, <2>2, <2>3, ScanKeepsIdentity, BeginKeepsIdentity, ExecuteKeepsIdentity DEF Next
<1>3. IdKept => IdInv' /\ Stays
  BY DEF IdKept, RunsStay, LinksStay, Same
<1> QED BY <1>1, <1>2, <1>3, PTL DEF Spec, IdentityStable
=============================================================================
