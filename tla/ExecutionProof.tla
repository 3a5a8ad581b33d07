---------------------------- MODULE ExecutionProof ----------------------------
(***************************************************************************)
(* Proofs about Execution for every number of messages, incarnations,      *)
(* faults and attempts. Inv is what every mode shares; the theorems that   *)
(* need one mode of the server (no cancelJob) say so, and each adds a part *)
(* of its own.                                                             *)
(***************************************************************************)
EXTENDS Execution, TLAPS

(* A job that may still be processed has attempts left, and the lock is    *)
(* held for an active job, or for the one whose failure is being reported. *)
Retries == \A m \in Messages :
  /\ job[m] \in {"none", "waiting", "active"} => tries[m] < MaxAttempts
  /\ lock = m => job[m] = "active" \/ wstep = "event"

(* An execution runs for the one caller that waits for it, on a run this   *)
(* incarnation owns; it acts after it was armed and answers once.          *)
Executing == \A m \in Messages :
  /\ \A c \in Callers :
       /\ exec[c][m] # "none" => run[m] = "running" /\ owner[m] = epoch
       /\ exec[c][m] \in {"accepted", "acting"} => answers[m] = 0
       /\ exec[c][m] = "accepted" => ~armed[m]
       /\ exec[c][m] \in {"acting", "answered"} => armed[m]
       /\ exec[c][m] = "answered" => answers[m] = 1
  /\ exec["worker"][m] # "none" => work = m /\ wstep = "running"
  /\ exec["direct"][m] # "none" => direct[m] = "running"
  /\ exec["worker"][m] = "none" \/ exec["direct"][m] = "none"

(* What the durable run says of the conversation: nothing was answered     *)
(* before it was armed, a completed run was, an open one has no notice.    *)
Ledgered == \A m \in Messages :
  /\ run[m] = "absent" => ~armed[m]
  /\ ~armed[m] => answers[m] = 0
  /\ run[m] = "completed" => answers[m] = 1
  /\ run[m] \in {"absent", "running"} => notices[m] = 0
  /\ answers[m] <= 1 /\ notices[m] <= 1
  /\ run[m] # "absent" => owner[m] \in 1..epoch
  /\ m \in found => run[m] = "interrupted"

(* Every action keeps the types. *)
LEMMA TypeStep ==
  ASSUME TypeOK, Retries, Executing, Ledgered, [Next]_vars
  PROVE  TypeOK'
<1> USE ExecutionAssumption
    DEF TypeOK, Callers, Adders, Closed, Outcomes, All, Serving, Fault, Advance,
        process, http, redis, client, flush, worker, ledger, chat,
        WorkerAt, WorkerGoes, WorkerThrows, WorkerRests, Running, Called, Resumable,
        CallerWaits, CallerReturns, CallerThrows
<1>1. CASE UNCHANGED vars
  BY <1>1 DEF vars
<1>2. CASE Start
  BY <1>2 DEF Start
<1>3. ASSUME NEW m \in Messages, RecoverRun(m) PROVE TypeOK'
  BY <1>3 DEF RecoverRun
<1>4. ASSUME NEW m \in Messages, RecoverChat(m) PROVE TypeOK'
  BY <1>4 DEF RecoverChat
<1>5. CASE Serve
  BY <1>5 DEF Serve
<1>6. CASE Crash
  BY <1>6 DEF Crash
<1>7. CASE InitQueue
  BY <1>7 DEF InitQueue
<1>8. CASE InitQueueFails
  BY <1>8 DEF InitQueueFails
<1>9. CASE Outage
  <2>1. redisUp' \in BOOLEAN
    BY <1>9 DEF Outage
  <2>2. faults' \in 0..MaxFaults
    BY <1>9 DEF Outage
  <2> QED BY <1>9, <2>1, <2>2 DEF Outage
<1>10. CASE RedisBack
  BY <1>10 DEF RedisBack
<1>11. CASE RefreshAvailability
  BY <1>11 DEF RefreshAvailability
<1>12. ASSUME NEW m \in Messages, SaveMessage(m) PROVE TypeOK'
  BY <1>12 DEF SaveMessage
<1>13. ASSUME NEW m \in Messages, PersistAdmission(m) PROVE TypeOK'
  BY <1>13 DEF PersistAdmission
<1>14. ASSUME NEW m \in Messages, Acknowledge(m) PROVE TypeOK'
  BY <1>14 DEF Acknowledge
<1>15. ASSUME NEW m \in Messages, PostAdded(m) PROVE TypeOK'
  BY <1>15 DEF PostAdded
<1>16. ASSUME NEW m \in Messages, PostRefused(m) PROVE TypeOK'
  BY <1>16 DEF PostRefused
<1>17. ASSUME NEW c \in Adders, NEW m \in Messages, ApplyAdd(c, m) PROVE TypeOK'
  BY <1>17 DEF ApplyAdd
<1>18. CASE FlushStart
  <2>1. flushing' \in BOOLEAN /\ todo' \subseteq Messages
    BY <1>18 DEF FlushStart, Unfinished
  <2> QED BY <1>18, <2>1 DEF FlushStart
<1>19. ASSUME NEW m \in Messages, FlushNext(m) PROVE TypeOK'
  BY <1>19 DEF FlushNext
<1>20. ASSUME NEW m \in Messages, FlushAdded(m) PROVE TypeOK'
  BY <1>20 DEF FlushAdded
<1>21. ASSUME NEW m \in Messages, FlushRefused(m) PROVE TypeOK'
  BY <1>21 DEF FlushRefused
<1>22. CASE FlushEnd
  <2>1. flushing' \in BOOLEAN
    BY <1>22 DEF FlushEnd
  <2> QED BY <1>22, <2>1 DEF FlushEnd
<1>23. ASSUME NEW m \in Messages, CancelRemove(m) PROVE TypeOK'
  BY <1>23 DEF CancelRemove
<1>42. ASSUME NEW m \in Messages, CancelActive(m) PROVE TypeOK'
  <2>1. tries[m] + 1 \in 0..MaxAttempts
    BY <1>42 DEF CancelActive, Retries
  <2> QED BY <1>42, <2>1 DEF CancelActive
<1>24. ASSUME NEW m \in Messages, CancelMark(m) PROVE TypeOK'
  BY <1>24 DEF CancelMark
<1>25. ASSUME NEW m \in Messages, LoseJob(m) PROVE TypeOK'
  BY <1>25 DEF LoseJob
<1>26. ASSUME NEW m \in Messages, Take(m) PROVE TypeOK'
  BY <1>26 DEF Take
<1>27. ASSUME NEW m \in Messages, CheckAdmission(m) PROVE TypeOK'
  BY <1>27 DEF CheckAdmission
<1>28. ASSUME NEW m \in Messages, ReportStarted(m) PROVE TypeOK'
  BY <1>28 DEF ReportStarted
<1>29. ASSUME NEW m \in Messages, ReportReturned(m) PROVE TypeOK'
  <2>1. CASE job[m] = "none"
    <3>1. final' \in BOOLEAN
      BY <1>29, <2>1 DEF ReportReturned
    <3> QED BY <1>29, <2>1, <3>1 DEF ReportReturned
  <2>2. CASE job[m] # "none"
    <3>1. outbox' \in [Messages -> {"none", "pending", "queued"} \cup Closed]
      BY <1>29, <2>2 DEF ReportReturned
    <3> QED BY <1>29, <2>2, <3>1 DEF ReportReturned
  <2> QED BY <2>1, <2>2
<1>30. ASSUME NEW m \in Messages, MoveToCompleted(m) PROVE TypeOK'
  BY <1>30 DEF MoveToCompleted
<1>31. ASSUME NEW m \in Messages, MoveToFailed(m) PROVE TypeOK'
  <2>1. CASE lock # m
    <3>1. final' \in BOOLEAN /\ UNCHANGED <<job, tries>>
      BY <1>31, <2>1 DEF MoveToFailed
    <3> QED BY <1>31, <2>1, <3>1 DEF MoveToFailed
  <2>2. CASE lock = m
    <3>1. job[m] = "active"
      BY <1>31, <2>2 DEF MoveToFailed, Retries
    <3>2. tries' \in [Messages -> 0..MaxAttempts]
      BY <1>31, <2>2, <3>1 DEF MoveToFailed, Retries
    <3>3. final' \in BOOLEAN
      BY <1>31, <2>2 DEF MoveToFailed
    <3>4. job' \in [Messages -> {"none", "waiting", "active", "completed", "failed"}]
      BY <1>31, <2>2 DEF MoveToFailed
    <3>5. work' \in Messages \cup {None} /\ lock' \in {work', None} /\ wstep' \in {"event", "idle"}
      BY <1>31, <2>2 DEF MoveToFailed
    <3> QED BY <1>31, <3>2, <3>3, <3>4, <3>5 DEF MoveToFailed
  <2> QED BY <2>1, <2>2
<1>32. ASSUME NEW m \in Messages, FailedEvent(m) PROVE TypeOK'
  BY <1>32 DEF FailedEvent
<1>33. ASSUME NEW m \in Messages, Redeliver(m) PROVE TypeOK'
  BY <1>33 DEF Redeliver
<1>34. ASSUME NEW m \in Messages, LockLapses(m) PROVE TypeOK'
  BY <1>34 DEF LockLapses
<1>35. ASSUME NEW c \in Callers, NEW m \in Messages, BeginCreated(c, m) PROVE TypeOK'
  BY <1>35 DEF BeginCreated
<1>36. ASSUME NEW c \in Callers, NEW m \in Messages, BeginDuplicate(c, m) PROVE TypeOK'
  <2>1. CASE run[m] = "completed"
    BY <1>36, <2>1 DEF BeginDuplicate
  <2>2. CASE run[m] # "completed"
    <3>1. final' \in BOOLEAN
      BY <1>36, <2>2 DEF BeginDuplicate
    <3> QED BY <1>36, <2>2, <3>1 DEF BeginDuplicate
  <2> QED BY <2>1, <2>2
<1>37. ASSUME NEW c \in Callers, NEW m \in Messages, Plan(c, m) PROVE TypeOK'
  BY <1>37 DEF Plan
<1>38. ASSUME NEW c \in Callers, NEW m \in Messages, NoModel(c, m) PROVE TypeOK'
  <2>1. run[m] = "running"
    BY <1>38 DEF NoModel, Executing
  <2>2. notices' \in [Messages -> 0..2]
    BY <1>38, <2>1 DEF NoModel, Ledgered
  <2>3. final' \in BOOLEAN
    BY <1>38 DEF NoModel
  <2> QED BY <1>38, <2>2, <2>3 DEF NoModel
<1>39. ASSUME NEW c \in Callers, NEW m \in Messages, Fail(c, m) PROVE TypeOK'
  BY <1>39 DEF Fail
<1>40. ASSUME NEW c \in Callers, NEW m \in Messages, Answer(c, m) PROVE TypeOK'
  <2>1. answers[m] = 0
    BY <1>40 DEF Answer, Executing
  <2> QED BY <1>40, <2>1 DEF Answer
<1>41. ASSUME NEW c \in Callers, NEW m \in Messages, Complete(c, m) PROVE TypeOK'
  BY <1>41 DEF Complete
<1> QED BY <1>1, <1>2, <1>3, <1>4, <1>5, <1>6, <1>7, <1>8, <1>9, <1>10, <1>11, <1>12, <1>13, <1>14,
           <1>15, <1>16, <1>17, <1>18, <1>19, <1>20, <1>21, <1>22, <1>23, <1>24, <1>25, <1>26,
           <1>27, <1>28, <1>29, <1>30, <1>31, <1>32, <1>33, <1>34, <1>35, <1>36, <1>37, <1>38,
           <1>39, <1>40, <1>41, <1>42
       DEF Next, Recovery, ReplaceUnhealthy, Post, Flush, Process, Orchestrate, Adverse

(* A server that does not serve has nothing under way. *)
Idle ==
  /\ proc # "down" => epoch # 0
  /\ proc # "serving" =>
       /\ turn = None /\ work = None /\ wstep = "idle"
       /\ \A m \in Messages : /\ direct[m] = "none"
                              /\ \A c \in Callers : exec[c][m] = "none"

(* A message is handed over once: to the queue or to the direct execution. *)
Admitted == \A m \in Messages :
  /\ turn = m => msg[m] = "saved"
  /\ msg[m] # "acked" => direct[m] = "none" /\ add["post"][m] = "none"
  /\ direct[m] # "none" => add["post"][m] = "none"

Inv == TypeOK /\ Retries /\ Idle /\ Admitted /\ Executing /\ Ledgered

(* The execution of messages, and the steps that may touch it. *)
core == <<proc, epoch, found, direct, work, wstep, exec, ledger, answers, notices>>

LEMMA StepKinds ==
  ASSUME [Next]_vars
  PROVE  \/ UNCHANGED core
         \/ Start \/ Serve \/ Crash
         \/ \E m \in Messages : \/ RecoverRun(m) \/ RecoverChat(m)
                                \/ Acknowledge(m) \/ PostRefused(m)
                                \/ Take(m) \/ Process(m)
                                \/ \E c \in Callers : Orchestrate(c, m)
<1> USE DEF core, process, http, redis, client, flush, worker, ledger, chat
<1>1. CASE UNCHANGED vars
  BY <1>1 DEF vars
<1>2. CASE InitQueue \/ RefreshAvailability
  BY <1>2 DEF InitQueue, RefreshAvailability
<1>3. CASE InitQueueFails \/ Outage \/ RedisBack
  BY <1>3 DEF InitQueueFails, Outage, RedisBack
<1>4. CASE Flush
  BY <1>4 DEF Flush, FlushStart, FlushEnd, FlushNext, FlushAdded
<1>5. ASSUME NEW m \in Messages,
             SaveMessage(m) \/ PersistAdmission(m) \/ PostAdded(m) \/ FlushRefused(m)
      PROVE UNCHANGED core
  BY <1>5 DEF SaveMessage, PersistAdmission, PostAdded, FlushRefused
<1>6. ASSUME NEW m \in Messages, NEW c \in Adders, ApplyAdd(c, m) PROVE UNCHANGED core
  BY <1>6 DEF ApplyAdd
<1>7. ASSUME NEW m \in Messages,
             \/ LoseJob(m) \/ LockLapses(m) \/ Redeliver(m)
             \/ CancelRemove(m) \/ CancelMark(m) \/ CancelActive(m)
      PROVE UNCHANGED core
  BY <1>7 DEF LoseJob, LockLapses, Redeliver, CancelRemove, CancelMark, CancelActive
<1> QED BY <1>1, <1>2, <1>3, <1>4, <1>5, <1>6, <1>7
        DEF Next, Recovery, ReplaceUnhealthy, Post, Adverse

(* The delivery of messages, and the steps that may touch it. *)
delivery == <<outbox, redis, work, wstep, lock>>

LEMMA QueueSteps ==
  ASSUME [Next]_vars
  PROVE  \/ UNCHANGED delivery
         \/ Crash
         \/ \E m \in Messages : \/ \E c \in Adders : ApplyAdd(c, m)
                                \/ CancelRemove(m) \/ CancelActive(m) \/ LoseJob(m)
                                \/ Take(m) \/ Redeliver(m) \/ LockLapses(m) \/ Process(m)
                                \/ PersistAdmission(m) \/ FlushAdded(m) \/ CancelMark(m)
                                \/ \E c \in Callers : Orchestrate(c, m)
<1> USE DEF delivery, process, http, redis, client, flush, worker, ledger, chat
<1>1. CASE UNCHANGED vars
  BY <1>1 DEF vars
<1>2. CASE Start \/ Serve \/ InitQueue \/ RefreshAvailability
  BY <1>2 DEF Start, Serve, InitQueue, RefreshAvailability
<1>3. ASSUME NEW m \in Messages, RecoverRun(m) \/ RecoverChat(m) PROVE UNCHANGED delivery
  BY <1>3 DEF RecoverRun, RecoverChat
<1>4. CASE InitQueueFails \/ Outage \/ RedisBack
  BY <1>4 DEF InitQueueFails, Outage, RedisBack
<1>5. CASE FlushStart \/ FlushEnd
  BY <1>5 DEF FlushStart, FlushEnd
<1>6. ASSUME NEW m \in Messages,
             \/ SaveMessage(m) \/ Acknowledge(m) \/ PostAdded(m) \/ PostRefused(m)
             \/ FlushNext(m) \/ FlushRefused(m)
      PROVE UNCHANGED delivery
  BY <1>6 DEF SaveMessage, Acknowledge, PostAdded, PostRefused, FlushNext, FlushRefused
<1> QED BY <1>1, <1>2, <1>3, <1>4, <1>5, <1>6
        DEF Next, Recovery, ReplaceUnhealthy, Flush, Post, Adverse

(* Attempts are only counted under the lock of an active job. *)
LEMMA RetriesStep == Inv /\ [Next]_vars => Retries'
<1> SUFFICES ASSUME Inv, [Next]_vars PROVE Retries'
  OBVIOUS
<1> USE ExecutionAssumption
    DEF Inv, TypeOK, Retries, All, http, redis, client, worker, chat,
        WorkerAt, WorkerGoes, WorkerThrows, WorkerRests, Called,
        CallerWaits, CallerReturns, CallerThrows
<1>1. CASE UNCHANGED delivery
  BY <1>1 DEF delivery, redis
<1>2. CASE Crash
  BY <1>2 DEF Crash
<1>3. ASSUME NEW m \in Messages, NEW c \in Adders, ApplyAdd(c, m) PROVE Retries'
  BY <1>3 DEF ApplyAdd
<1>4. ASSUME NEW m \in Messages, CancelRemove(m) \/ LoseJob(m) PROVE Retries'
  BY <1>4 DEF CancelRemove, LoseJob
<1>11. ASSUME NEW m \in Messages, CancelActive(m) PROVE Retries'
  BY <1>11 DEF CancelActive
<1>5. ASSUME NEW m \in Messages, Take(m) \/ Redeliver(m) \/ LockLapses(m) PROVE Retries'
  BY <1>5 DEF Take, Redeliver, LockLapses
<1>6. ASSUME NEW m \in Messages, CheckAdmission(m) \/ ReportStarted(m) \/ ReportReturned(m)
      PROVE  Retries'
  BY <1>6 DEF CheckAdmission, ReportStarted, ReportReturned
<1>7. ASSUME NEW m \in Messages, MoveToCompleted(m) \/ FailedEvent(m) PROVE Retries'
  BY <1>7 DEF MoveToCompleted, FailedEvent
<1>8. ASSUME NEW m \in Messages, MoveToFailed(m) PROVE Retries'
  <2>1. CASE lock # m
    BY <1>8, <2>1 DEF MoveToFailed
  <2>2. CASE lock = m
    BY <1>8, <2>2 DEF MoveToFailed
  <2> QED BY <2>1, <2>2
<1>9. ASSUME NEW m \in Messages, NEW c \in Callers, Orchestrate(c, m) PROVE Retries'
  <2>1. wstep # "event" \/ wstep' = wstep
    BY <1>9 DEF Executing, Orchestrate, BeginCreated, BeginDuplicate, Plan, NoModel, Fail,
                Answer, Complete, Callers, Running
  <2>2. UNCHANGED <<job, tries, lock>>
    BY <1>9 DEF Orchestrate, BeginCreated, BeginDuplicate, Plan, NoModel, Fail, Answer, Complete
  <2> QED BY <2>1, <2>2
<1>10. ASSUME NEW m \in Messages, PersistAdmission(m) \/ FlushAdded(m) \/ CancelMark(m)
       PROVE  Retries'
  BY <1>10 DEF PersistAdmission, FlushAdded, CancelMark
<1> QED BY QueueSteps, <1>1, <1>2, <1>3, <1>4, <1>5, <1>6, <1>7, <1>8, <1>9, <1>10, <1>11
        DEF Process

(* The handover stays one, through refusals and crashes. *)
LEMMA AdmittedStep == Inv /\ [Next]_vars => Idle' /\ Admitted'
<1> SUFFICES ASSUME Inv, [Next]_vars PROVE Idle' /\ Admitted'
  OBVIOUS
<1> USE ExecutionAssumption
    DEF Inv, TypeOK, Idle, Admitted, Adders, Callers, All, Serving, process, http, redis,
        client, flush, worker, ledger, chat
<1>1. CASE UNCHANGED vars
  BY <1>1 DEF vars
<1>2. CASE Recovery
  <2>1. CASE Start \/ Serve
    BY <2>1 DEF Start, Serve
  <2>2. CASE InitQueue \/ RefreshAvailability
    BY <2>2 DEF InitQueue, RefreshAvailability
  <2>3. CASE Crash
    BY <2>3 DEF Crash
  <2>4. ASSUME NEW m \in Messages, RecoverRun(m) \/ RecoverChat(m) PROVE Idle' /\ Admitted'
    BY <2>4 DEF RecoverRun, RecoverChat
  <2> QED BY <1>2, <2>1, <2>2, <2>3, <2>4 DEF Recovery, ReplaceUnhealthy
<1>3. CASE RedisBack \/ FlushStart \/ FlushEnd
  BY <1>3 DEF RedisBack, FlushStart, FlushEnd
<1>4. ASSUME NEW m \in Messages, FlushNext(m) \/ FlushAdded(m) \/ FlushRefused(m)
      PROVE  Idle' /\ Admitted'
  BY <1>4 DEF FlushNext, FlushAdded, FlushRefused
<1>5. CASE Crash \/ InitQueueFails \/ Outage
  BY <1>5 DEF Crash, InitQueueFails, Outage
<1>6. ASSUME NEW m \in Messages, PostRefused(m) PROVE Idle' /\ Admitted'
  BY <1>6 DEF PostRefused
<1>7. ASSUME NEW m \in Messages,
             \/ LoseJob(m) \/ LockLapses(m) \/ Redeliver(m)
             \/ CancelRemove(m) \/ CancelMark(m) \/ CancelActive(m)
      PROVE  Idle' /\ Admitted'
  BY <1>7 DEF LoseJob, LockLapses, Redeliver, CancelRemove, CancelMark, CancelActive
<1>8. ASSUME NEW m \in Messages, SaveMessage(m) PROVE Idle' /\ Admitted'
  BY <1>8 DEF SaveMessage
<1>9. ASSUME NEW m \in Messages, Post(m) PROVE Idle' /\ Admitted'
  BY <1>9 DEF Post, PersistAdmission, Acknowledge, PostAdded
<1>10. ASSUME NEW m \in Messages, Take(m) PROVE Idle' /\ Admitted'
  BY <1>10 DEF Take
<1>11. ASSUME NEW m \in Messages, Process(m) PROVE Idle' /\ Admitted'
  <2>1. UNCHANGED <<proc, epoch, turn, msg, direct, add, exec>> /\ proc = "serving"
    BY <1>11 DEF Process, CheckAdmission, ReportStarted, ReportReturned, MoveToCompleted,
                 MoveToFailed, FailedEvent, WorkerAt
  <2> QED BY <2>1
<1>12. ASSUME NEW m \in Messages, NEW c \in Adders, ApplyAdd(c, m) PROVE Idle' /\ Admitted'
  BY <1>12 DEF ApplyAdd
<1>13. ASSUME NEW m \in Messages, NEW c \in Callers, Orchestrate(c, m)
       PROVE  Idle' /\ Admitted'
  <2>1. UNCHANGED <<proc, epoch, turn, msg, add>> /\ proc = "serving"
    BY <1>13 DEF Orchestrate, BeginCreated, BeginDuplicate, Plan, NoModel, Fail, Answer,
                 Complete, Called, Running
  <2>2. \/ UNCHANGED direct
        \/ \E d \in {"running", "ended"} : direct' = [direct EXCEPT ![m] = d] /\ direct[m] # "none"
    BY <1>13 DEF Executing, Orchestrate, BeginCreated, BeginDuplicate, Plan, NoModel, Fail, Answer,
                 Complete, Called, Running, CallerWaits, CallerReturns, CallerThrows
  <2>3. Idle'
    BY <2>1
  <2>4. Admitted'
    BY <2>1, <2>2
  <2> QED BY <2>3, <2>4
<1> QED BY <1>1, <1>2, <1>3, <1>4, <1>5, <1>6, <1>7, <1>8, <1>9, <1>10, <1>11, <1>12, <1>13
        DEF Next, Flush, Adverse

(* Only a begin starts an execution, and only on a run nobody executes. *)
LEMMA ExecutingStep == Inv /\ [Next]_vars => Executing' /\ Ledgered'
<1> SUFFICES ASSUME Inv, [Next]_vars PROVE Executing' /\ Ledgered'
  OBVIOUS
<1> USE ExecutionAssumption
    DEF Inv, TypeOK, Idle, Admitted, Executing, Ledgered, Callers, All, Serving, core,
        process, http, worker, ledger, chat,
        WorkerAt, WorkerGoes, WorkerThrows, WorkerRests, Running, Called, Resumable,
        CallerWaits, CallerReturns, CallerThrows
<1>1. CASE UNCHANGED core
  BY <1>1
<1>2. CASE Start
  BY <1>2 DEF Start
<1>3. CASE Serve
  BY <1>3 DEF Serve
<1>4. CASE Crash
  BY <1>4 DEF Crash
<1>5. ASSUME NEW m \in Messages, RecoverRun(m) PROVE Executing' /\ Ledgered'
  BY <1>5 DEF RecoverRun, Orphans
<1>6. ASSUME NEW m \in Messages, RecoverChat(m) PROVE Executing' /\ Ledgered'
  BY <1>6 DEF RecoverChat
<1>7. ASSUME NEW m \in Messages, Acknowledge(m) PROVE Executing' /\ Ledgered'
  BY <1>7 DEF Acknowledge
<1>8. ASSUME NEW m \in Messages, PostRefused(m) PROVE Executing' /\ Ledgered'
  BY <1>8 DEF PostRefused
<1>9. ASSUME NEW m \in Messages, Take(m) PROVE Executing' /\ Ledgered'
  BY <1>9 DEF Take
<1>10. ASSUME NEW m \in Messages, Process(m) PROVE Executing' /\ Ledgered'
  <2>1. UNCHANGED <<process, direct, exec, ledger, chat>>
    BY <1>10 DEF Process, CheckAdmission, ReportStarted, ReportReturned, MoveToCompleted,
                 MoveToFailed, FailedEvent
  <2>2. work = m /\ wstep # "running"
    BY <1>10 DEF Process, CheckAdmission, ReportStarted, ReportReturned, MoveToCompleted,
                 MoveToFailed, FailedEvent
  <2> QED BY <2>1, <2>2
<1>11. ASSUME NEW m \in Messages, NEW c \in Callers, Orchestrate(c, m)
       PROVE  Executing' /\ Ledgered'
  <2>1. CASE BeginCreated(c, m)
    BY <1>11, <2>1 DEF BeginCreated
  <2>2. CASE BeginDuplicate(c, m)
    BY <1>11, <2>2 DEF BeginDuplicate
  <2>3. CASE Plan(c, m)
    BY <1>11, <2>3 DEF Plan
  <2>4. CASE NoModel(c, m)
    BY <1>11, <2>4 DEF NoModel
  <2>5. CASE Fail(c, m)
    BY <1>11, <2>5 DEF Fail
  <2>6. CASE Answer(c, m)
    BY <1>11, <2>6 DEF Answer
  <2>7. CASE Complete(c, m)
    BY <1>11, <2>7 DEF Complete
  <2> QED BY <1>11, <2>1, <2>2, <2>3, <2>4, <2>5, <2>6, <2>7 DEF Orchestrate
<1> QED BY StepKinds, <1>1, <1>2, <1>3, <1>4, <1>5, <1>6, <1>7, <1>8, <1>9, <1>10, <1>11

(* The initial state, the steps and all reachable states satisfy Inv. *)
LEMMA InvInit == Init => Inv
<1> SUFFICES ASSUME Init PROVE Inv
  OBVIOUS
<1> USE ExecutionAssumption DEF Init, All
<1>1. TypeOK
  <2>1. avail \in BOOLEAN /\ redisUp \in BOOLEAN /\ flushing \in BOOLEAN /\ final \in BOOLEAN
    OBVIOUS
  <2> QED BY <2>1 DEF TypeOK, Adders, Callers, Closed, Outcomes
<1>2. Retries /\ Idle /\ Admitted
  BY DEF Retries, Idle, Admitted, Adders, Callers
<1>3. Executing /\ Ledgered
  BY DEF Executing, Ledgered, Callers
<1> QED BY <1>1, <1>2, <1>3 DEF Inv

LEMMA InvStep == Inv /\ [Next]_vars => Inv'
<1> SUFFICES ASSUME Inv, [Next]_vars PROVE Inv'
  OBVIOUS
<1>1. TypeOK'
  BY TypeStep DEF Inv
<1> QED BY <1>1, RetriesStep, AdmittedStep, ExecutingStep DEF Inv

LEMMA InvHolds == Spec => []Inv
  BY InvInit, InvStep, PTL DEF Spec

(* Type correctness, with the bounds of the counters. *)
THEOREM TypeCorrect == Spec => []TypeOK
<1>1. Inv => TypeOK
  BY DEF Inv
<1> QED BY <1>1, InvHolds, PTL

(* Whatever reports completion (the worker, the row, the job) reports a    *)
(* completed run.                                                          *)
Receipts == \A m \in Messages :
  /\ work = m /\ wstep \in {"returned", "settling"} => run[m] = "completed"
  /\ outbox[m] = "completed" \/ job[m] = "completed" => run[m] = "completed"

(* No step takes a completed run back. *)
LEMMA CompletedIsFinal ==
  ASSUME Inv, [Next]_vars, NEW n \in Messages, run[n] = "completed"
  PROVE  run'[n] = "completed"
<1> USE DEF Inv, TypeOK, Executing, Callers, core, process, http, redis, client, flush, worker,
            ledger, chat
<1>1. CASE UNCHANGED core
  BY <1>1
<1>2. CASE Start \/ Serve \/ Crash
  BY <1>2 DEF Start, Serve, Crash
<1>3. ASSUME NEW m \in Messages, RecoverRun(m) \/ RecoverChat(m) PROVE run'[n] = "completed"
  BY <1>3 DEF RecoverRun, RecoverChat, Orphans
<1>4. ASSUME NEW m \in Messages, Acknowledge(m) \/ PostRefused(m) \/ Take(m)
      PROVE  run'[n] = "completed"
  BY <1>4 DEF Acknowledge, PostRefused, Take
<1>5. ASSUME NEW m \in Messages, Process(m) PROVE run'[n] = "completed"
  BY <1>5 DEF Process, CheckAdmission, ReportStarted, ReportReturned, MoveToCompleted,
              MoveToFailed, FailedEvent
<1>6. ASSUME NEW m \in Messages, NEW c \in Callers, Orchestrate(c, m)
      PROVE  run'[n] = "completed"
  <2>1. UNCHANGED run \/ \E o \in Outcomes \cup {"running"} : run' = [run EXCEPT ![m] = o]
    BY <1>6 DEF Orchestrate, BeginCreated, BeginDuplicate, Plan, NoModel, Fail, Answer, Complete,
                Outcomes
  <2>2. UNCHANGED run \/ run[m] # "completed"
    BY <1>6 DEF Orchestrate, BeginCreated, BeginDuplicate, Plan, NoModel, Fail, Answer, Complete,
                Running, Resumable
  <2> QED BY <2>1, <2>2
<1> QED BY StepKinds, <1>1, <1>2, <1>3, <1>4, <1>5, <1>6

(* Only the worker whose run has completed closes a row or a job so. *)
LEMMA ReceiptsStep == Inv /\ Receipts /\ [Next]_vars => Receipts'
<1> SUFFICES ASSUME Inv, Receipts, [Next]_vars PROVE Receipts'
  OBVIOUS
<1> USE DEF Inv, TypeOK, Receipts, Advance, http, process, redis, client, flush, worker, ledger, chat,
            WorkerAt, WorkerGoes, WorkerThrows, WorkerRests, Called, Running,
            CallerWaits, CallerReturns, CallerThrows, Callers, Adders, Closed
<1>1. \A m \in Messages : run[m] = "completed" => run'[m] = "completed"
  BY CompletedIsFinal
<1>2. CASE UNCHANGED delivery
  BY <1>1, <1>2 DEF delivery
<1>3. CASE Crash
  BY <1>1, <1>3 DEF Crash
<1>4. ASSUME NEW m \in Messages, PersistAdmission(m) \/ FlushAdded(m) \/ CancelMark(m)
      PROVE  Receipts'
  BY <1>1, <1>4 DEF PersistAdmission, FlushAdded, CancelMark
<1>5. ASSUME NEW m \in Messages, NEW c \in Adders, ApplyAdd(c, m) PROVE Receipts'
  BY <1>1, <1>5 DEF ApplyAdd
<1>6. ASSUME NEW m \in Messages,
             \/ CancelRemove(m) \/ CancelActive(m)
             \/ LoseJob(m) \/ Redeliver(m) \/ LockLapses(m)
      PROVE  Receipts'
  BY <1>1, <1>6 DEF CancelRemove, CancelActive, LoseJob, Redeliver, LockLapses
<1>7. ASSUME NEW m \in Messages, Take(m) PROVE Receipts'
  BY <1>1, <1>7 DEF Take
<1>8. ASSUME NEW m \in Messages, Process(m) PROVE Receipts'
  <2>1. CASE CheckAdmission(m) \/ ReportStarted(m)
    BY <1>1, <2>1 DEF CheckAdmission, ReportStarted
  <2>2. CASE ReportReturned(m) \/ MoveToCompleted(m)
    BY <1>1, <2>2 DEF ReportReturned, MoveToCompleted
  <2>3. CASE MoveToFailed(m)
    BY <1>1, <2>3 DEF MoveToFailed
  <2>4. CASE FailedEvent(m)
    BY <1>1, <2>4 DEF FailedEvent
  <2> QED BY <1>8, <2>1, <2>2, <2>3, <2>4 DEF Process
<1>9. ASSUME NEW m \in Messages, NEW c \in Callers, Orchestrate(c, m) PROVE Receipts'
  <2>1. UNCHANGED <<job, outbox>>
    BY <1>9 DEF Orchestrate, BeginCreated, BeginDuplicate, Plan, NoModel, Fail, Answer, Complete
  <2>2. \/ UNCHANGED <<work, wstep>>
        \/ UNCHANGED work /\ work = m /\ wstep' \in {"running", "throwing"}
        \/ UNCHANGED work /\ work = m /\ run'[m] = "completed"
    BY <1>9 DEF Executing, Orchestrate, BeginCreated, BeginDuplicate, Plan, NoModel, Fail, Answer, Complete
  <2> QED BY <1>1, <2>1, <2>2
<1> QED BY QueueSteps, <1>2, <1>3, <1>4, <1>5, <1>6, <1>7, <1>8, <1>9

(* A message is answered at most once and closed as completed only when it *)
(* was, however often it is delivered, stalled, retried or cut off by a    *)
(* crash between its answer and the report of it.                          *)
THEOREM AnsweredOnce == Spec => []AnswerOnce
<1>1. Init => Receipts
  BY DEF Init, Receipts, All
<1>2. Inv /\ Receipts => AnswerOnce
  <2> SUFFICES ASSUME Inv, Receipts, NEW m \in Messages
               PROVE  /\ answers[m] <= 1
                      /\ outbox[m] = "completed" \/ job[m] = "completed"
                           => run[m] = "completed" /\ answers[m] = 1
    BY DEF AnswerOnce
  <2> QED BY DEF Inv, Ledgered, Receipts
<1> QED BY <1>1, <1>2, InvHolds, ReceiptsStep, PTL DEF Spec

(* Without cancelJob, which nothing in the server calls, a row fails only  *)
(* after the worker has given its job up.                                  *)
Uncancelled == \A m \in Messages : cancel[m] = "none"

Refused == \A m \in Messages : outbox[m] = "failed" =>
  ~(work = m /\ wstep \in {"starting", "begin", "running"})

(* The steps that may touch a cancellation. *)
LEMMA CancelSteps ==
  ASSUME [Next]_vars
  PROVE  UNCHANGED cancel \/ Crash \/ \E m \in Messages :
                                            CancelRemove(m) \/ CancelMark(m) \/ CancelActive(m)
<1>1. CASE UNCHANGED vars
  BY <1>1 DEF vars
<1>2. CASE Recovery
  BY <1>2 DEF Recovery, ReplaceUnhealthy, Start, Serve, RecoverRun, RecoverChat, InitQueue,
              RefreshAvailability
<1>3. CASE RedisBack \/ Flush
  BY <1>3 DEF RedisBack, Flush, FlushStart, FlushEnd, FlushNext, FlushAdded
<1>4. CASE InitQueueFails \/ Outage
  BY <1>4 DEF InitQueueFails, Outage
<1>5. ASSUME NEW m \in Messages,
             \/ PostRefused(m) \/ FlushRefused(m) \/ LoseJob(m) \/ LockLapses(m) \/ Take(m)
             \/ Redeliver(m) \/ \E c \in Adders : ApplyAdd(c, m)
      PROVE  UNCHANGED cancel
  BY <1>5 DEF PostRefused, FlushRefused, LoseJob, LockLapses, Take, Redeliver, ApplyAdd
<1>6. ASSUME NEW m \in Messages, SaveMessage(m) \/ Post(m) \/ Process(m)
      PROVE  UNCHANGED cancel
  BY <1>6 DEF SaveMessage, Post, PersistAdmission, Acknowledge, PostAdded, Process,
              CheckAdmission, ReportStarted, ReportReturned, MoveToCompleted, MoveToFailed,
              FailedEvent
<1>7. ASSUME NEW m \in Messages, NEW c \in Callers, Orchestrate(c, m) PROVE UNCHANGED cancel
  BY <1>7 DEF Orchestrate, BeginCreated, BeginDuplicate, Plan, NoModel, Fail, Answer, Complete
<1> QED BY <1>1, <1>2, <1>3, <1>4, <1>5, <1>6, <1>7 DEF Next, Adverse

(* CheckAdmission refuses a failed row, and no row fails under a worker    *)
(* that has passed it.                                                     *)
LEMMA RefusedStep ==
  ASSUME ~Cancels
  PROVE  Inv /\ Uncancelled /\ Refused /\ [Next]_vars => Uncancelled' /\ Refused'
<1> SUFFICES ASSUME Inv, Uncancelled, Refused, [Next]_vars PROVE Uncancelled' /\ Refused'
  OBVIOUS
<1>1. ASSUME NEW m \in Messages PROVE ~CancelRemove(m) /\ ~CancelMark(m) /\ ~CancelActive(m)
  BY <1>1 DEF CancelRemove, CancelMark, CancelActive, Uncancelled
<1>2. Uncancelled'
  BY <1>1, CancelSteps DEF Crash, Uncancelled
<1>3. Refused'
  <2> USE DEF Inv, TypeOK, Refused, Advance, http, process, redis, client, flush, worker, chat,
              ledger, WorkerAt, WorkerGoes, WorkerThrows, WorkerRests, Called, Running, Callers,
              CallerWaits, CallerReturns, CallerThrows, Adders, Closed
  <2>1. CASE UNCHANGED delivery
    BY <2>1 DEF delivery
  <2>2. CASE Crash
    BY <2>2, ExecutionAssumption DEF Crash
  <2>3. ASSUME NEW m \in Messages, PersistAdmission(m) \/ FlushAdded(m) PROVE Refused'
    BY <2>3 DEF PersistAdmission, FlushAdded
  <2>4. ASSUME NEW m \in Messages,
               \/ LoseJob(m) \/ Redeliver(m) \/ LockLapses(m) \/ Take(m)
               \/ \E c \in Adders : ApplyAdd(c, m)
        PROVE  Refused'
    BY <2>4 DEF LoseJob, Redeliver, LockLapses, Take, ApplyAdd
  <2>5. ASSUME NEW m \in Messages, Process(m) PROVE Refused'
    <3>1. CASE CheckAdmission(m) \/ ReportStarted(m)
      BY <3>1 DEF CheckAdmission, ReportStarted
    <3>2. CASE ReportReturned(m)
      BY <3>2 DEF ReportReturned
    <3>3. CASE MoveToCompleted(m) \/ MoveToFailed(m) \/ FailedEvent(m)
      BY <3>3, ExecutionAssumption DEF MoveToCompleted, MoveToFailed, FailedEvent
    <3> QED BY <2>5, <3>1, <3>2, <3>3 DEF Process
  <2>6. ASSUME NEW m \in Messages, NEW c \in Callers, Orchestrate(c, m) PROVE Refused'
    <3>1. UNCHANGED outbox
      BY <2>6 DEF Orchestrate, BeginCreated, BeginDuplicate, Plan, NoModel, Fail, Answer,
                  Complete
    <3>2. \/ UNCHANGED <<work, wstep>>
          \/ UNCHANGED work /\ work = m /\ wstep \in {"begin", "running"}
      BY <2>6 DEF Executing, Orchestrate, BeginCreated, BeginDuplicate, Plan, NoModel, Fail,
                  Answer, Complete
    <3> QED BY <3>1, <3>2
  <2> QED BY QueueSteps, <1>1, <2>1, <2>2, <2>3, <2>4, <2>5, <2>6
<1> QED BY <1>2, <1>3

(* A failed admission is not behind any execution of the worker, whatever  *)
(* redispatches it.  Without cancelJob: its two steps race the flush.      *)
THEOREM FailedStaysClosed == ASSUME ~Cancels PROVE Spec => []NoResurrection
<1>1. Init => Uncancelled /\ Refused
  BY DEF Init, Uncancelled, Refused, All
<1>2. Inv /\ Refused => NoResurrection
  BY DEF Inv, Executing, Refused, NoResurrection, Callers
<1>3. Inv /\ Uncancelled /\ Refused /\ [Next]_vars => Uncancelled' /\ Refused'
  BY RefusedStep
<1> QED BY <1>1, <1>2, <1>3, InvHolds, PTL DEF Spec

(* An interrupted run has lost its owner, and the incarnation right after  *)
(* that owner has either announced it or remembers to.                     *)
Announced == \A m \in Messages : run[m] = "interrupted" =>
  /\ owner[m] < epoch
  /\ proc # "down" /\ owner[m] + 1 = epoch =>
       notices[m] > 0 \/ (proc = "recovering" /\ m \in found)

(* No recovery serves before it has announced what it found. *)
LEMMA AnnouncedStep == Inv /\ Announced /\ [Next]_vars => Announced'
<1> SUFFICES ASSUME Inv, Announced, [Next]_vars PROVE Announced'
  OBVIOUS
<1> USE ExecutionAssumption
    DEF Inv, TypeOK, Announced, Ledgered, Callers, core, process, http, worker, ledger, chat
<1>1. CASE UNCHANGED core
  BY <1>1
<1>2. CASE Start \/ Serve \/ Crash
  BY <1>2 DEF Start, Serve, Crash
<1>3. ASSUME NEW m \in Messages, RecoverRun(m) PROVE Announced'
  <2>0. run[m] = "running" /\ owner[m] # epoch
    BY <1>3 DEF RecoverRun, Orphans
  <2>1. owner[m] < epoch
    <3>1. epoch \in Nat /\ owner[m] \in 1..epoch
      BY <2>0
    <3> HIDE DEF Inv, TypeOK, Announced, Ledgered
    <3> QED BY <2>0, <3>1
  <2>2. /\ run' = [run EXCEPT ![m] = "interrupted"] /\ found' = found \cup {m}
        /\ proc' = "recovering" /\ UNCHANGED <<proc, epoch, owner, notices>>
    BY <1>3 DEF RecoverRun
  <2> QED BY <2>1, <2>2
<1>4. ASSUME NEW m \in Messages, RecoverChat(m) PROVE Announced'
  <2>1. /\ notices' = [notices EXCEPT ![m] = IF @ = 0 THEN 1 ELSE @] /\ found' = found \ {m}
        /\ UNCHANGED <<proc, epoch, run, owner>>
    BY <1>4 DEF RecoverChat
  <2>2. notices'[m] > 0
    BY <2>1
  <2>3. \A n \in Messages \ {m} : notices'[n] = notices[n] /\ (n \in found' <=> n \in found)
    BY <2>1
  <2>4. SUFFICES ASSUME NEW n \in Messages, run[n] = "interrupted",
                        proc # "down", owner[n] + 1 = epoch
                 PROVE  notices'[n] > 0 \/ (proc = "recovering" /\ n \in found')
    BY <2>1
  <2>5. notices[n] > 0 \/ (proc = "recovering" /\ n \in found)
    BY <2>4
  <2> QED BY <2>2, <2>3, <2>5
<1>5. ASSUME NEW m \in Messages, Acknowledge(m) \/ PostRefused(m) \/ Take(m) PROVE Announced'
  BY <1>5 DEF Acknowledge, PostRefused, Take
<1>6. ASSUME NEW m \in Messages, Process(m) PROVE Announced'
  <2>1. UNCHANGED <<process, ledger, chat>>
    BY <1>6 DEF Process, CheckAdmission, ReportStarted, ReportReturned, MoveToCompleted,
                MoveToFailed, FailedEvent
  <2> QED BY <2>1
<1>7. ASSUME NEW m \in Messages, NEW c \in Callers, Orchestrate(c, m) PROVE Announced'
  <2>1. UNCHANGED process /\ proc = "serving"
    BY <1>7 DEF Orchestrate, BeginCreated, BeginDuplicate, Plan, NoModel, Fail, Answer, Complete,
                Called, Running, Serving
  <2>2. \/ UNCHANGED <<run, owner>>
        \/ /\ \E o \in {"running", "completed", "failed"} : run' = [run EXCEPT ![m] = o]
           /\ \A n \in Messages \ {m} : owner'[n] = owner[n]
    <3>1. CASE BeginCreated(c, m)
      BY <3>1 DEF BeginCreated
    <3>2. CASE NoModel(c, m) \/ Fail(c, m) \/ Complete(c, m)
      BY <3>2 DEF NoModel, Fail, Complete
    <3> QED BY <1>7, <3>1, <3>2 DEF Orchestrate, BeginDuplicate, Plan, Answer
  <2>3. UNCHANGED notices \/ notices' = [notices EXCEPT ![m] = @ + 1]
    BY <1>7 DEF Orchestrate, BeginCreated, BeginDuplicate, Plan, NoModel, Fail, Answer, Complete
  <2> QED BY <2>1, <2>2, <2>3
<1> QED BY StepKinds, <1>1, <1>2, <1>3, <1>4, <1>5, <1>6, <1>7

(* For every number of incarnations: a run found interrupted by the        *)
(* incarnation after its owner has its guidance once that one serves.  A   *)
(* kill inside the recovery, which breaks InterruptionsAnnounced, is       *)
(* therefore the only way to lose guidance.                                *)
THEOREM RestartIsAnnounced == Spec => []RestartAnnounces
<1>1. Init => Announced
  BY DEF Init, Announced, All
<1>2. Announced => RestartAnnounces
  BY DEF Announced, RestartAnnounces
<1> QED BY <1>1, <1>2, AnnouncedStep, InvHolds, PTL DEF Spec

(* Every step of the pipeline is a step of the ledger or leaves it alone. *)
LEMMA LedgerStep == Inv /\ [Next]_vars => [Ledger!Next]_(Ledger!ledgerVars)
<1> SUFFICES ASSUME Inv, [Next]_vars PROVE [Ledger!Next]_(Ledger!ledgerVars)
  OBVIOUS
<1> USE ExecutionAssumption
    DEF Inv, TypeOK, Idle, Executing, Ledgered, Callers, core, process, http, worker, ledger, chat,
        Ledger!ledgerVars
<1>1. CASE UNCHANGED core
  BY <1>1
<1>2. CASE Start
  <2>1. epoch + 1 \in 1..MaxEpochs
    BY <1>2 DEF Start
  <2>2. Ledger!Join(epoch + 1)
    BY <1>2 DEF Start, Ledger!Join
  <2> QED BY <2>1, <2>2 DEF Ledger!Next
<1>3. CASE Serve
  BY <1>3 DEF Serve
<1>4. CASE Crash
  <2>1. epoch \in 1..MaxEpochs
    BY <1>4 DEF Crash
  <2>2. Ledger!Leave(epoch)
    BY <1>4 DEF Crash, Ledger!Leave
  <2> QED BY <2>1, <2>2 DEF Ledger!Next
<1>5. ASSUME NEW m \in Messages, RecoverRun(m) PROVE [Ledger!Next]_(Ledger!ledgerVars)
  <2>1. epoch \in 1..MaxEpochs
    BY <1>5 DEF RecoverRun
  <2>2. Ledger!Interrupt(epoch, m)
    BY <1>5 DEF RecoverRun, Orphans, Ledger!Interrupt
  <2> QED BY <2>1, <2>2 DEF Ledger!Next
<1>6. ASSUME NEW m \in Messages,
             RecoverChat(m) \/ Acknowledge(m) \/ PostRefused(m) \/ Take(m) \/ Process(m)
      PROVE  [Ledger!Next]_(Ledger!ledgerVars)
  BY <1>6 DEF RecoverChat, Acknowledge, PostRefused, Take, Process, CheckAdmission, ReportStarted,
              ReportReturned, MoveToCompleted, MoveToFailed, FailedEvent
<1>7. ASSUME NEW m \in Messages, NEW c \in Callers, Orchestrate(c, m)
      PROVE  [Ledger!Next]_(Ledger!ledgerVars)
  <2>0. proc = "serving" /\ UNCHANGED <<proc, epoch>>
    BY <1>7 DEF Orchestrate, BeginCreated, BeginDuplicate, Plan, NoModel, Fail, Answer, Complete,
                Called, Running, Serving
  <2>1. epoch \in 1..MaxEpochs /\ proc = "serving" /\ UNCHANGED <<proc, epoch>>
    BY <2>0
  <2>2. CASE BeginCreated(c, m)
    <3>1. CASE run[m] = "absent"
      <4>1. Ledger!Claim(epoch, m)
        BY <2>1, <2>2, <3>1 DEF BeginCreated, Ledger!Claim
      <4> QED BY <2>1, <4>1 DEF Ledger!Next
    <3>2. CASE Resumable(m)
      <4>1. run' = run
        BY <2>2, <3>2 DEF BeginCreated, Resumable
      <4>2. Ledger!Resume(epoch, m)
        BY <2>1, <2>2, <3>2, <4>1 DEF BeginCreated, Resumable, Ledger!Resume
      <4> QED BY <2>1, <4>2 DEF Ledger!Next
    <3> QED BY <2>2, <3>1, <3>2 DEF BeginCreated
  <2>3. CASE BeginDuplicate(c, m) \/ Answer(c, m)
    BY <2>3 DEF BeginDuplicate, Answer
  <2>4. CASE Plan(c, m)
    <3>1. Ledger!Act(epoch, m)
      BY <2>1, <2>4 DEF Plan, Running, Ledger!Act
    <3> QED BY <2>1, <3>1 DEF Ledger!Next
  <2>5. CASE NoModel(c, m) \/ Fail(c, m) \/ Complete(c, m)
    <3>1. run[m] = "running" /\ owner[m] = epoch
      <4>1. exec[c][m] # "none"
        BY <2>5 DEF NoModel, Fail, Complete, Running
      <4> QED BY <4>1
    <3>2. \E o \in {"completed", "failed"} : run' = [run EXCEPT ![m] = o]
      BY <2>5 DEF NoModel, Fail, Complete
    <3>3. UNCHANGED <<owner, armed>>
      BY <2>5 DEF NoModel, Fail, Complete
    <3>4. Ledger!Close(epoch, m)
      BY <2>1, <3>1, <3>2, <3>3 DEF Ledger!Close
    <3> QED BY <2>1, <3>4 DEF Ledger!Next
  <2> QED BY <1>7, <2>2, <2>3, <2>4, <2>5 DEF Orchestrate
<1> HIDE DEF Inv, TypeOK, Idle, Executing, Ledgered, Callers, core, process, http, worker, ledger,
             chat, Ledger!ledgerVars
<1> QED BY StepKinds, <1>1, <1>2, <1>3, <1>4, <1>5, <1>6, <1>7

(* Deliveries, retries and restarts claim, resume, act on, close and       *)
(* interrupt durable runs only as RunLedger allows.                        *)
THEOREM RunsImplementLedger == Spec => RunsFollowLedger
<1>1. Init => Ledger!Init
  BY DEF Init, All, Ledger!Init
<1> QED BY <1>1, LedgerStep, InvHolds, PTL DEF Spec, RunsFollowLedger, Ledger!Spec
=============================================================================
