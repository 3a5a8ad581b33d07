------------------------------- MODULE A2ATasks -------------------------------
(***************************************************************************)
(* server/a2aProtocol.ts: message/send, tasks/get's registry and           *)
(* tasks/cancel.  A send runs the orchestrator and waits for the event     *)
(* that ends its conversation, for its rejection or for thirty seconds;    *)
(* the orchestrator is not told when nobody waits any more, and a run that *)
(* is refused or a duplicate ends without an event.                        *)
(***************************************************************************)
EXTENDS Integers, Sequences, SequencesExt

CONSTANTS
    Tasks,      \* bound: messages sent
    MaxTasks    \* MAX_REGISTRY_SIZE

TaskAssumption == MaxTasks \in Nat \ {0}

VARIABLES
    state,      \* of each A2ATask
    registry,   \* the tasks that can be found, oldest first
    send,       \* where each call of message/send is
    run,        \* and the orchestrator's run for it
    cancelled   \* history: tasks whose caller was told they are canceled

vars == <<state, registry, send, run, cancelled>>

Found(t) == t \in ToSet(registry)
Terminal == {"completed", "failed", "canceled"}

Init ==
    /\ state = [t \in Tasks |-> "none"] /\ registry = <<>>
    /\ send = [t \in Tasks |-> "new"] /\ run = [t \in Tasks |-> "none"]
    /\ cancelled = {}

(* Seeded fault: nothing is evicted from the registry. *)
SendKeepingAll(t) ==
    /\ send[t] = "new"
    /\ registry' = Append(registry, t)
    /\ state' = [state EXCEPT ![t] = "working"]
    /\ send' = [send EXCEPT ![t] = "waiting"] /\ run' = [run EXCEPT ![t] = "running"]
    /\ UNCHANGED cancelled

\* createTask, transition to working, and runOrchestrator is called
Send(t) ==
    LET longer == Append(registry, t) IN
    /\ send[t] = "new"
    /\ registry' = IF Len(longer) > MaxTasks THEN Tail(longer) ELSE longer
    /\ state' = [state EXCEPT ![t] = "working"]
    /\ send' = [send EXCEPT ![t] = "waiting"] /\ run' = [run EXCEPT ![t] = "running"]
    /\ UNCHANGED cancelled

\* transitionTask throws when the task has been evicted, and the call with it
Settle(t, st) ==
    /\ state' = IF Found(t) THEN [state EXCEPT ![t] = st] ELSE state
    /\ send' = [send EXCEPT ![t] = IF Found(t) THEN "answered" ELSE "error"]
    /\ UNCHANGED <<registry, cancelled>>

\* the done or error event, or a rejection, reaches the waiting call
RunReports(t) ==
    /\ run[t] = "running" /\ run' = [run EXCEPT ![t] = "over"]
    /\ IF send[t] = "waiting" THEN \E st \in {"completed", "failed"} : Settle(t, st)
       ELSE UNCHANGED <<state, registry, send, cancelled>>

\* it resolves and no event comes
RunEndsSilently(t) ==
    /\ run[t] = "running" /\ run' = [run EXCEPT ![t] = "over"]
    /\ UNCHANGED <<state, registry, send, cancelled>>

(* Seeded fault: a run that has ended clears the timer. *)
TimesOutWhileRunning(t) ==
    /\ send[t] = "waiting" /\ run[t] = "running"
    /\ Settle(t, "failed")
    /\ UNCHANGED run

TimesOut(t) ==
    /\ send[t] = "waiting"
    /\ Settle(t, "failed")
    /\ UNCHANGED run

Cancel(t) ==
    /\ Found(t) /\ state[t] \notin Terminal
    /\ state' = [state EXCEPT ![t] = "canceled"]
    /\ cancelled' = cancelled \cup {t}
    /\ UNCHANGED <<registry, send, run>>

Next == \E t \in Tasks :
    \/ Send(t) \/ RunReports(t) \/ RunEndsSilently(t) \/ TimesOut(t) \/ Cancel(t)

\* the timer fires; how the orchestrator's run ends is left open
Fairness == \A t \in Tasks : WF_vars(TimesOut(t))

Spec == Init /\ [][Next]_vars /\ Fairness

-----------------------------------------------------------------------------
(* Every variable has its type, and only canceled tasks were cancelled. *)
TypeOK ==
    /\ state \in [Tasks -> {"none", "working"} \cup Terminal]
    /\ registry \in Seq(Tasks) /\ Len(registry) <= MaxTasks /\ IsInjective(registry)
    /\ send \in [Tasks -> {"new", "waiting", "answered", "error"}]
    /\ run \in [Tasks -> {"none", "running", "over"}]
    /\ cancelled \subseteq Tasks

(* Every message sent is answered, with an event, a timeout or an error,   *)
(* though its run may hang, end without a word, or end after the timeout,  *)
(* and a task that can still be found is then in a terminal state.         *)
SendsSettle ==
    (\E t \in Tasks : send[t] = "waiting") ~>
        \A t \in Tasks :
            send[t] # "waiting" /\ (send[t] # "new" /\ Found(t) => state[t] \in Terminal)

(* "Tasks already in a terminal state ... cannot be canceled": nor should  *)
(* one that has been canceled become completed.                            *)
CancelledStays == \A t \in cancelled : state[t] = "canceled"
=============================================================================
