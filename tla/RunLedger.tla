------------------------------- MODULE RunLedger -------------------------------
(***************************************************************************)
(* What server/durableExecution.ts promises the orchestrator, without its  *)
(* files: a workflow is held by one process, an execution that has acted   *)
(* is never handed to another, and an outcome is final. DurableRun is      *)
(* shown to implement it when one process owns the state (private mode).   *)
(***************************************************************************)
CONSTANTS Processes, Workflows, Nobody

VARIABLES
  up,       \* the live processes
  phase,    \* phase[w]: "absent", "running" or an outcome
  holder,   \* holder[w]: the process the execution was last given to
  acted     \* acted[w]: a tool or provider action has happened

ledgerVars == <<up, phase, holder, acted>>

Outcomes == {"completed", "failed", "interrupted"}

Init ==
  /\ up = {}
  /\ phase = [w \in Workflows |-> "absent"]
  /\ holder = [w \in Workflows |-> Nobody]
  /\ acted = [w \in Workflows |-> FALSE]

Join(p) == up' = up \cup {p} /\ UNCHANGED <<phase, holder, acted>>

Leave(p) == up' = up \ {p} /\ UNCHANGED <<phase, holder, acted>>

(* The first execution. *)
Claim(p, w) ==
  /\ p \in up /\ phase[w] = "absent"
  /\ phase' = [phase EXCEPT ![w] = "running"]
  /\ holder' = [holder EXCEPT ![w] = p]
  /\ UNCHANGED <<up, acted>>

(* A dead holder that did nothing yet is replaced. *)
Resume(p, w) ==
  /\ p \in up /\ phase[w] = "running" /\ holder[w] \notin up /\ ~acted[w]
  /\ holder' = [holder EXCEPT ![w] = p]
  /\ UNCHANGED <<up, phase, acted>>

Act(p, w) ==
  /\ p \in up /\ phase[w] = "running" /\ holder[w] = p
  /\ acted' = [acted EXCEPT ![w] = TRUE]
  /\ UNCHANGED <<up, phase, holder>>

(* The holder reports how it ended. *)
Close(p, w) ==
  /\ p \in up /\ phase[w] = "running" /\ holder[w] = p
  /\ \E o \in {"completed", "failed"} : phase' = [phase EXCEPT ![w] = o]
  /\ UNCHANGED <<up, holder, acted>>

(* Any process may record that a dead holder's execution was interrupted. *)
Interrupt(p, w) ==
  /\ p \in up /\ phase[w] = "running" /\ holder[w] \notin up
  /\ phase' = [phase EXCEPT ![w] = "interrupted"]
  /\ UNCHANGED <<up, holder, acted>>

Next == \E p \in Processes :
  \/ Join(p) \/ Leave(p)
  \/ \E w \in Workflows : \/ Claim(p, w) \/ Resume(p, w) \/ Act(p, w)
                          \/ Close(p, w) \/ Interrupt(p, w)

Spec == Init /\ [][Next]_ledgerVars
=============================================================================
