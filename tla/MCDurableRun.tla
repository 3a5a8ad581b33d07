----------------------------- MODULE MCDurableRun -----------------------------
(* Instances of DurableRun: one or two workflows, up to three incarnations. *)
EXTENDS DurableRun, TLC

CONSTANTS p1, p2, p3, w1, k1, k2, c1, c2

Message(w, k, c) == [workflowId |-> w, idempotencyKey |-> k, conversationId |-> c]
(* The same workflow id claimed with another key, and in another chat. *)
Conflicting == {Message(w1, k1, c1), Message(w1, k2, c2)}

MCStepIds == {"memory.recall", "tool"}

OwnPid   == [p \in Processes |-> p]
OneSpace == [p \in Processes |-> "host"]
(* Safety runs only: incarnations that differ in nothing but their pid. *)
Interchangeable == Permutations(Processes)
=============================================================================
