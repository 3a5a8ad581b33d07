------------------------------ MODULE NipSessions ------------------------------
(***************************************************************************)
(* server/nipEngine.ts: the sessions of one organisation, its record of    *)
(* trust, and the identity of its instructor (server/identityEngine.ts).   *)
(* Every handler runs to its end before the next; a single message raises  *)
(* up to two alerts on its way, each of which may change the session it is *)
(* for, and is refused or appended after them.                             *)
(***************************************************************************)
EXTENDS Integers, FiniteSets

CONSTANTS
    Sessions,       \* bound: sessions created
    Limits,         \* bound: values of maxConcurrentSessions
    MaxMessages,    \* taskScope.maxMessages
    MessagesCap,    \* MAX_MESSAGES_CAP
    None

Ended == {"completed", "terminated", "locked"}
Open == {"negotiating", "active", "paused"}

NipAssumption ==
    /\ IsFiniteSet(Sessions) /\ None \notin Open \cup Ended
    /\ Limits \subseteq Nat \ {0}
    /\ MaxMessages \in Nat /\ MessagesCap \in Nat

VARIABLES
    state,      \* of each session, None before it is created
    messages,   \* how many messages it keeps
    spoken,     \* history: how many its two agents were allowed to say
    report,     \* the state its latest report was made in
    party,      \* the organisation's record in trustedPartyStore
    active      \* the instructor's identity is neither suspended nor banned

vars == <<state, messages, spoken, report, party, active>>

Live(st) == {s \in Sessions : st[s] \in Open}

Init ==
    /\ state = [s \in Sessions |-> None] /\ messages = [s \in Sessions |-> 0]
    /\ spoken = [s \in Sessions |-> 0] /\ report = [s \in Sessions |-> None]
    /\ party = None /\ active = TRUE

-----------------------------------------------------------------------------
(* The trusted party and the identity. *)

Register(n) ==
    /\ party = None
    /\ party' = [approved |-> FALSE, limit |-> n]
    /\ UNCHANGED <<state, messages, spoken, report, active>>

Approve ==
    /\ party # None
    /\ party' = [party EXCEPT !.approved = TRUE]
    /\ UNCHANGED <<state, messages, spoken, report, active>>

\* its sessions go on
Revoke ==
    /\ party # None
    /\ party' = None
    /\ UNCHANGED <<state, messages, spoken, report, active>>

\* suspend, ban, reactivate: its sessions go on
Moderate(b) ==
    /\ active' = b
    /\ UNCHANGED <<state, messages, spoken, report, party>>

-----------------------------------------------------------------------------
(* The sessions. *)

\* what _appendMessage leaves of n messages and k more
Appended(n, k) == IF n + k > MessagesCap THEN MessagesCap ELSE n + k

Keep(s, k) == messages' = [messages EXCEPT ![s] = Appended(@, k)]

Create(s) ==
    /\ state[s] = None
    /\ party # None /\ party.approved /\ active
    /\ Cardinality(Live(state)) < party.limit
    /\ state' = [state EXCEPT ![s] = "negotiating"] /\ Keep(s, 1)
    /\ UNCHANGED <<spoken, report, party, active>>

\* a handler's own change of state, with the message that tells of it
Turns(s, from, to) ==
    /\ state[s] \in from
    /\ state' = [state EXCEPT ![s] = to] /\ Keep(s, 1)
    /\ UNCHANGED <<spoken, party, active>>

Pause(s) == Turns(s, {"active", "negotiating"}, "paused") /\ UNCHANGED report

\* the only way to "active": negotiateSession never succeeds
Resume(s) == Turns(s, {"paused"}, "active") /\ UNCHANGED report

Terminate(s) == Turns(s, Open \cup {"locked"}, "terminated") /\ UNCHANGED report

\* with its report
Complete(s) ==
    /\ Turns(s, {"active"}, "completed")
    /\ report' = [report EXCEPT ![s] = "completed"]

GenerateReport(s) ==
    /\ state[s] \in Ended
    /\ report' = [report EXCEPT ![s] = state[s]]
    /\ UNCHANGED <<state, messages, spoken, party, active>>

\* the automatic actions of triggerAlert, for a session in state st
Paused(st) == IF st \in {"active", "negotiating"} THEN "paused" ELSE st
Stopped(st) == IF st \in {"terminated", "completed"} THEN st ELSE "terminated"

\* a message raises k alerts and is refused after the last, which leaves st
Refused(s, k, st) ==
    /\ state' = [state EXCEPT ![s] = st] /\ Keep(s, k)
    /\ UNCHANGED spoken

\* of checkRateLimit, the part that is not about time
HasRoom(s) == messages[s] < MaxMessages

\* by an agent, or as the system or the monitor, which may in any state
Speak(s) == \E agent \in BOOLEAN, injected \in BOOLEAN, drifted \in BOOLEAN :
    LET warned == (IF injected THEN 1 ELSE 0) + (IF drifted THEN 1 ELSE 0) IN
    /\ state[s] # None /\ (agent => state[s] = "active") /\ (drifted => agent)
    /\ \/ Refused(s, 1, Paused(state[s]))                       \* too fast, too many, too late
       \/ /\ HasRoom(s)
          /\ \/ Refused(s, 1, "locked")                         \* a critical injection
             \/ Refused(s, 1, Paused(state[s]))                 \* a high one
             \/ drifted /\ Refused(s, warned, Paused(state[s])) \* a forbidden action
             \/ Refused(s, warned + 1, Stopped(state[s]))       \* its time ran out meanwhile
             \/ /\ Keep(s, warned + 1) /\ UNCHANGED state
                /\ spoken' = [spoken EXCEPT ![s] = IF agent THEN @ + 1 ELSE @]
    /\ UNCHANGED <<report, party, active>>

Next ==
    \/ \E n \in Limits : Register(n)
    \/ Approve \/ Revoke
    \/ \E b \in BOOLEAN : Moderate(b)
    \/ \E s \in Sessions :
          \/ Create(s) \/ Pause(s) \/ Resume(s) \/ Terminate(s) \/ Complete(s)
          \/ GenerateReport(s) \/ Speak(s)

-----------------------------------------------------------------------------
(* Every variable has its type. *)
TypeOK ==
    /\ state \in [Sessions -> Open \cup Ended \cup {None}]
    /\ messages \in [Sessions -> 0 .. MessagesCap]
    /\ spoken \in [Sessions -> Nat]
    /\ report \in [Sessions -> Ended \cup {None}]
    /\ party \in [approved : BOOLEAN, limit : Limits] \cup {None}
    /\ active \in BOOLEAN

(* "Validates that the instructor's organisation has a registered,         *)
(* approved TrustedParty record and that it has not exceeded its           *)
(* concurrent session limit": whatever alerts, operators and agents do,    *)
(* no session becomes live otherwise, be it new, resumed or ended before.  *)
AdmittedOnly ==
    Live(state') \subseteq Live(state)
        \/ /\ party # None /\ party.approved /\ active
           /\ Cardinality(Live(state')) <= party.limit
LiveWithinLimit == [][AdmittedOnly]_vars

(* "Hard cap on total messages exchanged": the limit of the session's task *)
(* bounds what its two agents get to say.                                  *)
HardCap == \A s \in Sessions : spoken[s] <= MaxMessages

(* It does if the limit is not above the number of messages kept: the list *)
(* it is compared with loses its oldest, but no longer counts below it.    *)
HeardWithinLimit == MaxMessages <= MessagesCap => HardCap

(* "Session is still in progress" is never said of a session that has been *)
(* reported: no report is of one that can go on.                           *)
ReportsOfEnded == \A s \in Sessions : report[s] # None => state[s] \in Ended
=============================================================================
