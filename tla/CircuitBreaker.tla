---------------------------- MODULE CircuitBreaker ----------------------------
(***************************************************************************)
(* One breaker of server/circuitBreaker.ts.  The half-open counters belong *)
(* to the breaker and not to a period: a probe admitted in one half-open   *)
(* period may end when the breaker has been opened, closed or half-opened  *)
(* again, and counts then all the same.  A function that throws before it  *)
(* returns a promise leaves through _executeHalfOpen with its slot counted *)
(* and no handler to give it back.                                         *)
(***************************************************************************)
EXTENDS Integers, FiniteSets

CONSTANTS
    Calls,                  \* bound: calls in flight at a time
    FailureThreshold, SuccessThreshold, HalfOpenMaxConcurrent

BreakerAssumption ==
    /\ IsFiniteSet(Calls)
    /\ FailureThreshold \in Nat \ {0} /\ SuccessThreshold \in Nat \ {0}
    /\ HalfOpenMaxConcurrent \in Nat \ {0}

VARIABLES
    state,
    timedOut,   \* the timeout has passed since openedAt
    failures,   \* failureTimestamps, counted up to FailureThreshold
    successes,  \* halfOpenSuccesses
    inflight,   \* halfOpenInflight
    leaked,     \* history: how many it counts of functions that threw
    call        \* "plain" and "probe": a call admitted when closed, when half-open

vars == <<state, timedOut, failures, successes, inflight, leaked, call>>

Probes == {c \in Calls : call[c] = "probe"}

Init ==
    /\ state = "CLOSED" /\ timedOut = FALSE
    /\ failures = 0 /\ successes = 0 /\ inflight = 0 /\ leaked = 0
    /\ call = [c \in Calls |-> "idle"]

-----------------------------------------------------------------------------
(* The transitions. *)

TransitionToOpen ==
    /\ state' = "OPEN" /\ timedOut' = FALSE
    /\ successes' = 0 /\ inflight' = 0 /\ leaked' = 0

TransitionToClosed ==
    /\ state' = "CLOSED" /\ timedOut' = FALSE
    /\ failures' = 0 /\ successes' = 0 /\ inflight' = 0 /\ leaked' = 0

\* _recordFailure: any number of the oldest may have left the window by now
RecordFailure ==
    failures' \in 1 .. (IF failures < FailureThreshold THEN failures + 1 ELSE FailureThreshold)

-----------------------------------------------------------------------------
(* The actions. *)

TimePasses ==
    /\ state = "OPEN" /\ ~timedOut
    /\ timedOut' = TRUE
    /\ UNCHANGED <<state, failures, successes, inflight, leaked, call>>

\* _maybeTryRecover, when getState or getStats asks
Recover ==
    /\ state = "OPEN" /\ timedOut
    /\ state' = "HALF_OPEN" /\ successes' = 0 /\ inflight' = 0 /\ leaked' = 0
    /\ UNCHANGED <<timedOut, failures, call>>

\* _executeClosed
ExecuteClosed(c) ==
    /\ call[c] = "idle" /\ state = "CLOSED"
    /\ call' = [call EXCEPT ![c] = "plain"]
    /\ UNCHANGED <<state, timedOut, failures, successes, inflight, leaked>>

\* execute: recovery comes first, then the probe is counted, with what lost is of leaked
AdmitProbe(lost) ==
    /\ \/ /\ state = "OPEN" /\ timedOut
          /\ state' = "HALF_OPEN" /\ successes' = 0 /\ inflight' = 1 /\ leaked' = lost
       \/ /\ state = "HALF_OPEN" /\ inflight < HalfOpenMaxConcurrent
          /\ inflight' = inflight + 1 /\ leaked' = leaked + lost
          /\ UNCHANGED <<state, successes>>
    /\ UNCHANGED <<timedOut, failures>>

ExecuteHalfOpen(c) ==
    /\ call[c] = "idle"
    /\ AdmitProbe(0)
    /\ call' = [call EXCEPT ![c] = "probe"]

\* the function throws instead of returning a promise: no handler sees it
ProbeThrows == AdmitProbe(1) /\ UNCHANGED call

PlainSucceeds(c) ==
    /\ call[c] = "plain"
    /\ call' = [call EXCEPT ![c] = "idle"]
    /\ UNCHANGED <<state, timedOut, failures, successes, inflight, leaked>>

\* the threshold opens the breaker whatever its state is by now
PlainFails(c) ==
    /\ call[c] = "plain"
    /\ call' = [call EXCEPT ![c] = "idle"]
    /\ RecordFailure
    /\ IF failures' >= FailureThreshold THEN TransitionToOpen
       ELSE UNCHANGED <<state, timedOut, successes, inflight, leaked>>

(* Seeded fault: a successful probe keeps its slot. *)
ProbeSucceedsHeld(c) ==
    /\ call[c] = "probe"
    /\ call' = [call EXCEPT ![c] = "idle"]
    /\ IF successes + 1 >= SuccessThreshold THEN TransitionToClosed
       ELSE /\ successes' = successes + 1
            /\ UNCHANGED <<state, timedOut, failures, inflight, leaked>>

ProbeSucceeds(c) ==
    /\ call[c] = "probe"
    /\ call' = [call EXCEPT ![c] = "idle"]
    /\ IF successes + 1 >= SuccessThreshold THEN TransitionToClosed
       ELSE /\ successes' = successes + 1 /\ inflight' = inflight - 1
            /\ UNCHANGED <<state, timedOut, failures, leaked>>

ProbeFails(c) ==
    /\ call[c] = "probe"
    /\ call' = [call EXCEPT ![c] = "idle"]
    /\ RecordFailure /\ TransitionToOpen

\* trip() and reset() by an operator
Trip == TransitionToOpen /\ UNCHANGED <<failures, call>>
Reset == TransitionToClosed /\ UNCHANGED call

Next ==
    \/ TimePasses \/ Recover \/ Trip \/ Reset \/ ProbeThrows
    \/ \E c \in Calls :
        \/ ExecuteClosed(c) \/ ExecuteHalfOpen(c)
        \/ PlainSucceeds(c) \/ PlainFails(c) \/ ProbeSucceeds(c) \/ ProbeFails(c)

Spec == Init /\ [][Next]_vars

-----------------------------------------------------------------------------
(* Every variable has its type; the slots in use may be negative, since a  *)
(* probe of an earlier period gives back a slot it does not have.          *)
TypeOK ==
    /\ state \in {"CLOSED", "OPEN", "HALF_OPEN"} /\ timedOut \in BOOLEAN
    /\ failures \in 0 .. FailureThreshold
    /\ successes \in 0 .. SuccessThreshold - 1
    /\ inflight \in Int /\ leaked \in Nat
    /\ call \in [Calls -> {"idle", "plain", "probe"}]

(* The "concurrent requests" halfOpenMaxConcurrent limits: a slot that     *)
(* counts as taken is held by a probe still in flight, so that a half-open *)
(* breaker which turns calls away is waiting for one that will end.        *)
SlotsAreHeld == inflight <= Cardinality(Probes)

(* Where no function throws before it returns its promise, this is so:     *)
(* probes that end in a later period, trips and resets never leave a slot  *)
(* taken for good.  Every other slot in use is one such a function leaked. *)
SlotsAccounted == inflight <= Cardinality(Probes) + leaked
=============================================================================
