---------------------------- MODULE ModelSpending ----------------------------
(***************************************************************************)
(* Paying for model calls: the monthly spending ledger                     *)
(* (server/spendGuard.ts), the per-run model budget                        *)
(* (server/modelRunBudget.ts), and the callers that go through both: the   *)
(* text paths of server/modelRouter.ts (guardedGenerateCore, chatStream)   *)
(* under the retry-and-fallback wrapper of server/errorRecovery.ts, and    *)
(* the image tool (server/imageGenTool.ts).                                *)
(*                                                                         *)
(* A reservation row is written before the provider is called and becomes  *)
(* a ledger row when the call ends.  The provider is external: it accepts  *)
(* a request or not, generates and bills at its own pace - also after the  *)
(* client has given up or died - and need not report its usage.  What it   *)
(* does report is normalised by the adapters of server/models, and those   *)
(* of Understated models leave billed tokens out.                          *)
(*                                                                         *)
(* The SQL sums of totalsForMonth are kept as running totals next to the   *)
(* rows they add up (TotalsAreSums).  Prices are one number per token for  *)
(* a model, input and output alike; 0 is a verified local model, for which *)
(* nothing is reserved.                                                    *)
(***************************************************************************)
EXTENDS Integers, Functions

CONSTANTS
    Texts,          \* model calls of the orchestrator
    Images,         \* calls of the image tool
    Runs,           \* user turns, each with a run budget of its own
    RunOf,          \* the run of a text call
    Input,          \* conservative input tokens of a text call
    Output,         \* its output allowance (maxOutputTokens)
    Price,          \* [primary, fallback]: price of a token, 0 = verified local
    AdmissionPrice, \* ADMISSION_USD_PER_MILLION, the least admission price
    Unpriced,       \* the models of no known price, which are refused
    Understated,    \* the models whose adapter leaves billed tokens out
    ImageCost,      \* fixed cost of an image call
    HardMax,        \* HARD_MAX_NANO_USD
    MaxCalls, MaxInput, MaxOutput,  \* the run budget: 16, 64000, 32768
    MaxRetries,     \* attempts on the primary model
    Limits,         \* bound: the settings of spend_limit_usd tried
    MaxIds,         \* bound: requests dispatched
    LastMonth,      \* bound: UTC months, 1 .. LastMonth
    MaxCrashes      \* bound: process deaths

Calls  == Texts \cup Images
Months == 1 .. LastMonth
Ids    == 1 .. MaxIds
Targets == {"primary", "fallback"}

ASSUME SpendingAssumption ==
    /\ Texts \cap Images = {}
    /\ RunOf \in [Texts -> Runs]
    /\ Input \in [Texts -> Nat]
    /\ Output \in [Texts -> Nat \ {0}]
    /\ Price \in [Targets -> Nat]
    /\ Unpriced \subseteq Targets
    /\ Understated \subseteq Targets
    /\ AdmissionPrice \in Nat \ {0}
    /\ ImageCost \in Nat
    /\ HardMax \in Nat
    /\ {MaxCalls, MaxInput, MaxOutput, MaxIds, LastMonth, MaxCrashes} \subseteq Nat
    /\ MaxRetries \in Nat \ {0}
    /\ LastMonth >= 1
    /\ Limits \subseteq 0 .. HardMax

VARIABLES
    limit,      \* getSpendLimitNanoUsd()
    month,      \* utcMonth()
    rows,       \* spend_reservations_v2
    ledger,     \* spend_ledger_v2
    recorded,   \* SUM(cost_nano_usd) of each month
    reserved,   \* SUM(reserved_nano_usd) of each month
    budget,     \* the RunBudget of each run
    call,       \* where each call's coroutine is
    usage,      \* the output tokens last reported to a text call
    sent,       \* requests dispatched so far; the last one's id
    attempts,   \* what each request was and what the provider did for it
    crashes

tables == <<rows, ledger, recorded, reserved>>
vars == <<limit, month, tables, budget, call, usage, sent, attempts, crashes>>

NotAccepted == -1   \* the provider has not taken the request up
NoUsage == -1       \* the provider has reported no usage
NoRow == [month |-> 0, amount |-> 0]
NoAttempt == [call |-> "none", target |-> "primary", month |-> 0,
              made |-> NotAccepted, open |-> FALSE, dead |-> FALSE]

-----------------------------------------------------------------------------
(* Prices. *)

Larger(a, b) == IF a >= b THEN a ELSE b

(* Seeded fault: the admission price even for a dearer model. *)
ReservationAtAdmissionPrice(c, t) == AdmissionPrice * (Input[c] + Output[c])

\* reserveModelRequest: both token counts at the larger of the two prices
TokenReservation(c, t) == Larger(Price[t], AdmissionPrice) * (Input[c] + Output[c])

\* exactTokenCostNanoUsd of the usage the adapter reports
UsageCost(t, in, out) == Price[t] * (in + out)

\* What an adapter makes of n billed tokens: Anthropic's drops the input that
\* was written to or read from its cache, Google's the output spent thinking.
Reported(t, n) == IF t \in Understated THEN 0 .. n ELSE {n}

\* what a request may generate: an image is one delivery
Allowance(c) == IF c \in Images THEN 0 ELSE Output[c]

Committed(m) == recorded[m] + reserved[m]

-----------------------------------------------------------------------------
(* The ledger.  Each of these is one immediate SQLite transaction. *)

(* Seeded fault: active reservations are left out of the sum. *)
AdmissibleByLedger(amount) == recorded[month] + amount <= limit

Admissible(amount) == Committed(month) + amount <= limit

SpendingAdmits(c, t) ==
    Price[t] = 0 \/ (t \notin Unpriced /\ Admissible(TokenReservation(c, t)))

Reserve(id, amount) ==
    /\ rows' = [rows EXCEPT ![id] = [month |-> month, amount |-> amount]]
    /\ reserved' = [reserved EXCEPT ![month] = @ + amount]
    /\ UNCHANGED <<ledger, recorded>>

\* settleModelReservation, settleFixedReservation: one ledger row for the
\* reservation row, booked in the month of the reservation
SettleAt(id, cost) ==
    /\ rows[id] # NoRow
    /\ ledger' = [ledger EXCEPT ![id] = [month |-> rows[id].month, amount |-> cost]]
    /\ rows' = [rows EXCEPT ![id] = NoRow]
    /\ recorded' = [recorded EXCEPT ![rows[id].month] = @ + cost]
    /\ reserved' = [reserved EXCEPT ![rows[id].month] = @ - rows[id].amount]

\* settleModelReservation with a usage, or without one when out = NoUsage;
\* a verified local model has no reservation and nothing to settle
SettleText(c, in, out) ==
    LET id == call[c].id
        t == call[c].target
    IN  IF Price[t] = 0 THEN UNCHANGED tables
        ELSE SettleAt(id, IF out = NoUsage THEN rows[id].amount
                                           ELSE UsageCost(t, in, out))

\* The image tool settles at the fixed cost whatever the answer.
SettleImage(c) == SettleAt(call[c].id, rows[call[c].id].amount)

-----------------------------------------------------------------------------
(* The run budget. *)

NewBudget == [calls |-> 0, input |-> 0, output |-> 0, reservedOutput |-> 0]

(* Seeded fault: outputs promised to calls in flight are not counted. *)
WithinRunSettled(c) ==
    LET b == budget[RunOf[c]]
    IN  /\ b.calls < MaxCalls
        /\ b.input + Input[c] <= MaxInput
        /\ b.output + Output[c] <= MaxOutput

WithinRun(c) ==
    LET b == budget[RunOf[c]]
    IN  /\ b.calls < MaxCalls
        /\ b.input + Input[c] <= MaxInput
        /\ b.output + b.reservedOutput + Output[c] <= MaxOutput

AdmitToRun(c) ==
    budget' = [budget EXCEPT ![RunOf[c]].calls = @ + 1,
                             ![RunOf[c]].input = @ + Input[c],
                             ![RunOf[c]].reservedOutput = @ + Output[c]]

(* Seeded fault: a spending refusal keeps the output it was promised. *)
AdmitAndKeep(c) == AdmitToRun(c)

\* a spending refusal settles with no output; the call and its input stay counted
AdmitAndRelease(c) ==
    budget' = [budget EXCEPT ![RunOf[c]].calls = @ + 1,
                             ![RunOf[c]].input = @ + Input[c]]

\* the once-only settle of admitModelAttempt: usage?.outputTokens ?? output
SettleRun(c, out) ==
    budget' = [budget EXCEPT
                 ![RunOf[c]].reservedOutput = @ - Output[c],
                 ![RunOf[c]].output = @ + (IF out = NoUsage THEN Output[c] ELSE out)]

-----------------------------------------------------------------------------
(* Retry and fallback. *)

NewCall == [phase |-> "ready", target |-> "primary", tries |-> 0, id |-> 0]

(* Seeded fault: the retries on the primary model are not counted. *)
AfterFailureUncounted(c, fatal, other) ==
    LET k == call[c]
    IN  IF k.target = "primary" /\ ~fatal /\ k.tries < MaxRetries
        THEN [k EXCEPT !.phase = "backoff", !.id = 0]
        ELSE IF k.target = "primary" /\ other
        THEN [k EXCEPT !.phase = "ready", !.target = "fallback", !.id = 0]
        ELSE [k EXCEPT !.phase = "failed", !.id = 0]

\* what withRetryAndFallback does with the failure of one attempt: `fatal' is
\* an ExecutionFailure, an auth or a model error; `other' that getFallbackModel
\* finds another model
AfterFailure(c, fatal, other) ==
    LET k == call[c]
        tries == k.tries + 1
    IN  IF k.target = "primary" /\ ~fatal /\ tries < MaxRetries
        THEN [k EXCEPT !.phase = "backoff", !.tries = tries, !.id = 0]
        ELSE IF k.target = "primary" /\ other
        THEN [k EXCEPT !.phase = "ready", !.target = "fallback", !.tries = tries, !.id = 0]
        ELSE [k EXCEPT !.phase = "failed", !.tries = tries, !.id = 0]

Fails(c, fatal) == \E other \in BOOLEAN :
    call' = [call EXCEPT ![c] = AfterFailure(c, fatal, other)]

-----------------------------------------------------------------------------
Init ==
    /\ limit \in Limits
    /\ month = 1
    /\ rows = [id \in Ids |-> NoRow]
    /\ ledger = [id \in Ids |-> NoRow]
    /\ recorded = [m \in Months |-> 0]
    /\ reserved = [m \in Months |-> 0]
    /\ budget = [r \in Runs |-> NewBudget]
    /\ call = [c \in Calls |-> NewCall]
    /\ usage = [c \in Texts |-> NoUsage]
    /\ sent = 0
    /\ attempts = [id \in Ids |-> NoAttempt]
    /\ crashes = 0

Dispatch(c, t) ==
    /\ sent' = sent + 1
    /\ attempts' = [attempts EXCEPT ![sent + 1] =
         [call |-> c, target |-> t, month |-> month,
          made |-> NotAccepted, open |-> TRUE, dead |-> FALSE]]
    /\ call' = [call EXCEPT ![c].phase = "sent", ![c].id = sent + 1]

\* guardedGenerateCore and chatStream up to the provider call, in one
\* synchronous stretch: run budget, then spending, then dispatch
AdmitText(c) ==
    LET t == call[c].target
    IN  /\ call[c].phase = "ready"
        /\ WithinRun(c)
        /\ sent < MaxIds
        /\ SpendingAdmits(c, t)
        /\ AdmitToRun(c)
        /\ IF Price[t] = 0
           THEN UNCHANGED tables
           ELSE Reserve(sent + 1, TokenReservation(c, t))
        /\ Dispatch(c, t)
        /\ usage' = [usage EXCEPT ![c] = NoUsage]
        /\ UNCHANGED <<limit, month, crashes>>

\* no model routable or capable: thrown before either admission
NotRouted(c) ==
    /\ call[c].phase = "ready"
    /\ Fails(c, FALSE)
    /\ UNCHANGED <<limit, month, tables, budget, usage, sent, attempts, crashes>>

\* model_run_budget, an ExecutionFailure
RunBudgetRefuses(c) ==
    /\ call[c].phase = "ready"
    /\ ~WithinRun(c)
    /\ Fails(c, TRUE)
    /\ UNCHANGED <<limit, month, tables, budget, usage, sent, attempts, crashes>>

\* SpendLimitError or UnknownModelPriceError, of no class withRetryAndFallback knows
SpendingRefuses(c) ==
    LET t == call[c].target
    IN  /\ call[c].phase = "ready"
        /\ WithinRun(c)
        /\ ~SpendingAdmits(c, t)
        /\ AdmitAndRelease(c)
        /\ Fails(c, FALSE)
        /\ UNCHANGED <<limit, month, tables, usage, sent, attempts, crashes>>

Attempt(c) == attempts[call[c].id]

\* response.usage: the tokens generated so far, as the adapter reports them
UsageEvent(c) ==
    /\ call[c].phase = "sent"
    /\ Attempt(c).made # NotAccepted
    /\ \E out \in Reported(call[c].target, Attempt(c).made) :
          usage' = [usage EXCEPT ![c] = out]
    /\ UNCHANGED <<limit, month, tables, budget, call, sent, attempts, crashes>>

\* The provider completes; the last usage reported, if any, is of its total.
\* With no answer, or one cut short, requireProviderCompletion then throws.
Completes(c, good) ==
    /\ call[c].phase = "sent"
    /\ Attempt(c).made # NotAccepted
    /\ usage[c] \in {NoUsage} \cup Reported(call[c].target, Attempt(c).made)
    /\ \E in \in Reported(call[c].target, Input[c]) : SettleText(c, in, usage[c])
    /\ SettleRun(c, usage[c])
    /\ IF good THEN call' = [call EXCEPT ![c].phase = "done", ![c].id = 0]
               ELSE Fails(c, TRUE)
    /\ attempts' = [attempts EXCEPT ![call[c].id].open = FALSE]
    /\ UNCHANGED <<limit, month, usage, sent, crashes>>

(* Seeded fault: a broken stream is charged what it had reported so far. *)
BreaksAtUsage(c, fatal) ==
    /\ call[c].phase = "sent"
    /\ SettleText(c, Input[c], usage[c])
    /\ SettleRun(c, NoUsage)
    /\ Fails(c, fatal)
    /\ UNCHANGED <<limit, month, usage, sent, attempts, crashes>>

(* Seeded fault: a failed call leaves its reservation behind. *)
BreaksUnsettled(c, fatal) ==
    /\ call[c].phase = "sent"
    /\ SettleRun(c, NoUsage)
    /\ Fails(c, fatal)
    /\ UNCHANGED <<limit, month, tables, usage, sent, attempts, crashes>>

\* A transport or provider error, a stream that ends without completing:
\* the provider may have billed, whatever usage it had reported.
Breaks(c, fatal) ==
    /\ call[c].phase = "sent"
    /\ SettleText(c, Input[c], NoUsage)
    /\ SettleRun(c, NoUsage)
    /\ Fails(c, fatal)
    /\ UNCHANGED <<limit, month, usage, sent, attempts, crashes>>

\* the backoff timer of withRetryAndFallback
Wake(c) ==
    /\ call[c].phase = "backoff"
    /\ call' = [call EXCEPT ![c].phase = "ready"]
    /\ UNCHANGED <<limit, month, tables, budget, usage, sent, attempts, crashes>>

AdmitImage(c) ==
    /\ call[c].phase = "ready"
    /\ IF Admissible(ImageCost)
       THEN /\ sent < MaxIds
            /\ Reserve(sent + 1, ImageCost)
            /\ Dispatch(c, "primary")
       ELSE /\ call' = [call EXCEPT ![c].phase = "failed"]
            /\ UNCHANGED <<tables, sent, attempts>>
    /\ UNCHANGED <<limit, month, budget, usage, crashes>>

ImageAnswered(c, good) ==
    /\ call[c].phase = "sent"
    /\ SettleImage(c)
    /\ call' = [call EXCEPT ![c].phase = IF good THEN "done" ELSE "failed", ![c].id = 0]
    /\ UNCHANGED <<limit, month, budget, usage, sent, attempts, crashes>>

-----------------------------------------------------------------------------
(* Around the calls. *)

\* external: the provider accepts, then generates within the allowance it was
\* given, and bills every token - whether or not the client still listens
Generate(id) ==
    /\ id <= sent
    /\ attempts[id].open
    /\ attempts[id].made < Allowance(attempts[id].call)
    /\ attempts' = [attempts EXCEPT ![id].made = @ + 1]
    /\ UNCHANGED <<limit, month, tables, budget, call, usage, sent, crashes>>

\* POST /api/settings
SetLimit(l) ==
    /\ l # limit
    /\ limit' = l
    /\ UNCHANGED <<month, tables, budget, call, usage, sent, attempts, crashes>>

MonthTurns ==
    /\ month < LastMonth
    /\ month' = month + 1
    /\ UNCHANGED <<limit, tables, budget, call, usage, sent, attempts, crashes>>

\* The process dies and starts again: the tables stay, the coroutines and the
\* run budgets (an AsyncLocalStorage) do not; the user's turns are run anew.
Crash ==
    /\ crashes < MaxCrashes
    /\ crashes' = crashes + 1
    /\ budget' = [r \in Runs |-> NewBudget]
    /\ call' = [c \in Calls |-> NewCall]
    /\ usage' = [c \in Texts |-> NoUsage]
    /\ attempts' = [id \in Ids |->
         IF id <= sent THEN [attempts[id] EXCEPT !.dead = TRUE] ELSE NoAttempt]
    /\ UNCHANGED <<limit, month, tables, sent>>

TextStep(c) ==
    \/ AdmitText(c) \/ NotRouted(c) \/ RunBudgetRefuses(c) \/ SpendingRefuses(c)
    \/ UsageEvent(c) \/ Wake(c)
    \/ \E good \in BOOLEAN : Completes(c, good)
    \/ \E fatal \in BOOLEAN : Breaks(c, fatal)

ImageStep(c) ==
    \/ AdmitImage(c)
    \/ \E good \in BOOLEAN : ImageAnswered(c, good)

Next ==
    \/ \E c \in Texts : TextStep(c)
    \/ \E c \in Images : ImageStep(c)
    \/ \E id \in Ids : Generate(id)
    \/ \E l \in Limits : SetLimit(l)
    \/ MonthTurns
    \/ Crash

Spec == Init /\ [][Next]_vars

-----------------------------------------------------------------------------
Row == [month : Months, amount : Nat]
AttemptRecord ==
    [call : Calls, target : Targets, month : Months,
     made : Int, open : BOOLEAN, dead : BOOLEAN]
CallRecord ==
    [phase : {"ready", "sent", "backoff", "done", "failed"}, target : Targets,
     tries : Nat, id : 0 .. MaxIds]
RunBudget == [calls : Nat, input : Nat, output : Nat, reservedOutput : Int]

\* Every variable holds what the tables and the coroutines can hold.
TypeOK ==
    /\ limit \in 0 .. HardMax
    /\ month \in Months
    /\ rows \in [Ids -> Row \cup {NoRow}]
    /\ ledger \in [Ids -> Row \cup {NoRow}]
    /\ recorded \in [Months -> Nat]
    /\ reserved \in [Months -> Int]
    /\ budget \in [Runs -> RunBudget]
    /\ call \in [Calls -> CallRecord]
    /\ usage \in [Texts -> Nat \cup {NoUsage}]
    /\ sent \in 0 .. MaxIds
    /\ attempts \in [Ids -> AttemptRecord \cup {NoAttempt}]
    /\ crashes \in Nat

Sent == 1 .. sent

\* The running totals are the sums totalsForMonth asks SQLite for, and the
\* reserved output of a run is what its calls in flight were promised: no
\* amount is released twice, or not at all, however a call ends.
TotalsAreSums ==
    /\ \A m \in Months :
         LET In(table) == {id \in Ids : table[id] # NoRow /\ table[id].month = m}
             Amount(table) == [id \in Ids |-> table[id].amount]
         IN  /\ recorded[m] = SumFunctionOnSet(Amount(ledger), In(ledger))
             /\ reserved[m] = SumFunctionOnSet(Amount(rows), In(rows))
    /\ \A r \in Runs : budget[r].reservedOutput =
         SumFunctionOnSet(Output, {c \in Texts : RunOf[c] = r /\ call[c].phase = "sent"})

\* Committed ledger cost plus active reservations never exceed the ceiling the
\* setting is clamped to, in any month: not when the setting moves, a request
\* settles after its month has turned, or a process dies between admission and
\* settlement.
WithinCeiling == \A m \in Months : Committed(m) <= HardMax

\* What the provider has billed for a request.
Bill(a) == IF a.made = NotAccepted THEN 0
           ELSE IF a.call \in Images THEN ImageCost
           ELSE Price[a.target] * (Input[a.call] + a.made)

Paid(a) == a.call \in Images \/ Price[a.target] # 0

\* "Conservative Standard-rate bounds ... Anthropic includes the adapter's
\* five-minute cache writes. These are budget bounds, not invoices": what a paid
\* request is held with is at least what its provider has billed.
EveryBillHeld ==
    \A id \in Sent : Paid(attempts[id]) =>
        \E table \in {rows, ledger} : /\ table[id] # NoRow
                                     /\ table[id].amount >= Bill(attempts[id])

\* A request whose reported usage, if it was settled by one, is what was billed.
Metered(a) == a.open \/ a.target \notin Understated

\* Every paid request is held in exactly one of the two tables, under the month
\* it was admitted in, and with at least what its provider has billed so far -
\* also after the client gave up or died and the provider went on generating.
\* The one exception: completed requests whose adapter understates their usage.
BillsHeld ==
    \A id \in Sent : Paid(attempts[id]) =>
        \E table \in {rows, ledger} :
            /\ table[id] # NoRow
            /\ table[id].month = attempts[id].month
            /\ Metered(attempts[id]) => table[id].amount >= Bill(attempts[id])
            /\ \A other \in {rows, ledger} : other[id] # NoRow => other = table

\* A reservation outlives its call only when the process died under it.
OnlyTheDeadStayReserved ==
    \A id \in Sent :
        rows[id] # NoRow => \/ attempts[id].dead
                           \/ \E c \in Calls : call[c].phase = "sent" /\ call[c].id = id

\* The output a run's requests have generated since the run began stays below
\* what its budget has counted or promised, and that stays below the run's
\* maximum: parallel workers, retries and fallbacks share one allowance.  (Of
\* the outputs an adapter understates only the reported part is counted.)
RunOutputBounded ==
    \A r \in Runs :
        LET mine == {id \in Sent : /\ attempts[id].call \in Texts
                                  /\ RunOf[attempts[id].call] = r
                                  /\ ~attempts[id].dead /\ Metered(attempts[id])
                                  /\ attempts[id].made # NotAccepted}
            Made == [id \in Ids |-> attempts[id].made]
        IN  /\ SumFunctionOnSet(Made, mine) <= budget[r].output + budget[r].reservedOutput
            /\ budget[r].output + budget[r].reservedOutput <= MaxOutput

\* Once a month is over, what is committed to it never grows again: late
\* settlements belong to the month of their admission.
ClosedMonthsOnlyShrink ==
    [][\A m \in 1 .. month - 1 : Committed(m)' <= Committed(m)]_vars

\* The event loop runs what is due, and a provider request ends: it answers,
\* fails, or the client's own timeout fires.
Fairness ==
    /\ \A c \in Texts :
         /\ WF_vars(AdmitText(c) \/ RunBudgetRefuses(c) \/ SpendingRefuses(c))
         /\ WF_vars(Wake(c))
         /\ WF_vars(\E fatal \in BOOLEAN : Breaks(c, fatal))
    /\ \A c \in Images :
         /\ WF_vars(AdmitImage(c))
         /\ WF_vars(\E good \in BOOLEAN : ImageAnswered(c, good))

FairSpec == Spec /\ Fairness

\* Every call ends, answered or failed: the retries on the primary model and
\* the one fallback are finite, whichever of the two admissions refuses.
EveryCallEnds == <>[](\A c \in Calls : call[c].phase \in {"done", "failed"})
=============================================================================
