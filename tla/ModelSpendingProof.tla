-------------------------- MODULE ModelSpendingProof --------------------------
(***************************************************************************)
(* For every set of calls, runs, prices and bounds: the types, the monthly *)
(* ceiling, the cover of every bill, what stays reserved, and the sums the *)
(* running totals and the run budgets stand for.                           *)
(*                                                                         *)
(* None of the properties is inductive.  What makes them so is the link    *)
(* between a call in flight, its request and its row (Core): the row holds *)
(* the full reservation of the request, which bounds whatever the provider *)
(* may still bill, until the call that waits for it settles it.            *)
(*                                                                         *)
(* The sums need in addition what each request may still generate (Weight):*)
(* all it was promised until the provider has completed it.                *)
(***************************************************************************)
EXTENDS ModelSpending, SumLemmas, TLAPS

\* What was reserved for a request.
Full(a) == IF a.call \in Images THEN ImageCost
           ELSE TokenReservation(a.call, a.target)

InRows(id) ==
    /\ rows[id] = [month |-> attempts[id].month, amount |-> Full(attempts[id])]
    /\ ledger[id] = NoRow

InLedger(id) ==
    /\ rows[id] = NoRow
    /\ ledger[id] # NoRow
    /\ ledger[id].month = attempts[id].month
    /\ \/ ledger[id].amount = Full(attempts[id])
       \/ /\ ~attempts[id].open
          /\ Metered(attempts[id]) => ledger[id].amount >= Bill(attempts[id])

\* A request: within its allowance, and if paid in exactly one table.
AttemptOK(id) ==
    /\ attempts[id] \in AttemptRecord
    /\ attempts[id].made \in NotAccepted .. Allowance(attempts[id].call)
    /\ Paid(attempts[id]) => InRows(id) \/ InLedger(id)
    /\ ~Paid(attempts[id]) => rows[id] = NoRow

\* A call in flight: its request is its own, open, and still reserved.
CallOK(c) ==
    call[c].phase = "sent" =>
        /\ call[c].id \in Sent
        /\ attempts[call[c].id].call = c
        /\ ~attempts[call[c].id].dead
        /\ Paid(attempts[call[c].id]) => InRows(call[c].id)
        /\ c \in Texts =>
             /\ attempts[call[c].id].target = call[c].target
             /\ usage[c] <= attempts[call[c].id].made

Unsent == \A id \in Ids \ Sent :
    attempts[id] = NoAttempt /\ rows[id] = NoRow /\ ledger[id] = NoRow

Core ==
    /\ WithinCeiling
    /\ Unsent
    /\ \A id \in Sent : AttemptOK(id)
    /\ \A c \in Calls : CallOK(c)
    /\ OnlyTheDeadStayReserved

IInv == TypeOK /\ Core

-----------------------------------------------------------------------------
(* Money. *)

\* A dearer price and more tokens cost no less.
LEMMA Dearer ==
    ASSUME NEW p \in Nat, NEW q \in Nat, NEW x \in Nat, NEW y \in Nat, p <= q, x <= y
    PROVE  p * x \in Nat /\ q * y \in Nat /\ p * x <= q * y
<1>1. p * x \in Nat /\ q * x \in Nat /\ q * y \in Nat
    OBVIOUS
<1>2. q * x = p * x + (q - p) * x /\ q * y = q * x + q * (y - x)
    OBVIOUS
<1>3. (q - p) * x \in Nat /\ q * (y - x) \in Nat
    <2>1. q - p \in Nat /\ y - x \in Nat
        OBVIOUS
    <2> QED
        BY <2>1
<1> QED
    BY <1>1, <1>2, <1>3

\* What a text call can come to cost is within what is reserved for it.
LEMMA CostWithinReservation ==
    ASSUME NEW c \in Texts, NEW t \in Targets,
           NEW in \in 0 .. Input[c], NEW out \in 0 .. Output[c]
    PROVE  /\ UsageCost(t, in, out) \in Nat
           /\ TokenReservation(c, t) \in Nat
           /\ UsageCost(t, in, out) <= TokenReservation(c, t)
<1>1. /\ Price[t] \in Nat
      /\ Larger(Price[t], AdmissionPrice) \in Nat
      /\ Price[t] <= Larger(Price[t], AdmissionPrice)
    BY SpendingAssumption DEF Larger
<1>2. /\ in + out \in Nat
      /\ Input[c] + Output[c] \in Nat
      /\ in + out <= Input[c] + Output[c]
    BY SpendingAssumption
<1> QED
    BY <1>1, <1>2, Dearer DEF UsageCost, TokenReservation

\* Nothing is over before it begins.
LEMMA NoTokens == \A c \in Texts : 0 \in 0 .. Input[c] /\ 0 \in 0 .. Output[c]
BY SpendingAssumption

\* An adapter reports no more than was billed, and all of it if it is exact.
LEMMA ReportedWithin ==
    ASSUME NEW t \in Targets, NEW n \in Int, NEW k \in Reported(t, n),
           n >= 0 \/ k # n
    PROVE  /\ k \in 0 .. n /\ n \in Nat
           /\ t \notin Understated => k = n
BY DEF Reported

\* So is what the provider bills for a request that keeps to its allowance.
LEMMA BillWithinFull ==
    ASSUME NEW a \in AttemptRecord, a.made \in NotAccepted .. Allowance(a.call)
    PROVE  /\ Full(a) \in Nat
           /\ Bill(a) \in Nat
           /\ Bill(a) <= Full(a)
<1>1. CASE a.call \in Images
    BY <1>1, SpendingAssumption DEF Full, Bill
<1>2. CASE a.call \notin Images
    <2>1. a.call \in Texts /\ a.target \in Targets /\ Output[a.call] \in Nat
        BY <1>2, SpendingAssumption DEF AttemptRecord, Calls
    <2>2. a.made = NotAccepted \/ a.made \in 0 .. Output[a.call]
        BY <1>2, <2>1 DEF Allowance, NotAccepted
    <2>3. TokenReservation(a.call, a.target) \in Nat
        BY <2>1, NoTokens, CostWithinReservation
    <2>4. Input[a.call] \in 0 .. Input[a.call]
        BY <2>1, SpendingAssumption
    <2> QED
        BY <1>2, <2>1, <2>2, <2>3, <2>4, CostWithinReservation DEF Full, Bill, UsageCost
<1> QED
    BY <1>1, <1>2

-----------------------------------------------------------------------------
(* Types. *)

TablesType ==
    /\ rows \in [Ids -> Row \cup {NoRow}]
    /\ ledger \in [Ids -> Row \cup {NoRow}]
    /\ recorded \in [Months -> Nat]
    /\ reserved \in [Months -> Int]

LEMMA ReserveType ==
    ASSUME TypeOK, NEW id \in Ids, NEW amount \in Nat, Reserve(id, amount)
    PROVE  TablesType'
<1>1. [month |-> month, amount |-> amount] \in Row
    BY DEF TypeOK, Row
<1>2. reserved[month] + amount \in Int
    BY DEF TypeOK
<1> QED
    BY <1>1, <1>2 DEF TypeOK, TablesType, Reserve

LEMMA SettleAtType ==
    ASSUME TypeOK, NEW id \in Ids, NEW cost \in Nat, SettleAt(id, cost)
    PROVE  /\ TablesType'
           /\ rows[id] \in Row
<1>1. rows[id] \in Row
    BY DEF TypeOK, SettleAt
<1>2. /\ rows[id].month \in Months /\ rows[id].amount \in Nat
      /\ [month |-> rows[id].month, amount |-> cost] \in Row
    BY <1>1 DEF Row
<1>3. /\ recorded[rows[id].month] + cost \in Nat
      /\ reserved[rows[id].month] - rows[id].amount \in Int
    BY <1>2 DEF TypeOK
<1> QED
    BY <1>1, <1>2, <1>3 DEF TypeOK, TablesType, SettleAt

\* However an attempt fails, its call is no longer in flight.
LEMMA FailsType ==
    ASSUME TypeOK, NEW c \in Calls, NEW fatal \in BOOLEAN, Fails(c, fatal)
    PROVE  /\ call' \in [Calls -> CallRecord]
           /\ call'[c].phase # "sent"
           /\ c \in Images => call'[c].target \in Targets
           /\ \A k \in Calls \ {c} : call'[k] = call[k]
<1>1. PICK other \in BOOLEAN : call' = [call EXCEPT ![c] = AfterFailure(c, fatal, other)]
    BY DEF Fails
<1>2. call[c] \in CallRecord
    BY DEF TypeOK
<1>3. AfterFailure(c, fatal, other) \in CallRecord /\ AfterFailure(c, fatal, other).phase # "sent"
    <2>1. call[c].tries + 1 \in Nat /\ 0 \in 0 .. MaxIds
        BY <1>2, SpendingAssumption DEF CallRecord
    <2> QED
        BY <1>2, <2>1 DEF AfterFailure, CallRecord, Targets
<1> QED
    BY <1>1, <1>3 DEF TypeOK, CallRecord

LEMMA BudgetType ==
    ASSUME TypeOK, NEW c \in Texts
    PROVE  /\ AdmitToRun(c) => budget' \in [Runs -> RunBudget]
           /\ AdmitAndRelease(c) => budget' \in [Runs -> RunBudget]
           /\ \A out \in Nat \cup {NoUsage} :
                SettleRun(c, out) => budget' \in [Runs -> RunBudget]
<1>1. RunOf[c] \in Runs /\ Input[c] \in Nat /\ Output[c] \in Nat
    BY SpendingAssumption
<1>2. budget[RunOf[c]] \in RunBudget
    BY <1>1 DEF TypeOK
<1>3. AdmitToRun(c) => budget' \in [Runs -> RunBudget]
    BY <1>1, <1>2 DEF AdmitToRun, RunBudget, TypeOK
<1>4. AdmitAndRelease(c) => budget' \in [Runs -> RunBudget]
    BY <1>1, <1>2 DEF AdmitAndRelease, RunBudget, TypeOK
<1>5. ASSUME NEW out \in Nat \cup {NoUsage}, SettleRun(c, out)
      PROVE  budget' \in [Runs -> RunBudget]
    BY <1>1, <1>2, <1>5 DEF SettleRun, RunBudget, TypeOK, NoUsage
<1> QED
    BY <1>3, <1>4, <1>5

LEMMA DispatchType ==
    ASSUME TypeOK, NEW c \in Calls, NEW t \in Targets, sent < MaxIds, Dispatch(c, t)
    PROVE  /\ sent' \in 0 .. MaxIds
           /\ attempts' \in [Ids -> AttemptRecord \cup {NoAttempt}]
           /\ call' \in [Calls -> CallRecord]
<1>1. sent + 1 \in Ids /\ sent + 1 \in 0 .. MaxIds
    BY SpendingAssumption DEF TypeOK, Ids
<1>2. [call |-> c, target |-> t, month |-> month, made |-> NotAccepted,
       open |-> TRUE, dead |-> FALSE] \in AttemptRecord
    BY DEF TypeOK, AttemptRecord, NotAccepted
<1>3. call[c] \in CallRecord
    BY DEF TypeOK
<1> QED
    BY <1>1, <1>2, <1>3 DEF TypeOK, Dispatch, CallRecord

\* Identifiers are handed out from 1 on.
LEMMA SentIds ==
    ASSUME TypeOK
    PROVE  /\ Sent \subseteq Ids
           /\ \A id \in Ids : id \in Sent <=> id <= sent
           /\ sent < MaxIds => sent + 1 \in Ids /\ sent + 1 \notin Sent
<1>1. sent \in 0 .. MaxIds /\ MaxIds \in Nat
    BY SpendingAssumption DEF TypeOK
<1> QED
    BY <1>1 DEF Sent, Ids

\* The request of a call in flight.
LEMMA InFlight ==
    ASSUME IInv, NEW c \in Calls, call[c].phase = "sent"
    PROVE  /\ call[c].id \in Ids /\ call[c].id \in Sent
           /\ attempts[call[c].id] \in AttemptRecord
           /\ attempts[call[c].id].call = c
           /\ attempts[call[c].id].made \in NotAccepted .. Allowance(c)
           /\ ~attempts[call[c].id].dead
           /\ Paid(attempts[call[c].id]) => InRows(call[c].id)
           /\ c \in Texts => /\ attempts[call[c].id].target = call[c].target
                             /\ usage[c] <= attempts[call[c].id].made
<1>1. CallOK(c) /\ AttemptOK(call[c].id)
    BY DEF IInv, Core, CallOK
<1>2. Sent \subseteq Ids
    BY SpendingAssumption DEF Sent, Ids, IInv, TypeOK
<1> QED
    BY <1>1, <1>2 DEF CallOK, AttemptOK

\* What a call may settle with: a usage its adapter reports, or none.
Settles(c, in, out) ==
    /\ in \in Reported(call[c].target, Input[c])
    /\ out \in {NoUsage} \cup Reported(call[c].target, attempts[call[c].id].made)
    /\ SettleText(c, in, out)

\* A text call is charged a natural number within its reservation: the cost
\* of its usage, or all of it.
LEMMA TextCharge ==
    ASSUME IInv, NEW c \in Texts, call[c].phase = "sent",
           NEW in, NEW out, Settles(c, in, out), Price[call[c].target] # 0,
           NEW cost, cost = IF out = NoUsage THEN rows[call[c].id].amount
                            ELSE UsageCost(call[c].target, in, out)
    PROVE  /\ InRows(call[c].id)
           /\ rows[call[c].id].amount = Full(attempts[call[c].id])
           /\ rows[call[c].id].month = attempts[call[c].id].month
           /\ Full(attempts[call[c].id]) \in Nat
           /\ cost \in Nat
           /\ cost <= Full(attempts[call[c].id])
           /\ out # NoUsage /\ call[c].target \notin Understated
                => cost = Bill(attempts[call[c].id])
<1> DEFINE a == attempts[call[c].id]
<1>1. /\ c \in Calls /\ c \notin Images
      /\ a \in AttemptRecord /\ a.call = c /\ a.target = call[c].target
      /\ a.made \in NotAccepted .. Allowance(a.call)
    BY InFlight, SpendingAssumption DEF Calls
<1>2. InRows(call[c].id)
    BY <1>1, InFlight DEF Paid
<1>3. rows[call[c].id].amount = Full(a) /\ rows[call[c].id].month = a.month
    BY <1>2 DEF InRows
<1>4. Full(a) \in Nat /\ Bill(a) \in Nat /\ Bill(a) <= Full(a)
    BY <1>1, BillWithinFull
<1>5. CASE out # NoUsage
    <2>1. /\ a.target \in Targets /\ a.made \in Int /\ Input[c] \in Nat
          /\ Allowance(c) = Output[c] /\ Output[c] \in Nat
        BY <1>1, SpendingAssumption DEF AttemptRecord, Allowance
    <2>2. /\ in \in 0 .. Input[c]
          /\ a.target \notin Understated => in = Input[c]
        BY <1>1, <2>1, ReportedWithin DEF Settles
    <2>3. /\ out \in 0 .. a.made /\ a.made \in Nat
          /\ a.target \notin Understated => out = a.made
        <3>1. out \in Reported(a.target, a.made)
            BY <1>1, <1>5 DEF Settles
        <3>2. a.made >= 0 \/ out # a.made
            BY <1>1, <1>5, <2>1 DEF NoUsage, NotAccepted
        <3> QED
            BY <2>1, <3>1, <3>2, ReportedWithin
    <2>4. out \in 0 .. Output[c]
        BY <1>1, <2>1, <2>3
    <2>5. /\ cost = UsageCost(a.target, in, out) /\ cost \in Nat
          /\ cost <= TokenReservation(c, a.target)
        BY <1>1, <1>5, <2>1, <2>2, <2>4, CostWithinReservation
    <2>6. Full(a) = TokenReservation(c, a.target)
        BY <1>1 DEF Full
    <2>7. a.target \notin Understated => cost = Bill(a)
        BY <1>1, <2>2, <2>3, <2>5 DEF Bill, UsageCost, NotAccepted
    <2> QED
        BY <1>1, <1>2, <1>3, <1>4, <2>5, <2>6, <2>7
<1>6. CASE out = NoUsage
    BY <1>2, <1>3, <1>4, <1>6
<1> QED
    BY <1>5, <1>6

\* A broken call settles without a usage.
LEMMA BrokenOff ==
    ASSUME NEW c \in Texts, NEW fatal, Breaks(c, fatal)
    PROVE  Settles(c, Input[c], NoUsage)
BY SpendingAssumption DEF Breaks, Settles, Reported

\* Every step keeps the types; settling needs to know the row is there.
LEMMA TypeStep ==
    ASSUME IInv, Next
    PROVE  TypeOK'
<1> USE SpendingAssumption
<1>0. TypeOK
    BY DEF IInv
<1>1. ASSUME NEW c \in Texts, AdmitText(c)
      PROVE  TypeOK'
    <2>1. c \in Calls /\ call[c].target \in Targets
        BY <1>0 DEF TypeOK, CallRecord, Calls
    <2>2. sent + 1 \in Ids
        BY <1>0, <1>1 DEF AdmitText, TypeOK, Ids
    <2>4. TokenReservation(c, call[c].target) \in Nat
        BY <2>1, NoTokens, CostWithinReservation
    <2>5. TablesType'
        BY <1>0, <1>1, <2>2, <2>4, ReserveType DEF AdmitText, TypeOK, TablesType, tables
    <2>6. /\ sent' \in 0 .. MaxIds
          /\ attempts' \in [Ids -> AttemptRecord \cup {NoAttempt}]
          /\ call' \in [Calls -> CallRecord]
        BY <1>0, <1>1, <2>1, DispatchType DEF AdmitText
    <2>7. budget' \in [Runs -> RunBudget]
        BY <1>0, <1>1, BudgetType DEF AdmitText
    <2> QED
        BY <1>0, <1>1, <2>5, <2>6, <2>7 DEF AdmitText, TypeOK, TablesType
<1>2. ASSUME NEW c \in Texts, NotRouted(c) \/ RunBudgetRefuses(c)
      PROVE  TypeOK'
    <2>1. call' \in [Calls -> CallRecord]
        BY <1>0, <1>2, FailsType DEF NotRouted, RunBudgetRefuses, Calls
    <2> QED
        BY <1>0, <1>2, <2>1 DEF NotRouted, RunBudgetRefuses, TypeOK, tables
<1>3. ASSUME NEW c \in Texts, SpendingRefuses(c)
      PROVE  TypeOK'
    <2>1. call' \in [Calls -> CallRecord]
        BY <1>0, <1>3, FailsType DEF SpendingRefuses, Calls
    <2>2. budget' \in [Runs -> RunBudget]
        BY <1>0, <1>3, BudgetType DEF SpendingRefuses
    <2> QED
        BY <1>0, <1>3, <2>1, <2>2 DEF SpendingRefuses, TypeOK, tables
<1>4. ASSUME NEW c \in Texts, UsageEvent(c)
      PROVE  TypeOK'
    <2>1. PICK out \in Reported(call[c].target, Attempt(c).made) :
              usage' = [usage EXCEPT ![c] = out]
        BY <1>4 DEF UsageEvent
    <2>2. Attempt(c).made \in Nat
        BY <1>4, InFlight DEF UsageEvent, Attempt, NotAccepted, Calls, Allowance
    <2>3. out \in Nat
        BY <2>2 DEF Reported
    <2> QED
        BY <1>0, <1>4, <2>1, <2>3 DEF UsageEvent, TypeOK, tables
<1>5. ASSUME NEW c \in Texts, Wake(c)
      PROVE  TypeOK'
    <2>1. call[c] \in CallRecord /\ c \in Calls
        BY <1>0 DEF TypeOK, Calls
    <2>2. call' \in [Calls -> CallRecord]
        BY <1>0, <1>5, <2>1 DEF Wake, TypeOK, CallRecord
    <2> QED
        BY <1>0, <1>5, <2>2 DEF Wake, TypeOK, tables
<1>6. ASSUME NEW c \in Texts, call[c].phase = "sent",
             NEW in, NEW out, Settles(c, in, out)
      PROVE  TablesType'
    <2>1. CASE Price[call[c].target] = 0
        BY <1>0, <1>6, <2>1 DEF Settles, SettleText, TypeOK, TablesType, tables
    <2>2. CASE Price[call[c].target] # 0
        <3> DEFINE cost == IF out = NoUsage THEN rows[call[c].id].amount
                           ELSE UsageCost(call[c].target, in, out)
        <3>1. SettleAt(call[c].id, cost)
            BY <1>6, <2>2 DEF Settles, SettleText
        <3>2. cost \in Nat
            BY <1>6, <2>2, TextCharge
        <3>3. call[c].id \in Ids
            BY <1>6, InFlight DEF Calls
        <3> QED
            BY <1>0, <3>1, <3>2, <3>3, SettleAtType
    <2> QED
        BY <2>1, <2>2
<1>7. ASSUME NEW c \in Texts, NEW good \in BOOLEAN, Completes(c, good)
      PROVE  TypeOK'
    <2>1. /\ c \in Calls /\ call[c] \in CallRecord /\ call[c].phase = "sent"
          /\ call[c].id \in Ids /\ attempts[call[c].id] \in AttemptRecord
          /\ usage[c] \in Nat \cup {NoUsage}
          /\ \E in : Settles(c, in, usage[c])
        BY <1>0, <1>7, InFlight DEF Completes, Calls, TypeOK, Attempt, Settles
    <2>2. TablesType'
        BY <1>6, <2>1
    <2>3. budget' \in [Runs -> RunBudget]
        BY <1>0, <1>7, <2>1, BudgetType DEF Completes
    <2>4. call' \in [Calls -> CallRecord]
        <3>1. CASE good
            <4>1. 0 \in 0 .. MaxIds
                OBVIOUS
            <4>2. call' = [call EXCEPT ![c].phase = "done", ![c].id = 0]
                BY <1>7, <3>1 DEF Completes
            <4> QED
                BY <1>0, <2>1, <4>1, <4>2 DEF TypeOK, CallRecord
        <3>2. CASE ~good
            BY <1>0, <1>7, <2>1, <3>2, FailsType DEF Completes
        <3> QED
            BY <3>1, <3>2
    <2>5. attempts' \in [Ids -> AttemptRecord \cup {NoAttempt}]
        BY <1>0, <1>7, <2>1 DEF Completes, TypeOK, AttemptRecord
    <2> QED
        BY <1>0, <1>7, <2>2, <2>3, <2>4, <2>5 DEF Completes, TypeOK, TablesType
<1>8. ASSUME NEW c \in Texts, NEW fatal \in BOOLEAN, Breaks(c, fatal)
      PROVE  TypeOK'
    <2>1. TablesType'
        <3>1. call[c].phase = "sent" /\ Settles(c, Input[c], NoUsage)
            BY <1>8, BrokenOff DEF Breaks
        <3> QED
            BY <1>6, <3>1
    <2>2. budget' \in [Runs -> RunBudget]
        BY <1>0, <1>8, BudgetType DEF Breaks
    <2>3. call' \in [Calls -> CallRecord]
        BY <1>0, <1>8, FailsType DEF Breaks, Calls
    <2> QED
        BY <1>0, <1>8, <2>1, <2>2, <2>3 DEF Breaks, TypeOK, TablesType
<1>9. ASSUME NEW c \in Images, AdmitImage(c)
      PROVE  TypeOK'
    <2>1. c \in Calls /\ call[c] \in CallRecord /\ "primary" \in Targets
        BY <1>0 DEF TypeOK, Calls, Targets
    <2>2. CASE Admissible(ImageCost)
        <3>1. sent + 1 \in Ids
            <4>1. sent < MaxIds
                BY <1>9, <2>2 DEF AdmitImage
            <4> QED
                BY <1>0, <4>1, SentIds
        <3>2. TablesType'
            BY <1>0, <1>9, <2>2, <3>1, ReserveType DEF AdmitImage
        <3>3. /\ sent' \in 0 .. MaxIds
              /\ attempts' \in [Ids -> AttemptRecord \cup {NoAttempt}]
              /\ call' \in [Calls -> CallRecord]
            BY <1>0, <1>9, <2>1, <2>2, DispatchType DEF AdmitImage
        <3> QED
            BY <1>0, <1>9, <3>2, <3>3 DEF AdmitImage, TypeOK, TablesType
    <2>3. CASE ~Admissible(ImageCost)
        <3>1. call' \in [Calls -> CallRecord]
            BY <1>0, <1>9, <2>1, <2>3 DEF AdmitImage, TypeOK, CallRecord
        <3> QED
            BY <1>0, <1>9, <2>3, <3>1 DEF AdmitImage, TypeOK, tables
    <2> QED
        BY <2>2, <2>3
<1>10. ASSUME NEW c \in Images, NEW good \in BOOLEAN, ImageAnswered(c, good)
       PROVE  TypeOK'
    <2>1. /\ c \in Calls /\ call[c] \in CallRecord
          /\ call[c].id \in Ids /\ InRows(call[c].id)
        BY <1>0, <1>10, InFlight DEF ImageAnswered, Calls, TypeOK, Paid
    <2>2. rows[call[c].id].amount \in Nat
        BY <1>0, <1>10, <2>1 DEF ImageAnswered, SettleImage, SettleAt, TypeOK, Row
    <2>3. TablesType'
        BY <1>0, <1>10, <2>1, <2>2, SettleAtType DEF ImageAnswered, SettleImage
    <2>4. call' \in [Calls -> CallRecord]
        <3>1. 0 \in 0 .. MaxIds
            OBVIOUS
        <3> QED
            BY <1>0, <1>10, <2>1, <3>1 DEF ImageAnswered, TypeOK, CallRecord
    <2> QED
        BY <1>0, <1>10, <2>3, <2>4 DEF ImageAnswered, TypeOK, TablesType
<1>11. ASSUME NEW id \in Ids, Generate(id)
       PROVE  TypeOK'
    <2>1. attempts[id] \in AttemptRecord
        BY <1>11 DEF Generate, IInv, Core, AttemptOK, Sent, Ids
    <2>2. [attempts[id] EXCEPT !.made = @ + 1] \in AttemptRecord
        BY <2>1 DEF AttemptRecord
    <2>3. attempts' \in [Ids -> AttemptRecord \cup {NoAttempt}]
        BY <1>0, <1>11, <2>2 DEF Generate, TypeOK
    <2> QED
        BY <1>0, <1>11, <2>3 DEF Generate, TypeOK, tables
<1>12. ASSUME NEW l \in Limits, SetLimit(l)
       PROVE  TypeOK'
    BY <1>0, <1>12 DEF SetLimit, TypeOK, tables
<1>13. ASSUME MonthTurns
       PROVE  TypeOK'
    BY <1>0, <1>13 DEF MonthTurns, TypeOK, tables, Months
<1>14. ASSUME Crash
       PROVE  TypeOK'
    <2>1. NewBudget \in RunBudget /\ NewCall \in CallRecord
        BY DEF NewBudget, RunBudget, NewCall, CallRecord, Targets
    <2>2. \A id \in Ids : id <= sent => attempts[id] \in AttemptRecord
        BY DEF IInv, Core, AttemptOK, Sent, Ids
    <2>3. \A id \in Ids : id <= sent => [attempts[id] EXCEPT !.dead = TRUE] \in AttemptRecord
        BY <2>2 DEF AttemptRecord
    <2>4. attempts' \in [Ids -> AttemptRecord \cup {NoAttempt}]
        BY <1>14, <2>3 DEF Crash
    <2> QED
        BY <1>0, <1>14, <2>1, <2>4 DEF Crash, TypeOK, tables, NoUsage
<1> QED
    BY <1>1, <1>2, <1>3, <1>4, <1>5, <1>7, <1>8, <1>9, <1>10, <1>11, <1>12, <1>13, <1>14
    DEF Next, TextStep, ImageStep

-----------------------------------------------------------------------------
(* The link between calls, requests and rows. *)

\* Nothing moves but calls that are not in flight.
LEMMA QuietStep ==
    ASSUME IInv, UNCHANGED <<tables, sent, attempts>>,
           \A k \in Calls : call[k].phase = "sent" \/ call'[k].phase = "sent"
                             => call'[k] = call[k],
           \A k \in Texts : call'[k].phase = "sent" =>
               \/ usage'[k] = usage[k]
               \/ usage'[k] <= attempts[call[k].id].made
    PROVE  Core'
<1> USE DEF tables
<1>1. WithinCeiling' /\ Unsent' /\ \A id \in Sent' : AttemptOK(id)'
    BY DEF IInv, Core, WithinCeiling, Committed, Unsent, Sent, AttemptOK, InRows, InLedger, Metered
<1>2. ASSUME NEW k \in Calls
      PROVE  CallOK(k)'
    <2>1. SUFFICES ASSUME call'[k].phase = "sent"
                   PROVE  CallOK(k)'
        BY DEF CallOK
    <2>2. call'[k] = call[k] /\ call[k].phase = "sent"
        BY <2>1
    <2>3. CallOK(k)
        BY DEF IInv, Core
    <2>4. k \in Texts => usage'[k] <= attempts[call[k].id].made
        <3> SUFFICES ASSUME k \in Texts PROVE usage'[k] <= attempts[call[k].id].made
            OBVIOUS
        <3>1. usage[k] <= attempts[call[k].id].made
            BY <2>2, InFlight
        <3>3. attempts[call[k].id].made \in Int
            BY <2>2, InFlight DEF AttemptRecord
        <3> QED
            BY <2>1, <3>1, <3>3
    <2> QED
        BY <2>2, <2>3, <2>4 DEF CallOK, Sent, InRows
<1>3. OnlyTheDeadStayReserved'
    BY DEF IInv, Core, OnlyTheDeadStayReserved, Sent
<1> QED
    BY <1>1, <1>2, <1>3 DEF Core

\* A call leaves flight, its request as it was or closed, and no other moves.
Leaves(c) ==
    /\ call[c].phase = "sent"
    /\ call'[c].phase # "sent"
    /\ \A k \in Calls \ {c} : call'[k] = call[k]
    /\ usage' = usage
    /\ sent' = sent
    /\ \/ attempts' = attempts
       \/ attempts' = [attempts EXCEPT ![call[c].id].open = FALSE]

LEMMA RequestKept ==
    ASSUME IInv, NEW c \in Calls, Leaves(c), NEW id \in Sent
    PROVE  /\ attempts'[id] \in AttemptRecord
           /\ attempts'[id].call = attempts[id].call
           /\ attempts'[id].target = attempts[id].target
           /\ attempts'[id].month = attempts[id].month
           /\ attempts'[id].made = attempts[id].made
           /\ attempts'[id].dead = attempts[id].dead
           /\ Paid(attempts[id])' = Paid(attempts[id])
           /\ Full(attempts[id])' = Full(attempts[id])
           /\ Bill(attempts[id])' = Bill(attempts[id])
           /\ ~attempts[id].open => ~attempts'[id].open
           /\ id # call[c].id => attempts'[id] = attempts[id]
<1>1. id \in Ids /\ attempts[id] \in AttemptRecord
    BY SpendingAssumption DEF IInv, Core, AttemptOK, Sent, Ids, TypeOK
<1>2. /\ attempts'[id] \in AttemptRecord
      /\ attempts'[id].call = attempts[id].call
      /\ attempts'[id].target = attempts[id].target
      /\ attempts'[id].month = attempts[id].month
      /\ attempts'[id].made = attempts[id].made
      /\ attempts'[id].dead = attempts[id].dead
      /\ ~attempts[id].open => ~attempts'[id].open
      /\ id # call[c].id => attempts'[id] = attempts[id]
    <2>1. CASE attempts' = attempts
        BY <1>1, <2>1
    <2>2. CASE attempts' = [attempts EXCEPT ![call[c].id].open = FALSE]
        BY <1>1, <2>2 DEF AttemptRecord, IInv, TypeOK
    <2> QED
        BY <2>1, <2>2 DEF Leaves
<1> QED
    BY <1>2 DEF Paid, Full, Bill, TokenReservation

\* Leaving flight keeps every other call's request and row.
LEMMA OthersKept ==
    ASSUME IInv, NEW c \in Calls, Leaves(c),
           \A id \in Ids \ {call[c].id} : rows'[id] = rows[id] /\ ledger'[id] = ledger[id]
    PROVE  /\ Unsent'
           /\ \A k \in Calls : CallOK(k)'
           /\ \A id \in Sent \ {call[c].id} : AttemptOK(id)'
<1>0. /\ call[c].id \in Ids /\ call[c].id \in Sent /\ attempts[call[c].id].call = c
      /\ Sent' = Sent /\ Sent \subseteq Ids
    <2>1. TypeOK /\ Sent' = Sent
        BY DEF Leaves, Sent, IInv
    <2>2. Sent \subseteq Ids
        BY <2>1, SentIds
    <2> QED
        BY <2>1, <2>2, InFlight DEF Leaves
<1>1. Unsent'
    <2> SUFFICES ASSUME NEW id \in Ids \ Sent
                 PROVE  /\ attempts'[id] = NoAttempt
                        /\ rows'[id] = NoRow /\ ledger'[id] = NoRow
        BY <1>0 DEF Unsent
    <2>1. attempts'[id] = attempts[id]
        BY <1>0 DEF Leaves, IInv, TypeOK
    <2> QED
        BY <1>0, <2>1 DEF Unsent, IInv, Core
<1>2. ASSUME NEW id \in Sent \ {call[c].id}
      PROVE  AttemptOK(id)'
    <2>1. attempts'[id] = attempts[id] /\ rows'[id] = rows[id] /\ ledger'[id] = ledger[id]
        BY <1>0, RequestKept
    <2>2. AttemptOK(id)
        BY DEF IInv, Core
    <2> QED
        BY <2>1, <2>2 DEF AttemptOK, InRows, InLedger, Paid, Full, Bill, TokenReservation, Metered
<1>3. ASSUME NEW k \in Calls
      PROVE  CallOK(k)'
    <2> SUFFICES ASSUME call'[k].phase = "sent"
                 PROVE  CallOK(k)'
        BY DEF CallOK
    <2>1. k # c /\ call'[k] = call[k] /\ call[k].phase = "sent"
        BY DEF Leaves
    <2>2. CallOK(k) /\ call[k].id \in Sent \ {call[c].id}
        BY <1>0, <2>1 DEF IInv, Core, CallOK
    <2>3. /\ attempts'[call[k].id] = attempts[call[k].id]
          /\ rows'[call[k].id] = rows[call[k].id] /\ ledger'[call[k].id] = ledger[call[k].id]
          /\ usage' = usage
        BY <1>0, <2>2, RequestKept DEF Leaves
    <2> QED
        BY <1>0, <2>1, <2>2, <2>3 DEF CallOK, InRows, Paid, Full, TokenReservation
<1> QED
    BY <1>1, <1>2, <1>3

\* A paid call ends: its row becomes a ledger row of no more than the row held.
LEMMA SettleStep ==
    ASSUME IInv, TypeOK', NEW c \in Calls, Leaves(c),
           NEW id, id = call[c].id, InRows(id),
           NEW cost \in Nat, SettleAt(id, cost),
           cost <= Full(attempts[id]),
           \/ cost = Full(attempts[id])
           \/ ~attempts'[id].open
              /\ (attempts[id].target \notin Understated => cost = Bill(attempts[id]))
    PROVE  Core'
<1>1. /\ id \in Ids /\ id \in Sent /\ attempts[id] \in AttemptRecord
      /\ attempts[id].made \in NotAccepted .. Allowance(attempts[id].call)
      /\ attempts[id].month \in Months
    BY InFlight DEF Leaves, AttemptRecord
<1>2. Sent' = Sent /\ Sent \subseteq Ids
    <2>1. sent' = sent
        BY DEF Leaves
    <2>2. sent \in 0 .. MaxIds /\ MaxIds \in Nat
        BY SpendingAssumption DEF IInv, TypeOK
    <2> QED
        BY <2>1, <2>2 DEF Sent, Ids
<1>3. /\ rows[id].month = attempts[id].month
      /\ rows[id].amount = Full(attempts[id])
      /\ Full(attempts[id]) \in Nat
    BY <1>1, BillWithinFull DEF InRows
<1>4. /\ rows' = [rows EXCEPT ![id] = NoRow]
      /\ ledger' = [ledger EXCEPT ![id] = [month |-> attempts[id].month, amount |-> cost]]
      /\ recorded' = [recorded EXCEPT ![attempts[id].month] = @ + cost]
      /\ reserved' = [reserved EXCEPT ![attempts[id].month] = @ - Full(attempts[id])]
    BY <1>3 DEF SettleAt
<1>5. WithinCeiling'
    <2> SUFFICES ASSUME NEW m \in Months
                 PROVE  recorded'[m] + reserved'[m] <= HardMax
        BY DEF WithinCeiling, Committed
    <2>1. /\ recorded[m] + reserved[m] <= HardMax
          /\ recorded[m] \in Int /\ reserved[m] \in Int /\ HardMax \in Int
        <3>1. TypeOK /\ WithinCeiling
            BY DEF IInv, Core
        <3> QED
            BY <3>1, SpendingAssumption DEF WithinCeiling, Committed, TypeOK
    <2>2. recorded \in [Months -> Nat] /\ reserved \in [Months -> Int]
        BY DEF IInv, TypeOK
    <2>3. CASE m = attempts[id].month
        <3>1. recorded'[m] = recorded[m] + cost /\ reserved'[m] = reserved[m] - Full(attempts[id])
            BY <1>4, <2>2, <2>3
        <3> QED
            BY <1>3, <2>1, <3>1
    <2>4. CASE m # attempts[id].month
        <3>1. recorded'[m] = recorded[m] /\ reserved'[m] = reserved[m]
            BY <1>4, <2>2, <2>4
        <3> QED
            BY <2>1, <3>1
    <2> QED
        BY <2>3, <2>4
<1>6. /\ Unsent'
      /\ \A k \in Calls : CallOK(k)'
      /\ \A i \in Sent \ {id} : AttemptOK(i)'
    <2>1. \A i \in Ids \ {id} : rows'[i] = rows[i] /\ ledger'[i] = ledger[i]
        BY <1>4 DEF IInv, TypeOK
    <2> QED
        BY <2>1, OthersKept
<1>7. AttemptOK(id)'
    <2>1. rows'[id] = NoRow /\ ledger'[id] = [month |-> attempts[id].month, amount |-> cost]
        BY <1>1, <1>4 DEF IInv, TypeOK
    <2>2. ledger'[id] # NoRow
        BY <1>1, <2>1 DEF NoRow, Months
    <2>3. InLedger(id)'
        <3>1. /\ attempts'[id].target = attempts[id].target
              /\ attempts'[id].month = attempts[id].month
              /\ Full(attempts[id])' = Full(attempts[id])
              /\ Bill(attempts[id])' = Bill(attempts[id])
              /\ Bill(attempts[id]) \in Nat
            BY <1>1, RequestKept, BillWithinFull
        <3> QED
            BY <1>1, <2>1, <2>2, <3>1 DEF InLedger, Metered
    <2>4. attempts'[id] \in AttemptRecord /\ attempts'[id].made = attempts[id].made
          /\ attempts'[id].call = attempts[id].call
        BY <1>1, RequestKept
    <2> QED
        BY <1>1, <2>1, <2>3, <2>4 DEF AttemptOK
<1>8. OnlyTheDeadStayReserved'
    <2> SUFFICES ASSUME NEW i \in Sent, rows'[i] # NoRow
                 PROVE  \/ attempts'[i].dead
                        \/ \E k \in Calls : call'[k].phase = "sent" /\ call'[k].id = i
        BY <1>2 DEF OnlyTheDeadStayReserved
    <2>1. i # id /\ rows[i] # NoRow
        BY <1>1, <1>2, <1>4 DEF IInv, TypeOK
    <2>2. attempts'[i].dead = attempts[i].dead
        BY RequestKept
    <2>3. ASSUME NEW k \in Calls, call[k].phase = "sent", call[k].id = i
          PROVE  call'[k].phase = "sent" /\ call'[k].id = i
        BY <2>1, <2>3 DEF Leaves
    <2> QED
        BY <2>1, <2>2, <2>3 DEF IInv, Core, OnlyTheDeadStayReserved
<1> QED
    BY <1>2, <1>5, <1>6, <1>7, <1>8 DEF Core

\* A call of a verified local model ends: nothing was reserved for it.
LEMMA LocalEndStep ==
    ASSUME IInv, NEW c \in Calls, Leaves(c),
           NEW id, id = call[c].id, ~Paid(attempts[id]), UNCHANGED tables
    PROVE  Core'
<1>1. id \in Ids /\ id \in Sent /\ attempts[id] \in AttemptRecord /\ AttemptOK(id)
    BY InFlight DEF Leaves, IInv, Core
<1>2. Sent' = Sent /\ Sent \subseteq Ids
    <2>1. sent' = sent
        BY DEF Leaves
    <2>2. sent \in 0 .. MaxIds /\ MaxIds \in Nat
        BY SpendingAssumption DEF IInv, TypeOK
    <2> QED
        BY <2>1, <2>2 DEF Sent, Ids
<1>3. WithinCeiling'
    BY DEF IInv, Core, WithinCeiling, Committed, tables
<1>4. /\ Unsent'
      /\ \A k \in Calls : CallOK(k)'
      /\ \A i \in Sent \ {id} : AttemptOK(i)'
    BY OthersKept DEF tables
<1>5. AttemptOK(id)'
    <2>1. rows'[id] = NoRow
        BY <1>1 DEF AttemptOK, tables
    <2>2. /\ attempts'[id] \in AttemptRecord /\ attempts'[id].made = attempts[id].made
          /\ attempts'[id].call = attempts[id].call /\ Paid(attempts[id])' = Paid(attempts[id])
        BY <1>1, RequestKept
    <2> QED
        BY <1>1, <2>1, <2>2 DEF AttemptOK
<1>6. OnlyTheDeadStayReserved'
    <2> SUFFICES ASSUME NEW i \in Sent, rows'[i] # NoRow
                 PROVE  \/ attempts'[i].dead
                        \/ \E k \in Calls : call'[k].phase = "sent" /\ call'[k].id = i
        BY <1>2 DEF OnlyTheDeadStayReserved
    <2>1. i # id /\ rows[i] # NoRow
        BY <1>1 DEF AttemptOK, tables
    <2>2. attempts'[i].dead = attempts[i].dead
        BY RequestKept
    <2>3. ASSUME NEW k \in Calls, call[k].phase = "sent", call[k].id = i
          PROVE  call'[k].phase = "sent" /\ call'[k].id = i
        BY <2>1, <2>3 DEF Leaves
    <2> QED
        BY <2>1, <2>2, <2>3 DEF IInv, Core, OnlyTheDeadStayReserved
<1> QED
    BY <1>2, <1>3, <1>4, <1>5, <1>6 DEF Core

\* A new request: admitted against everything committed, its row written first.
LEMMA DispatchStep ==
    ASSUME IInv, TypeOK', NEW c \in Calls, call[c].phase # "sent", NEW t \in Targets,
           sent < MaxIds, Dispatch(c, t),
           c \in Texts => t = call[c].target /\ usage'[c] = NoUsage,
           \A k \in Texts \ {c} : usage'[k] = usage[k],
           NEW new, new = sent + 1,
           NEW a, a = [call |-> c, target |-> t, month |-> month,
                       made |-> NotAccepted, open |-> TRUE, dead |-> FALSE],
           \/ Paid(a) /\ Admissible(Full(a)) /\ Reserve(new, Full(a))
           \/ ~Paid(a) /\ UNCHANGED tables
    PROVE  Core'
<1>1. /\ a \in AttemptRecord /\ a.call = c /\ a.target = t /\ a.month = month
      /\ a.made = NotAccepted /\ ~a.dead /\ a.month \in Months
    BY DEF AttemptRecord, IInv, TypeOK, NotAccepted
<1>2. /\ new \in Ids /\ new \notin Sent
      /\ Sent' = Sent \cup {new} /\ Sent \subseteq Ids
    <2>1. sent' = new
        BY DEF Dispatch
    <2>2. sent \in 0 .. MaxIds /\ MaxIds \in Nat
        BY SpendingAssumption DEF IInv, TypeOK
    <2> QED
        BY <2>1, <2>2 DEF Sent, Ids
<1>3. /\ attempts' = [attempts EXCEPT ![new] = a]
      /\ attempts'[new] = a
      /\ \A id \in Ids \ {new} : attempts'[id] = attempts[id]
      /\ call'[c].phase = "sent" /\ call'[c].id = new
      /\ call'[c].target = call[c].target
      /\ \A k \in Calls \ {c} : call'[k] = call[k]
    BY <1>2 DEF Dispatch, IInv, TypeOK, CallRecord
<1>4. /\ NotAccepted \in NotAccepted .. Allowance(c)
      /\ Full(a) \in Nat
    <2>1. Allowance(c) \in Nat
        BY SpendingAssumption DEF Allowance, Calls
    <2>2. NotAccepted \in NotAccepted .. Allowance(c)
        BY <2>1 DEF NotAccepted
    <2> QED
        BY <1>1, <2>2, BillWithinFull
<1>5. /\ rows[new] = NoRow /\ ledger[new] = NoRow
      /\ \A id \in Ids \ {new} : rows'[id] = rows[id] /\ ledger'[id] = ledger[id]
    BY <1>2 DEF IInv, TypeOK, Core, Unsent, Reserve, tables
<1>6. /\ Paid(a) => /\ rows'[new] = [month |-> a.month, amount |-> Full(a)]
                    /\ ledger'[new] = NoRow
      /\ ~Paid(a) => rows'[new] = NoRow /\ ledger'[new] = NoRow
    BY <1>1, <1>2, <1>5 DEF IInv, TypeOK, Reserve, tables
<1>7. WithinCeiling'
    <2> SUFFICES ASSUME NEW m \in Months
                 PROVE  recorded'[m] + reserved'[m] <= HardMax
        BY DEF WithinCeiling, Committed
    <2>1. /\ recorded[m] + reserved[m] <= HardMax
          /\ recorded[m] \in Int /\ reserved[m] \in Int
          /\ limit \in 0 .. HardMax /\ HardMax \in Int
        BY SpendingAssumption DEF IInv, Core, WithinCeiling, Committed, TypeOK
    <2>2. CASE ~Paid(a)
        BY <2>1, <2>2 DEF tables
    <2>3. CASE Paid(a)
        <3>1. /\ recorded' = recorded
              /\ reserved' = [reserved EXCEPT ![month] = @ + Full(a)]
              /\ recorded[month] + reserved[month] + Full(a) <= limit
            BY <2>3 DEF Reserve, Admissible, Committed
        <3>2. reserved'[m] = IF m = month THEN reserved[m] + Full(a) ELSE reserved[m]
            BY <3>1 DEF IInv, TypeOK
        <3> QED
            BY <1>4, <2>1, <3>1, <3>2
    <2> QED
        BY <2>2, <2>3
<1>8. Unsent'
    BY <1>2, <1>3, <1>5 DEF Unsent, IInv, Core
<1>9. ASSUME NEW id \in Sent'
      PROVE  AttemptOK(id)'
    <2>1. CASE id = new
        <3>1. Paid(attempts[id])' = Paid(a) /\ Full(attempts[id])' = Full(a)
            BY <1>3, <2>1 DEF Paid, Full, TokenReservation
        <3> QED
            BY <1>1, <1>3, <1>4, <1>6, <2>1, <3>1 DEF AttemptOK, InRows
    <2>2. CASE id # new
        <3>1. /\ AttemptOK(id) /\ attempts'[id] = attempts[id]
              /\ rows'[id] = rows[id] /\ ledger'[id] = ledger[id]
            BY <1>2, <1>3, <1>5, <2>2 DEF IInv, Core
        <3> QED
            BY <3>1 DEF AttemptOK, InRows, InLedger, Paid, Full, Bill, TokenReservation, Metered
    <2> QED
        BY <2>1, <2>2
<1>10. ASSUME NEW k \in Calls
       PROVE  CallOK(k)'
    <2>1. CASE k = c
        <3>1. Paid(attempts[new])' = Paid(a) /\ Full(attempts[new])' = Full(a)
            BY <1>3 DEF Paid, Full, TokenReservation
        <3>2. Paid(a) => InRows(new)'
            BY <1>3, <1>6, <3>1 DEF InRows
        <3>3. c \in Texts => usage'[c] <= a.made
            BY <1>1 DEF NoUsage, NotAccepted
        <3> QED
            BY <1>1, <1>2, <1>3, <2>1, <3>1, <3>2, <3>3 DEF CallOK
    <2>2. CASE k # c
        <3> SUFFICES ASSUME call'[k].phase = "sent"
                     PROVE  CallOK(k)'
            BY DEF CallOK
        <3>1. call'[k] = call[k] /\ call[k].phase = "sent" /\ CallOK(k)
            BY <1>3, <2>2 DEF IInv, Core
        <3>2. call[k].id \in Sent /\ call[k].id \in Ids \ {new}
            BY <1>2, <3>1 DEF CallOK
        <3>3. /\ attempts'[call[k].id] = attempts[call[k].id]
              /\ rows'[call[k].id] = rows[call[k].id]
              /\ ledger'[call[k].id] = ledger[call[k].id]
            BY <1>3, <1>5, <3>2
        <3>4. k \in Texts => usage'[k] = usage[k]
            BY <2>2
        <3> QED
            BY <1>2, <3>1, <3>2, <3>3, <3>4 DEF CallOK, InRows, Paid, Full, TokenReservation
    <2> QED
        BY <2>1, <2>2
<1>11. OnlyTheDeadStayReserved'
    <2> SUFFICES ASSUME NEW id \in Sent', rows'[id] # NoRow
                 PROVE  \/ attempts'[id].dead
                        \/ \E k \in Calls : call'[k].phase = "sent" /\ call'[k].id = id
        BY DEF OnlyTheDeadStayReserved
    <2>1. CASE id = new
        BY <1>3, <2>1
    <2>2. CASE id # new
        <3>1. id \in Sent /\ rows[id] # NoRow /\ attempts'[id] = attempts[id]
            BY <1>2, <1>3, <1>5, <2>2
        <3>2. ASSUME NEW k \in Calls, call[k].phase = "sent", call[k].id = id
              PROVE  call'[k].phase = "sent" /\ call'[k].id = id
            BY <1>3, <3>2
        <3> QED
            BY <3>1, <3>2 DEF IInv, Core, OnlyTheDeadStayReserved
    <2> QED
        BY <2>1, <2>2
<1> QED
    BY <1>7, <1>8, <1>9, <1>10, <1>11 DEF Core

\* The provider generates: only a request that is open, so still held in full.
LEMMA GenerateStep ==
    ASSUME IInv, NEW id \in Ids, Generate(id)
    PROVE  Core'
<1>1. /\ id \in Sent /\ AttemptOK(id) /\ attempts[id].open
      /\ attempts[id] \in AttemptRecord
      /\ attempts[id].made < Allowance(attempts[id].call)
      /\ Sent' = Sent /\ Sent \subseteq Ids
    <2>1. id \in Sent /\ Sent' = Sent /\ Sent \subseteq Ids
        BY SpendingAssumption DEF Generate, Sent, Ids, IInv, TypeOK
    <2> QED
        BY <2>1 DEF Generate, IInv, Core, AttemptOK
<1>2. /\ attempts'[id] = [attempts[id] EXCEPT !.made = @ + 1]
      /\ \A i \in Ids \ {id} : attempts'[i] = attempts[i]
    BY DEF Generate, IInv, TypeOK
<1>3. /\ attempts'[id] \in AttemptRecord
      /\ attempts'[id].made = attempts[id].made + 1
      /\ attempts'[id].call = attempts[id].call
      /\ attempts'[id].target = attempts[id].target
      /\ attempts'[id].month = attempts[id].month
      /\ attempts'[id].open = attempts[id].open
      /\ attempts'[id].dead = attempts[id].dead
    <2>1. attempts[id] \in AttemptRecord /\ attempts'[id] = [attempts[id] EXCEPT !.made = @ + 1]
        BY <1>1, <1>2
    <2>2. attempts[id].made + 1 \in Int
        BY <2>1 DEF AttemptRecord
    <2> QED
        BY <2>1, <2>2 DEF AttemptRecord
<1>4. /\ Paid(attempts[id])' = Paid(attempts[id])
      /\ Full(attempts[id])' = Full(attempts[id])
    BY <1>3 DEF Paid, Full, TokenReservation
<1>5. rows' = rows /\ ledger' = ledger /\ call' = call /\ usage' = usage
    BY DEF Generate, tables
<1>6. WithinCeiling'
    BY DEF Generate, tables, IInv, Core, WithinCeiling, Committed
<1>7. Unsent'
    BY <1>1, <1>2, <1>5 DEF Unsent, IInv, Core
<1>8. ASSUME NEW i \in Sent
      PROVE  AttemptOK(i)'
    <2>1. CASE i = id
        <3>1. attempts'[id].made \in NotAccepted .. Allowance(attempts[id].call)
            <4>1. Allowance(attempts[id].call) \in Nat
                BY <1>1, SpendingAssumption DEF Allowance, AttemptRecord, Calls
            <4> QED
                BY <1>1, <1>3, <4>1 DEF AttemptOK, AttemptRecord, NotAccepted
        <3>2. ASSUME InRows(id) PROVE InRows(id)'
            BY <1>3, <1>4, <1>5, <3>2 DEF InRows
        <3>3. ASSUME InLedger(id) PROVE InLedger(id)'
            BY <1>1, <1>3, <1>4, <1>5, <3>3 DEF InLedger
        <3> QED
            BY <1>1, <1>3, <1>4, <1>5, <2>1, <3>1, <3>2, <3>3 DEF AttemptOK
    <2>2. CASE i # id
        <3>1. attempts'[i] = attempts[i] /\ AttemptOK(i)
            BY <1>1, <1>2, <2>2 DEF IInv, Core
        <3> QED
            BY <1>5, <3>1 DEF AttemptOK, InRows, InLedger, Paid, Full, Bill, TokenReservation, Metered
    <2> QED
        BY <2>1, <2>2
<1>9. ASSUME NEW k \in Calls
      PROVE  CallOK(k)'
    <2> SUFFICES ASSUME call[k].phase = "sent"
                 PROVE  CallOK(k)'
        BY <1>5 DEF CallOK
    <2>1. CallOK(k) /\ call[k].id \in Sent /\ call[k].id \in Ids
        BY <1>1 DEF IInv, Core, CallOK
    <2>2. /\ attempts'[call[k].id].call = attempts[call[k].id].call
          /\ attempts'[call[k].id].target = attempts[call[k].id].target
          /\ attempts'[call[k].id].month = attempts[call[k].id].month
          /\ attempts'[call[k].id].dead = attempts[call[k].id].dead
          /\ \/ attempts'[call[k].id].made = attempts[call[k].id].made
             \/ attempts'[call[k].id].made = attempts[call[k].id].made + 1
        BY <1>2, <1>3, <2>1
    <2>3. k \in Texts => usage[k] <= attempts'[call[k].id].made
        <3>1. attempts[call[k].id].made \in Int /\ (k \in Texts => usage[k] \in Int)
            BY InFlight DEF AttemptRecord, IInv, TypeOK, NoUsage
        <3> QED
            BY <2>1, <2>2, <3>1 DEF CallOK
    <2> QED
        BY <1>1, <1>5, <2>1, <2>2, <2>3 DEF CallOK, InRows, Paid, Full, TokenReservation
<1>10. OnlyTheDeadStayReserved'
    <2>1. \A i \in Sent : attempts'[i].dead = attempts[i].dead
        BY <1>1, <1>2, <1>3
    <2> QED
        BY <1>1, <1>5, <2>1 DEF IInv, Core, OnlyTheDeadStayReserved
<1> QED
    BY <1>1, <1>6, <1>7, <1>8, <1>9, <1>10 DEF Core

\* The process dies: no call is in flight, every request is a dead one's.
LEMMA CrashStep ==
    ASSUME IInv, Crash
    PROVE  Core'
<1>1. Sent' = Sent /\ Sent \subseteq Ids /\ \A id \in Ids : id \in Sent <=> id <= sent
    <2>1. TypeOK /\ Sent' = Sent
        BY DEF Crash, Sent, IInv
    <2> QED
        BY <2>1, SentIds
<1>2. /\ rows' = rows /\ ledger' = ledger /\ recorded' = recorded /\ reserved' = reserved
      /\ \A k \in Calls : call'[k].phase = "ready"
    BY DEF Crash, tables, NewCall
<1>3. ASSUME NEW id \in Sent
      PROVE  /\ AttemptOK(id)
             /\ attempts'[id] \in AttemptRecord
             /\ attempts'[id].dead
             /\ attempts'[id].call = attempts[id].call
             /\ attempts'[id].target = attempts[id].target
             /\ attempts'[id].month = attempts[id].month
             /\ attempts'[id].made = attempts[id].made
             /\ attempts'[id].open = attempts[id].open
    <2>1. AttemptOK(id) /\ attempts[id] \in AttemptRecord
        BY DEF IInv, Core, AttemptOK
    <2>2. attempts'[id] = [attempts[id] EXCEPT !.dead = TRUE]
        BY <1>1 DEF Crash
    <2> QED
        BY <2>1, <2>2 DEF AttemptRecord
<1>4. WithinCeiling'
    BY <1>2 DEF IInv, Core, WithinCeiling, Committed
<1>5. Unsent'
    <2> SUFFICES ASSUME NEW id \in Ids \ Sent
                 PROVE  attempts'[id] = NoAttempt /\ rows'[id] = NoRow /\ ledger'[id] = NoRow
        BY <1>1 DEF Unsent
    <2>1. attempts'[id] = NoAttempt
        BY <1>1 DEF Crash
    <2>2. Unsent
        BY DEF IInv, Core
    <2> QED
        BY <1>2, <2>1, <2>2 DEF Unsent
<1>6. ASSUME NEW id \in Sent
      PROVE  AttemptOK(id)'
    <2>1. /\ Paid(attempts[id])' = Paid(attempts[id])
          /\ Full(attempts[id])' = Full(attempts[id])
          /\ Bill(attempts[id])' = Bill(attempts[id])
        BY <1>3 DEF Paid, Full, Bill, TokenReservation
    <2>2. InRows(id)' = InRows(id) /\ InLedger(id)' = InLedger(id)
        BY <1>2, <1>3, <2>1 DEF InRows, InLedger, Metered
    <2> QED
        BY <1>2, <1>3, <2>1, <2>2 DEF AttemptOK
<1>7. \A k \in Calls : CallOK(k)'
    BY <1>2 DEF CallOK
<1>8. OnlyTheDeadStayReserved'
    BY <1>1, <1>3 DEF OnlyTheDeadStayReserved
<1> QED
    BY <1>1, <1>4, <1>5, <1>6, <1>7, <1>8 DEF Core

-----------------------------------------------------------------------------
(* The invariant. *)

LEMMA Beginning == Init => IInv
<1> SUFFICES ASSUME Init PROVE IInv
    OBVIOUS
<1> USE SpendingAssumption
<1>1. TypeOK
    <2>1. month \in Months /\ 0 \in 0 .. MaxIds
        BY DEF Init, Months
    <2>2. NewBudget \in RunBudget /\ NewCall \in CallRecord
        BY <2>1 DEF NewBudget, RunBudget, NewCall, CallRecord, Targets
    <2> QED
        BY <2>1, <2>2 DEF Init, TypeOK, NoUsage
<1>2. Sent = {}
    BY DEF Init, Sent
<1>3. WithinCeiling
    BY DEF Init, WithinCeiling, Committed
<1>4. Unsent
    BY DEF Init, Unsent
<1>5. \A c \in Calls : CallOK(c)
    BY DEF Init, CallOK, NewCall
<1> QED
    BY <1>1, <1>2, <1>3, <1>4, <1>5 DEF IInv, Core, OnlyTheDeadStayReserved

LEMMA CoreStep ==
    ASSUME IInv, Next, TypeOK'
    PROVE  Core'
<1> USE SpendingAssumption
<1>0. TypeOK /\ Texts \subseteq Calls /\ Images \subseteq Calls
    BY DEF IInv, Calls
<1>1. ASSUME NEW c \in Texts, AdmitText(c)
      PROVE  Core'
    <2> DEFINE t == call[c].target
    <2>1. PICK a : a = [call |-> c, target |-> t, month |-> month,
                        made |-> NotAccepted, open |-> TRUE, dead |-> FALSE]
        OBVIOUS
    <2>2. /\ a.call = c /\ a.target = t /\ c \notin Images
          /\ Full(a) = TokenReservation(c, t)
          /\ Paid(a) <=> Price[t] # 0
        BY <2>1 DEF Full, Paid
    <2>3. \/ Paid(a) /\ Admissible(Full(a)) /\ Reserve(sent + 1, Full(a))
          \/ ~Paid(a) /\ UNCHANGED tables
        BY <1>1, <2>2 DEF AdmitText, SpendingAdmits
    <2>4. t \in Targets /\ call[c].phase # "sent" /\ sent < MaxIds /\ Dispatch(c, t)
        BY <1>0, <1>1 DEF AdmitText, TypeOK, CallRecord
    <2>5. usage'[c] = NoUsage /\ \A k \in Texts \ {c} : usage'[k] = usage[k]
        BY <1>0, <1>1 DEF AdmitText, TypeOK
    <2> QED
        BY <1>0, <2>1, <2>3, <2>4, <2>5, DispatchStep
<1>2. ASSUME NEW c \in Calls, call[c].phase # "sent", call'[c].phase # "sent",
             \A k \in Calls \ {c} : call'[k] = call[k],
             UNCHANGED <<tables, usage, sent, attempts>>
      PROVE  Core'
    BY <1>2, QuietStep
<1>3. ASSUME NEW c \in Texts, NotRouted(c) \/ RunBudgetRefuses(c) \/ SpendingRefuses(c)
      PROVE  Core'
    <2>1. PICK fatal \in BOOLEAN : Fails(c, fatal)
        BY <1>3 DEF NotRouted, RunBudgetRefuses, SpendingRefuses
    <2>2. call'[c].phase # "sent" /\ \A k \in Calls \ {c} : call'[k] = call[k]
        BY <1>0, <2>1, FailsType
    <2> QED
        BY <1>0, <1>2, <1>3, <2>2 DEF NotRouted, RunBudgetRefuses, SpendingRefuses
<1>4. ASSUME NEW c \in Texts, UsageEvent(c)
      PROVE  Core'
    <2>1. /\ UNCHANGED <<tables, sent, attempts, call>>
          /\ usage'[c] <= attempts[call[c].id].made
          /\ \A k \in Texts \ {c} : usage'[k] = usage[k]
        <3>1. PICK out \in Reported(call[c].target, Attempt(c).made) :
                  usage' = [usage EXCEPT ![c] = out]
            BY <1>4 DEF UsageEvent
        <3>2. Attempt(c).made \in Int /\ Attempt(c).made >= 0
            BY <1>0, <1>4, InFlight DEF UsageEvent, Attempt, NotAccepted, AttemptRecord
        <3>3. out <= Attempt(c).made
            BY <3>2 DEF Reported
        <3> QED
            BY <1>0, <1>4, <3>1, <3>3 DEF UsageEvent, TypeOK, Attempt
    <2> QED
        BY <2>1, QuietStep
<1>5. ASSUME NEW c \in Texts, Wake(c)
      PROVE  Core'
    <2>1. call'[c].phase = "ready" /\ \A k \in Calls \ {c} : call'[k] = call[k]
        BY <1>0, <1>5 DEF Wake, TypeOK, CallRecord
    <2> QED
        BY <1>0, <1>2, <1>5, <2>1 DEF Wake
<1>6. ASSUME NEW c \in Texts, Leaves(c),
             NEW in, NEW out, Settles(c, in, out),
             out # NoUsage => attempts' = [attempts EXCEPT ![call[c].id].open = FALSE]
      PROVE  Core'
    <2>1. PICK id : id = call[c].id
        OBVIOUS
    <2>2. /\ call[c].phase = "sent" /\ id \in Ids /\ attempts[id] \in AttemptRecord
          /\ attempts[id].call = c /\ attempts[id].target = call[c].target /\ c \notin Images
        BY <1>0, <1>6, <2>1, InFlight DEF Leaves
    <2>3. CASE Price[call[c].target] = 0
        <3>1. ~Paid(attempts[id]) /\ UNCHANGED tables
            BY <1>6, <2>2, <2>3 DEF Paid, Settles, SettleText
        <3> QED
            BY <1>0, <1>6, <2>1, <3>1, LocalEndStep
    <2>4. CASE Price[call[c].target] # 0
        <3>1. PICK cost : cost = IF out = NoUsage THEN rows[id].amount
                                 ELSE UsageCost(call[c].target, in, out)
            OBVIOUS
        <3>2. SettleAt(id, cost)
            BY <1>6, <2>1, <2>4, <3>1 DEF Settles, SettleText
        <3>3. /\ InRows(id) /\ rows[id].amount = Full(attempts[id])
              /\ cost \in Nat /\ cost <= Full(attempts[id])
              /\ out # NoUsage /\ attempts[id].target \notin Understated
                   => cost = Bill(attempts[id])
            BY <1>6, <2>1, <2>2, <2>4, <3>1, TextCharge
        <3>4. out # NoUsage => ~attempts'[id].open
            BY <1>0, <1>6, <2>1, <2>2 DEF AttemptRecord, TypeOK
        <3> QED
            BY <1>0, <1>6, <2>1, <3>1, <3>2, <3>3, <3>4, SettleStep
    <2> QED
        BY <2>3, <2>4
<1>7. ASSUME NEW c \in Texts, NEW good \in BOOLEAN, Completes(c, good)
      PROVE  Core'
    <2>1. call'[c].phase # "sent" /\ \A k \in Calls \ {c} : call'[k] = call[k]
        <3>1. CASE good
            <4>1. call' = [call EXCEPT ![c].phase = "done", ![c].id = 0]
                BY <1>7, <3>1 DEF Completes
            <4> QED
                BY <1>0, <4>1 DEF TypeOK, CallRecord
        <3>2. CASE ~good
            BY <1>0, <1>7, <3>2, FailsType DEF Completes
        <3> QED
            BY <3>1, <3>2
    <2>2. Leaves(c)
        BY <1>7, <2>1 DEF Leaves, Completes
    <2>3. /\ \E in : Settles(c, in, usage[c])
          /\ attempts' = [attempts EXCEPT ![call[c].id].open = FALSE]
        BY <1>7 DEF Completes, Attempt, Settles
    <2> QED
        BY <1>6, <2>2, <2>3
<1>8. ASSUME NEW c \in Texts, NEW fatal \in BOOLEAN, Breaks(c, fatal)
      PROVE  Core'
    <2>1. call'[c].phase # "sent" /\ \A k \in Calls \ {c} : call'[k] = call[k]
        BY <1>0, <1>8, FailsType DEF Breaks
    <2>2. Leaves(c) /\ Settles(c, Input[c], NoUsage)
        BY <1>8, <2>1, BrokenOff DEF Leaves, Breaks
    <2> QED
        BY <1>6, <2>2
<1>9. ASSUME NEW c \in Images, AdmitImage(c)
      PROVE  Core'
    <2>1. CASE Admissible(ImageCost)
        <3>1. PICK a : a = [call |-> c, target |-> "primary", month |-> month,
                            made |-> NotAccepted, open |-> TRUE, dead |-> FALSE]
            OBVIOUS
        <3>2. Paid(a) /\ Full(a) = ImageCost /\ c \notin Texts /\ "primary" \in Targets
            BY <3>1 DEF Paid, Full, Targets
        <3>3. /\ Reserve(sent + 1, ImageCost) /\ sent < MaxIds
              /\ Dispatch(c, "primary") /\ call[c].phase # "sent" /\ usage' = usage
            BY <1>9, <2>1 DEF AdmitImage
        <3> QED
            BY <1>0, <2>1, <3>1, <3>2, <3>3, DispatchStep
    <2>2. CASE ~Admissible(ImageCost)
        <3>1. call'[c].phase = "failed" /\ \A k \in Calls \ {c} : call'[k] = call[k]
            BY <1>0, <1>9, <2>2 DEF AdmitImage, TypeOK, CallRecord
        <3> QED
            BY <1>0, <1>2, <1>9, <2>2, <3>1 DEF AdmitImage
    <2> QED
        BY <2>1, <2>2
<1>10. ASSUME NEW c \in Images, NEW good \in BOOLEAN, ImageAnswered(c, good)
       PROVE  Core'
    <2>1. PICK id : id = call[c].id
        OBVIOUS
    <2>2. call'[c].phase # "sent" /\ \A k \in Calls \ {c} : call'[k] = call[k]
        BY <1>0, <1>10 DEF ImageAnswered, TypeOK, CallRecord
    <2>3. Leaves(c)
        BY <1>10, <2>2 DEF Leaves, ImageAnswered
    <2>4. /\ InRows(id) /\ attempts[id] \in AttemptRecord
          /\ attempts[id].made \in NotAccepted .. Allowance(attempts[id].call)
        BY <1>0, <2>1, <2>3, InFlight DEF Leaves, Paid
    <2>5. /\ Full(attempts[id]) \in Nat /\ Full(attempts[id]) <= Full(attempts[id])
          /\ rows[id].amount = Full(attempts[id])
        BY <2>4, BillWithinFull DEF InRows
    <2>6. SettleAt(id, Full(attempts[id]))
        BY <1>10, <2>1, <2>5 DEF ImageAnswered, SettleImage
    <2> QED
        BY <1>0, <2>1, <2>3, <2>4, <2>5, <2>6, SettleStep
<1>11. ASSUME NEW l \in Limits, SetLimit(l)
       PROVE  Core'
    BY <1>11, QuietStep DEF SetLimit
<1>12. ASSUME MonthTurns
       PROVE  Core'
    BY <1>12, QuietStep DEF MonthTurns
<1> QED
    BY <1>1, <1>3, <1>4, <1>5, <1>7, <1>8, <1>9, <1>10, <1>11, <1>12, GenerateStep, CrashStep
    DEF Next, TextStep, ImageStep

LEMMA Stuttering == IInv /\ UNCHANGED vars => IInv'
<1> SUFFICES ASSUME IInv, UNCHANGED vars PROVE IInv'
    OBVIOUS
<1> USE DEF vars, tables
<1>1. TypeOK'
    BY DEF IInv, TypeOK
<1>2. Core'
    BY QuietStep
<1> QED
    BY <1>1, <1>2 DEF IInv

LEMMA Always == Spec => []IInv
<1>1. IInv /\ [Next]_vars => IInv'
    BY TypeStep, CoreStep, Stuttering DEF IInv
<1> QED
    BY <1>1, Beginning, PTL DEF Spec

-----------------------------------------------------------------------------
(* The results. *)

\* Every reachable state is of the declared types.
THEOREM TypeCorrect == Spec => []TypeOK
<1>1. IInv => TypeOK
    BY DEF IInv
<1> QED
    BY <1>1, Always, PTL

\* No month is ever committed above the hard ceiling, for any prices, limits,
\* calls and interleaving of them.
THEOREM CeilingHolds == Spec => []WithinCeiling
<1>1. IInv => WithinCeiling
    BY DEF IInv, Core
<1> QED
    BY <1>1, Always, PTL

\* Every paid request is held for, once, in the month of its admission; and
\* whatever the provider has billed is held in full, unless the request was
\* settled by the report of an adapter that leaves billed tokens out.
THEOREM BillsCovered == Spec => []BillsHeld
<1>1. IInv => BillsHeld
    <2> SUFFICES ASSUME IInv, NEW id \in Sent, Paid(attempts[id])
                 PROVE  \E table \in {rows, ledger} :
                            /\ table[id] # NoRow
                            /\ table[id].month = attempts[id].month
                            /\ Metered(attempts[id])
                                 => table[id].amount >= Bill(attempts[id])
                            /\ \A other \in {rows, ledger} :
                                 other[id] # NoRow => other = table
        BY DEF BillsHeld
    <2>1. /\ AttemptOK(id) /\ attempts[id] \in AttemptRecord
          /\ attempts[id].month \in Months
        BY DEF IInv, Core, AttemptOK, AttemptRecord
    <2>2. /\ Full(attempts[id]) \in Nat /\ Bill(attempts[id]) \in Nat
          /\ Bill(attempts[id]) <= Full(attempts[id])
        BY <2>1, BillWithinFull DEF AttemptOK
    <2>3. CASE InRows(id)
        <3>1. rows[id] # NoRow
            BY <2>1, <2>3 DEF InRows, NoRow, Months
        <3>2. rows[id].month = attempts[id].month /\ rows[id].amount = Full(attempts[id])
            BY <2>3 DEF InRows
        <3> QED
            BY <2>2, <2>3, <3>1, <3>2 DEF InRows
    <2>4. CASE InLedger(id)
        BY <2>2, <2>4 DEF InLedger
    <2> QED
        BY <2>1, <2>3, <2>4 DEF AttemptOK
<1> QED
    BY <1>1, Always, PTL

\* Only the death of the process leaves a reservation behind its call.
THEOREM OnlyDeadReservations == Spec => []OnlyTheDeadStayReserved
<1>1. IInv => OnlyTheDeadStayReserved
    BY DEF IInv, Core
<1> QED
    BY <1>1, Always, PTL

\* A month that is over takes no new reservation, and what settles late costs
\* no more than the reservation it replaces.
THEOREM ClosedMonths == Spec => ClosedMonthsOnlyShrink
<1> DEFINE Shrinks == \A m \in 1 .. month - 1 : Committed(m)' <= Committed(m)
<1>1. ASSUME IInv, [Next]_vars
      PROVE  Shrinks
    <2> USE SpendingAssumption
    <2>0. /\ TypeOK /\ Texts \subseteq Calls /\ Images \subseteq Calls
          /\ \A m \in 1 .. month - 1 : /\ m \in Months /\ m # month
                                      /\ recorded[m] \in Int /\ reserved[m] \in Int
        <3>1. TypeOK /\ Texts \subseteq Calls /\ Images \subseteq Calls
            BY <1>1 DEF IInv, Calls
        <3>2. month \in 1 .. LastMonth /\ LastMonth \in Nat
            BY <3>1 DEF TypeOK, Months
        <3>3. \A m \in 1 .. month - 1 : m \in Months /\ m # month
            BY <3>2 DEF Months
        <3>4. recorded \in [Months -> Nat] /\ reserved \in [Months -> Int]
            BY <3>1 DEF TypeOK
        <3> QED
            BY <3>1, <3>3, <3>4
    <2>1. ASSUME UNCHANGED tables
          PROVE  Shrinks
        <3> SUFFICES ASSUME NEW m \in 1 .. month - 1
                     PROVE  recorded'[m] + reserved'[m] <= recorded[m] + reserved[m]
            BY DEF Committed
        <3>1. recorded'[m] = recorded[m] /\ reserved'[m] = reserved[m]
            BY <2>1 DEF tables
        <3> QED
            BY <2>0, <3>1
    <2>2. ASSUME NEW id, NEW amount, Reserve(id, amount)
          PROVE  Shrinks
        <3> SUFFICES ASSUME NEW m \in 1 .. month - 1
                     PROVE  recorded'[m] + reserved'[m] <= recorded[m] + reserved[m]
            BY DEF Committed
        <3>1. recorded'[m] = recorded[m] /\ reserved'[m] = reserved[m]
            BY <2>0, <2>2 DEF Reserve, TypeOK
        <3> QED
            BY <2>0, <3>1
    <2>3. ASSUME NEW id, NEW cost \in Int, SettleAt(id, cost), rows[id].amount \in Int,
                 cost <= rows[id].amount
          PROVE  Shrinks
        <3> SUFFICES ASSUME NEW m \in 1 .. month - 1
                     PROVE  recorded'[m] + reserved'[m] <= recorded[m] + reserved[m]
            BY DEF Committed
        <3>1. CASE m = rows[id].month
            <4>1. /\ recorded'[m] = recorded[m] + cost
                  /\ reserved'[m] = reserved[m] - rows[id].amount
                BY <2>0, <2>3, <3>1 DEF SettleAt, TypeOK
            <4> QED
                BY <2>0, <2>3, <4>1
        <3>2. CASE m # rows[id].month
            <4>1. recorded'[m] = recorded[m] /\ reserved'[m] = reserved[m]
                BY <2>0, <2>3, <3>2 DEF SettleAt, TypeOK
            <4> QED
                BY <2>0, <4>1
        <3> QED
            BY <3>1, <3>2
    <2>4. ASSUME NEW c \in Texts, call[c].phase = "sent",
                 NEW in, NEW out, Settles(c, in, out)
          PROVE  Shrinks
        <3>1. CASE Price[call[c].target] = 0
            BY <2>1, <2>4, <3>1 DEF Settles, SettleText
        <3>2. CASE Price[call[c].target] # 0
            <4>1. PICK cost : cost = IF out = NoUsage THEN rows[call[c].id].amount
                                     ELSE UsageCost(call[c].target, in, out)
                OBVIOUS
            <4>2. SettleAt(call[c].id, cost)
                BY <2>4, <3>2, <4>1 DEF Settles, SettleText
            <4>3. /\ cost \in Nat /\ rows[call[c].id].amount \in Nat
                  /\ cost <= rows[call[c].id].amount
                BY <1>1, <2>4, <3>2, <4>1, TextCharge
            <4> QED
                BY <2>3, <4>2, <4>3
        <3> QED
            BY <3>1, <3>2
    <2>5. ASSUME NEW c \in Texts, AdmitText(c)
          PROVE  Shrinks
        BY <2>1, <2>2, <2>5 DEF AdmitText
    <2>6. ASSUME NEW c \in Texts, NEW good \in BOOLEAN, Completes(c, good)
          PROVE  Shrinks
        BY <2>4, <2>6 DEF Completes, Attempt, Settles
    <2>7. ASSUME NEW c \in Texts, NEW fatal \in BOOLEAN, Breaks(c, fatal)
          PROVE  Shrinks
        BY <2>4, <2>7, BrokenOff DEF Breaks
    <2>8. ASSUME NEW c \in Images, AdmitImage(c)
          PROVE  Shrinks
        BY <2>1, <2>2, <2>8 DEF AdmitImage
    <2>9. ASSUME NEW c \in Images, NEW good \in BOOLEAN, ImageAnswered(c, good)
          PROVE  Shrinks
        <3>1. rows[call[c].id].amount \in Nat
            BY <1>1, <2>0, <2>9, InFlight
            DEF ImageAnswered, SettleImage, SettleAt, TypeOK, Row
        <3> QED
            BY <2>3, <2>9, <3>1 DEF ImageAnswered, SettleImage
    <2>10. ASSUME \/ \E c \in Texts : \/ NotRouted(c) \/ RunBudgetRefuses(c)
                                      \/ SpendingRefuses(c) \/ UsageEvent(c) \/ Wake(c)
                  \/ \E id \in Ids : Generate(id)
                  \/ \E l \in Limits : SetLimit(l)
                  \/ MonthTurns \/ Crash \/ UNCHANGED vars
           PROVE  Shrinks
        <3>1. ASSUME NEW c \in Texts, \/ NotRouted(c) \/ RunBudgetRefuses(c)
                                     \/ SpendingRefuses(c) \/ UsageEvent(c) \/ Wake(c)
              PROVE  UNCHANGED tables
            BY <3>1 DEF NotRouted, RunBudgetRefuses, SpendingRefuses, UsageEvent, Wake
        <3>2. ASSUME NEW id \in Ids, Generate(id) PROVE UNCHANGED tables
            BY <3>2 DEF Generate
        <3>3. ASSUME NEW l \in Limits, SetLimit(l) PROVE UNCHANGED tables
            BY <3>3 DEF SetLimit
        <3>4. MonthTurns \/ Crash \/ UNCHANGED vars => UNCHANGED tables
            BY DEF MonthTurns, Crash, vars
        <3> QED
            BY <2>1, <2>10, <3>1, <3>2, <3>3, <3>4
    <2> QED
        BY <1>1, <2>5, <2>6, <2>7, <2>8, <2>9, <2>10 DEF Next, TextStep, ImageStep
<1>2. Spec => [][Shrinks]_vars
    BY <1>1, Always, PTL DEF Spec
<1> QED
    BY <1>2 DEF ClosedMonthsOnlyShrink

-----------------------------------------------------------------------------
(* The sums: what is booked, promised and allotted, added up. *)

\* The amount of every row of a table that counts for month m.
Of(table, m) == [id \in Ids |-> IF table[id] # NoRow /\ table[id].month = m
                                THEN table[id].amount ELSE 0]

\* The text calls of a run that are in flight.
Flying(r) == {c \in Texts : RunOf[c] = r /\ call[c].phase = "sent"}

\* The most a request can have generated out of the allowance of run r: all it
\* was promised until it has completed.  What an understated one has generated
\* by then no longer counts, since nobody knows.
Weight(a, r) ==
    IF a.call \in Texts /\ RunOf[a.call] = r /\ ~a.dead
    THEN IF a.open THEN Output[a.call]
         ELSE IF a.made = NotAccepted \/ ~Metered(a) THEN 0 ELSE a.made
    ELSE 0

Weights(r) == [id \in Ids |-> Weight(attempts[id], r)]

\* The running totals are the sums of the rows.
Booked ==
    \A m \in Months : /\ recorded[m] = SumFunctionOnSet(Of(ledger, m), Ids)
                      /\ reserved[m] = SumFunctionOnSet(Of(rows, m), Ids)

\* A run holds back what its calls in flight were promised.
Promised ==
    \A r \in Runs : budget[r].reservedOutput = SumFunctionOnSet(Output, Flying(r))

\* What a run's requests may generate was counted or promised, within the maximum.
Allotted ==
    \A r \in Runs :
        /\ SumFunctionOnSet(Weights(r), Ids) <= budget[r].output + budget[r].reservedOutput
        /\ budget[r].output + budget[r].reservedOutput <= MaxOutput

\* The provider has not completed a request somebody waits for.
StillOpen == \A c \in Texts : call[c].phase = "sent" => attempts[call[c].id].open

-----------------------------------------------------------------------------
\* Only so many requests are dispatched.
LEMMA FiniteIds == IsFiniteSet(Ids)
BY FS_Interval, SpendingAssumption DEF Ids

\* Every row's amount is a number, and an empty place adds nothing.
LEMMA AmountsAreNaturals ==
    ASSUME NEW table \in [Ids -> Row \cup {NoRow}], NEW m \in Months, NEW id \in Ids
    PROVE  Of(table, m)[id] \in Nat
<1>1. table[id] \in Row \/ table[id] = NoRow
    OBVIOUS
<1>2. Of(table, m)[id] = IF table[id] # NoRow /\ table[id].month = m
                         THEN table[id].amount ELSE 0
    BY DEF Of
<1> QED
    BY <1>1, <1>2 DEF Row

\* One row of a table changes: so does the sum of the month.
LEMMA RowChanges ==
    ASSUME NEW table \in [Ids -> Row \cup {NoRow}], NEW new \in [Ids -> Row \cup {NoRow}],
           NEW m \in Months, NEW id \in Ids, \A x \in Ids \ {id} : new[x] = table[x]
    PROVE  SumFunctionOnSet(Of(new, m), Ids)
             = SumFunctionOnSet(Of(table, m), Ids)
               - (IF table[id] # NoRow /\ table[id].month = m THEN table[id].amount ELSE 0)
               + (IF new[id] # NoRow /\ new[id].month = m THEN new[id].amount ELSE 0)
<1> DEFINE g == Of(table, m)
           h == Of(new, m)
<1>2. \A x \in Ids : g[x] \in Int /\ h[x] \in Int
    <2>1. \A x \in Ids : Of(table, m)[x] \in Nat
        BY AmountsAreNaturals
    <2>2. \A x \in Ids : Of(new, m)[x] \in Nat
        BY AmountsAreNaturals
    <2> QED
        BY <2>1, <2>2
<1>3. \A x \in Ids : x # id => h[x] = g[x]
    BY DEF Of
<1>4. /\ g[id] = IF table[id] # NoRow /\ table[id].month = m THEN table[id].amount ELSE 0
      /\ h[id] = IF new[id] # NoRow /\ new[id].month = m THEN new[id].amount ELSE 0
    BY DEF Of
<1> HIDE DEF g, h
<1>5. SumFunctionOnSet(h, Ids) = SumFunctionOnSet(g, Ids) - g[id] + h[id]
    BY <1>2, <1>3, FiniteIds, SumChange
<1> QED
    BY <1>4, <1>5 DEF g, h

\* A reservation adds one row to the month it is made in.
LEMMA ReserveBooks ==
    ASSUME TypeOK, Booked, NEW id \in Ids, NEW amount \in Nat, rows[id] = NoRow,
           Reserve(id, amount)
    PROVE  Booked'
<1> DEFINE row == [month |-> month, amount |-> amount]
<1>1. row \in Row /\ row # NoRow /\ month \in Months
    BY DEF TypeOK, Row, NoRow, Months
<1> SUFFICES ASSUME NEW m \in Months
             PROVE  /\ recorded'[m] = SumFunctionOnSet(Of(ledger, m), Ids)
                    /\ reserved'[m] = SumFunctionOnSet(Of(rows', m), Ids)
    BY DEF Booked, Reserve
<1>2. /\ recorded'[m] = recorded[m]
      /\ reserved'[m] = reserved[m] + (IF month = m THEN amount ELSE 0)
      /\ reserved[m] \in Int
    BY <1>1 DEF Reserve, TypeOK
<1>3. SumFunctionOnSet(Of(rows', m), Ids)
        = SumFunctionOnSet(Of(rows, m), Ids) - 0 + (IF month = m THEN amount ELSE 0)
    <2>1. /\ rows \in [Ids -> Row \cup {NoRow}] /\ rows' \in [Ids -> Row \cup {NoRow}]
          /\ rows'[id] = row /\ \A x \in Ids \ {id} : rows'[x] = rows[x]
        BY <1>1 DEF Reserve, TypeOK
    <2> HIDE DEF row
    <2>3. SumFunctionOnSet(Of(rows', m), Ids)
            = SumFunctionOnSet(Of(rows, m), Ids)
              - (IF rows[id] # NoRow /\ rows[id].month = m THEN rows[id].amount ELSE 0)
              + (IF row # NoRow /\ row.month = m THEN row.amount ELSE 0)
        BY <2>1, RowChanges
    <2>4. row.month = month /\ row.amount = amount
        BY DEF row
    <2>5. (IF rows[id] # NoRow /\ rows[id].month = m THEN rows[id].amount ELSE 0) = 0
        OBVIOUS
    <2>6. (IF row # NoRow /\ row.month = m THEN row.amount ELSE 0)
            = (IF month = m THEN amount ELSE 0)
        BY <1>1, <2>4
    <2> QED
        BY <2>3, <2>5, <2>6
<1> QED
    BY <1>2, <1>3 DEF Booked

\* A settlement takes the reservation row out and puts one ledger row in.
LEMMA SettleBooks ==
    ASSUME TypeOK, Booked, NEW id \in Ids, NEW cost \in Nat, ledger[id] = NoRow,
           SettleAt(id, cost)
    PROVE  Booked'
<1> DEFINE k == rows[id].month
           held == rows[id].amount
           row == [month |-> k, amount |-> cost]
<1>1. rows[id] \in Row /\ rows[id] # NoRow
    BY DEF TypeOK, SettleAt
<1>2. k \in Months /\ held \in Nat /\ row \in Row /\ row # NoRow
    BY <1>1 DEF Row, NoRow, Months
<1> SUFFICES ASSUME NEW m \in Months
             PROVE  /\ recorded'[m] = SumFunctionOnSet(Of(ledger', m), Ids)
                    /\ reserved'[m] = SumFunctionOnSet(Of(rows', m), Ids)
    BY DEF Booked
<1>3. /\ recorded'[m] = recorded[m] + (IF k = m THEN cost ELSE 0)
      /\ reserved'[m] = reserved[m] - (IF k = m THEN held ELSE 0)
      /\ recorded[m] \in Int /\ reserved[m] \in Int
    BY <1>2 DEF SettleAt, TypeOK
<1>4. /\ rows \in [Ids -> Row \cup {NoRow}] /\ rows' \in [Ids -> Row \cup {NoRow}]
      /\ rows'[id] = NoRow /\ \A x \in Ids \ {id} : rows'[x] = rows[x]
    BY DEF SettleAt, TypeOK
<1>5. /\ ledger \in [Ids -> Row \cup {NoRow}] /\ ledger' \in [Ids -> Row \cup {NoRow}]
      /\ ledger'[id] = row /\ \A x \in Ids \ {id} : ledger'[x] = ledger[x]
      /\ row.month = k /\ row.amount = cost
    BY <1>2 DEF SettleAt, TypeOK
<1> HIDE DEF k, held, row
<1>6. SumFunctionOnSet(Of(ledger', m), Ids)
        = SumFunctionOnSet(Of(ledger, m), Ids) + (IF k = m THEN cost ELSE 0)
    <2>1. SumFunctionOnSet(Of(ledger', m), Ids)
            = SumFunctionOnSet(Of(ledger, m), Ids)
              - (IF ledger[id] # NoRow /\ ledger[id].month = m THEN ledger[id].amount ELSE 0)
              + (IF row # NoRow /\ row.month = m THEN row.amount ELSE 0)
        BY <1>5, RowChanges
    <2>2. (IF ledger[id] # NoRow /\ ledger[id].month = m THEN ledger[id].amount ELSE 0) = 0
        OBVIOUS
    <2>3. (IF row # NoRow /\ row.month = m THEN row.amount ELSE 0)
            = (IF k = m THEN cost ELSE 0)
        BY <1>2, <1>5
    <2>4. SumFunctionOnSet(Of(ledger, m), Ids) \in Int
        BY <1>3 DEF Booked
    <2> QED
        BY <2>1, <2>2, <2>3, <2>4
<1>7. SumFunctionOnSet(Of(rows', m), Ids)
        = SumFunctionOnSet(Of(rows, m), Ids) - (IF k = m THEN held ELSE 0)
    <2>1. SumFunctionOnSet(Of(rows', m), Ids)
            = SumFunctionOnSet(Of(rows, m), Ids)
              - (IF rows[id] # NoRow /\ rows[id].month = m THEN rows[id].amount ELSE 0)
              + (IF NoRow # NoRow /\ NoRow.month = m THEN NoRow.amount ELSE 0)
        BY <1>4, RowChanges
    <2>2. (IF NoRow # NoRow /\ NoRow.month = m THEN NoRow.amount ELSE 0) = 0
        OBVIOUS
    <2>3. (IF rows[id] # NoRow /\ rows[id].month = m THEN rows[id].amount ELSE 0)
            = (IF k = m THEN held ELSE 0)
        BY <1>1 DEF k, held
    <2>4. SumFunctionOnSet(Of(rows, m), Ids) \in Int
        BY <1>3 DEF Booked
    <2> QED
        BY <2>1, <2>2, <2>3, <2>4, <1>2
<1> QED
    BY <1>3, <1>6, <1>7 DEF Booked

\* Nothing else touches the tables.
LEMMA TablesStay ==
    ASSUME Booked, UNCHANGED tables
    PROVE  Booked'
BY DEF Booked, tables

\* The calls in flight have requests of their own, so they are finitely many.
LEMMA FlyingFinite ==
    ASSUME IInv, NEW r \in Runs
    PROVE  /\ IsFiniteSet(Flying(r))
           /\ \A c \in Flying(r) : Output[c] \in Int
<1> DEFINE f == [c \in Flying(r) |-> call[c].id]
<1>1. \A c \in Flying(r) : c \in Calls /\ call[c].id \in Ids /\ attempts[call[c].id].call = c
    BY InFlight DEF Flying, Calls
<1>2. f \in Injection(Flying(r), Ids)
    <2>1. f \in [Flying(r) -> Ids]
        BY <1>1
    <2>2. \A a, b \in Flying(r) : f[a] = f[b] => a = b
        BY <1>1
    <2> QED
        BY <2>1, <2>2 DEF Injection, IsInjective
<1>3. IsFiniteSet(Flying(r))
    BY <1>2, FiniteIds, FS_Injection
<1>4. \A c \in Flying(r) : Output[c] \in Int
    BY SpendingAssumption DEF Flying
<1> QED
    BY <1>3, <1>4

\* What a request can have generated is a natural number, and no less than
\* what it has generated.
LEMMA WeightsAreNaturals ==
    ASSUME IInv, NEW r \in Runs, NEW id \in Ids
    PROVE  /\ Weight(attempts[id], r) \in Nat
           /\ Weights(r)[id] = Weight(attempts[id], r)
           /\ id \notin Sent => Weight(attempts[id], r) = 0
           /\ attempts[id].call \in Texts /\ RunOf[attempts[id].call] = r
              /\ ~attempts[id].dead /\ attempts[id].made # NotAccepted
              /\ Metered(attempts[id]) /\ id \in Sent =>
                 /\ attempts[id].made \in Nat
                 /\ attempts[id].made <= Weight(attempts[id], r)
<1>1. CASE id \in Sent
    <2>1. /\ attempts[id] \in AttemptRecord
          /\ attempts[id].made \in NotAccepted .. Allowance(attempts[id].call)
        BY <1>1 DEF IInv, Core, AttemptOK
    <2>2. attempts[id].call \in Texts =>
            /\ Output[attempts[id].call] \in Nat
            /\ Allowance(attempts[id].call) = Output[attempts[id].call]
        BY SpendingAssumption DEF Allowance
    <2> QED
        BY <1>1, <2>1, <2>2 DEF Weight, Weights, NotAccepted, Metered
<1>2. CASE id \notin Sent
    <2>1. attempts[id] = NoAttempt
        BY <1>2 DEF IInv, Core, Unsent
    <2> QED
        BY <1>2, <2>1 DEF Weight, Weights, NoAttempt
<1> QED
    BY <1>1, <1>2

\* What admission and settlement do to a run, field by field.
LEMMA BudgetFields ==
    ASSUME TypeOK, NEW c \in Texts, NEW r \in Runs
    PROVE  /\ AdmitToRun(c) =>
                /\ budget'[r].output = budget[r].output
                /\ budget'[r].reservedOutput
                     = budget[r].reservedOutput + (IF r = RunOf[c] THEN Output[c] ELSE 0)
           /\ AdmitAndRelease(c) =>
                /\ budget'[r].output = budget[r].output
                /\ budget'[r].reservedOutput = budget[r].reservedOutput
           /\ \A out : SettleRun(c, out) =>
                /\ budget'[r].output
                     = budget[r].output
                       + (IF r = RunOf[c] THEN IF out = NoUsage THEN Output[c] ELSE out ELSE 0)
                /\ budget'[r].reservedOutput
                     = budget[r].reservedOutput - (IF r = RunOf[c] THEN Output[c] ELSE 0)
<1>1. budget \in [Runs -> RunBudget] /\ RunOf[c] \in Runs /\ Output[c] \in Nat
    BY SpendingAssumption DEF TypeOK
<1>2. /\ budget[r].output \in Nat /\ budget[r].reservedOutput \in Int
      /\ budget[r] \in RunBudget /\ budget[RunOf[c]] \in RunBudget
    BY <1>1 DEF RunBudget
<1>3. AdmitToRun(c) =>
        /\ budget'[r].output = budget[r].output
        /\ budget'[r].reservedOutput
             = budget[r].reservedOutput + (IF r = RunOf[c] THEN Output[c] ELSE 0)
    BY <1>1, <1>2 DEF AdmitToRun, RunBudget
<1>4. AdmitAndRelease(c) =>
        /\ budget'[r].output = budget[r].output
        /\ budget'[r].reservedOutput = budget[r].reservedOutput
    BY <1>1, <1>2 DEF AdmitAndRelease, RunBudget
<1>5. ASSUME NEW out, SettleRun(c, out)
      PROVE  /\ budget'[r].output
                  = budget[r].output
                    + (IF r = RunOf[c] THEN IF out = NoUsage THEN Output[c] ELSE out ELSE 0)
             /\ budget'[r].reservedOutput
                  = budget[r].reservedOutput - (IF r = RunOf[c] THEN Output[c] ELSE 0)
    BY <1>1, <1>2, <1>5 DEF SettleRun, RunBudget
<1> QED
    BY <1>3, <1>4, <1>5

\* One request changes its weight: so does the sum of the run.
LEMMA WeightChanges ==
    ASSUME IInv, IInv', NEW r \in Runs, NEW id \in Ids,
           \A x \in Ids \ {id} : attempts'[x] = attempts[x]
    PROVE  /\ SumFunctionOnSet(Weights(r), Ids)'
                = SumFunctionOnSet(Weights(r), Ids)
                  - Weight(attempts[id], r) + Weight(attempts'[id], r)
           /\ SumFunctionOnSet(Weights(r), Ids) \in Int
<1> DEFINE g == Weights(r)
           h == Weights(r)'
<1>1. \A x \in Ids : g[x] \in Int /\ g[x] = Weight(attempts[x], r)
    <2> TAKE x \in Ids
    <2>1. Weight(attempts[x], r) \in Nat /\ Weights(r)[x] = Weight(attempts[x], r)
        BY WeightsAreNaturals
    <2> QED
        BY <2>1
<1>2. \A x \in Ids : h[x] \in Int /\ h[x] = Weight(attempts'[x], r)
    <2> TAKE x \in Ids
    <2>1. h[x] = Weight(attempts'[x], r)
        BY DEF Weights
    <2>2. Weight(attempts'[x], r) \in Nat
        <3>1. CASE x \in Sent'
            <4>1. /\ attempts'[x] \in AttemptRecord
                  /\ attempts'[x].made \in NotAccepted .. Allowance(attempts'[x].call)
                BY <3>1 DEF IInv, Core, AttemptOK
            <4>2. attempts'[x].call \in Texts =>
                    /\ Output[attempts'[x].call] \in Nat
                    /\ Allowance(attempts'[x].call) = Output[attempts'[x].call]
                BY SpendingAssumption DEF Allowance
            <4> QED
                BY <4>1, <4>2 DEF Weight, NotAccepted, Metered
        <3>2. CASE x \notin Sent'
            <4>1. attempts'[x] = NoAttempt
                BY <3>2 DEF IInv, Core, Unsent
            <4> QED
                BY <4>1 DEF Weight, NoAttempt
        <3> QED
            BY <3>1, <3>2
    <2>3. Weight(attempts'[x], r) \in Int
        BY <2>2
    <2> HIDE DEF h
    <2> QED
        BY <2>1, <2>3
<1> HIDE DEF g, h
<1>3. \A x \in Ids : g[x] \in Int /\ h[x] \in Int /\ (x # id => h[x] = g[x])
    BY <1>1, <1>2
<1>4. SumFunctionOnSet(h, Ids) = SumFunctionOnSet(g, Ids) - g[id] + h[id]
    BY <1>3, FiniteIds, SumChange
<1>5. SumFunctionOnSet(g, Ids) \in Int
    BY <1>1, FiniteIds, SumType
<1>6. Ids' = Ids
    BY DEF Ids
<1>7. /\ SumFunctionOnSet(h, Ids) = SumFunctionOnSet(g, Ids)
                                    - Weight(attempts[id], r) + Weight(attempts'[id], r)
      /\ SumFunctionOnSet(g, Ids) \in Int
    BY <1>1, <1>2, <1>4, <1>5
<1> QED
    BY <1>7 DEF g, h

\* Promised, Allotted and StillOpen, which the tables have no part in.
Shares == Promised /\ Allotted /\ StillOpen

\* Steps after which every request weighs what it did and the same calls fly.
LEMMA QuietShares ==
    ASSUME IInv, IInv', Shares,
           \A r \in Runs, id \in Ids : Weight(attempts'[id], r) = Weight(attempts[id], r),
           \A id \in Ids : attempts[id].open => attempts'[id].open,
           \A c \in Texts : call'[c].phase = "sent" <=> call[c].phase = "sent",
           \A c \in Texts : call'[c].phase = "sent" => call'[c].id = call[c].id,
           \A r \in Runs : /\ budget'[r].output = budget[r].output
                           /\ budget'[r].reservedOutput = budget[r].reservedOutput
    PROVE  Shares'
<1>1. \A r \in Runs : Flying(r)' = Flying(r)
    BY DEF Flying
<1>2. Promised'
    BY <1>1 DEF Shares, Promised
<1>3. \A r \in Runs : Weights(r)' = Weights(r)
    BY DEF Weights
<1>4. Allotted'
    BY <1>3 DEF Shares, Allotted
<1>5. StillOpen'
    <2> SUFFICES ASSUME NEW c \in Texts, call'[c].phase = "sent"
                 PROVE  attempts'[call'[c].id].open
        BY DEF StillOpen
    <2>1. /\ call[c].phase = "sent" /\ call'[c].id = call[c].id
          /\ attempts[call[c].id].open
        BY DEF Shares, StillOpen
    <2>2. call[c].id \in Ids
        BY <2>1, InFlight DEF Calls
    <2> QED
        BY <2>1, <2>2
<1> QED
    BY <1>2, <1>4, <1>5 DEF Shares

LEMMA DispatchShares ==
    ASSUME IInv, IInv', Shares, NEW c \in Calls, NEW t \in Targets, sent < MaxIds,
           call[c].phase = "ready", Dispatch(c, t),
           c \in Texts => WithinRun(c) /\ AdmitToRun(c),
           c \in Images => budget' = budget
    PROVE  Shares'
<1> DEFINE id == sent + 1
           new == [call |-> c, target |-> t, month |-> month,
                   made |-> NotAccepted, open |-> TRUE, dead |-> FALSE]
<1>0. TypeOK /\ Texts \cap Images = {} /\ Calls = Texts \cup Images
    BY SpendingAssumption DEF IInv, Calls
<1>1. /\ id \in Ids /\ id \notin Sent
      /\ attempts'[id] = new
      /\ \A x \in Ids \ {id} : attempts'[x] = attempts[x]
    <2>1. id \in Ids /\ id \notin Sent
        BY <1>0, SentIds
    <2> QED
        BY <1>0, <2>1 DEF Dispatch, TypeOK
<1>2. /\ call'[c].phase = "sent" /\ call'[c].id = id
      /\ \A k \in Calls \ {c} : call'[k] = call[k]
    <2>1. call \in [Calls -> CallRecord] /\ call[c] \in CallRecord
        BY <1>0 DEF TypeOK
    <2> QED
        BY <2>1 DEF Dispatch, CallRecord
<1>3. attempts[id] = NoAttempt
    BY <1>1 DEF IInv, Core, Unsent
<1>4. ASSUME NEW r \in Runs
      PROVE  /\ Weight(attempts[id], r) = 0
             /\ Weight(attempts'[id], r)
                  = IF c \in Texts /\ RunOf[c] = r THEN Output[c] ELSE 0
    BY <1>1, <1>3 DEF Weight, NoAttempt
<1> HIDE DEF id, new
<1>5. Promised'
    <2> SUFFICES ASSUME NEW r \in Runs
                 PROVE  budget'[r].reservedOutput = SumFunctionOnSet(Output, Flying(r)')
        BY DEF Promised
    <2>1. budget[r].reservedOutput = SumFunctionOnSet(Output, Flying(r))
        BY DEF Shares, Promised
    <2>2. CASE c \in Texts /\ RunOf[c] = r
        <3>1. Flying(r)' = Flying(r) \cup {c} /\ c \notin Flying(r)
            BY <1>0, <1>2, <2>2 DEF Flying
        <3>2. IsFiniteSet(Flying(r)) /\ \A x \in Flying(r) \cup {c} : Output[x] \in Int
            BY <2>2, FlyingFinite, SpendingAssumption
        <3>3. SumFunctionOnSet(Output, Flying(r) \cup {c})
                = SumFunctionOnSet(Output, Flying(r)) + Output[c]
            BY <3>1, <3>2, SumAdd
        <3>4. budget'[r].reservedOutput = budget[r].reservedOutput + Output[c]
            BY <1>0, <2>2, BudgetFields
        <3> QED
            BY <2>1, <3>1, <3>3, <3>4
    <2>3. CASE ~(c \in Texts /\ RunOf[c] = r)
        <3>1. Flying(r)' = Flying(r)
            BY <1>0, <1>2, <2>3 DEF Flying
        <3>2. budget'[r].reservedOutput = budget[r].reservedOutput
            <4>1. budget[r].reservedOutput \in Int
                BY <1>0 DEF TypeOK, RunBudget
            <4> QED
                BY <1>0, <2>3, <4>1, BudgetFields
        <3> QED
            BY <2>1, <3>1, <3>2
    <2> QED
        BY <2>2, <2>3
<1>6. Allotted'
    <2> SUFFICES ASSUME NEW r \in Runs
                 PROVE  /\ SumFunctionOnSet(Weights(r), Ids)'
                             <= budget'[r].output + budget'[r].reservedOutput
                        /\ budget'[r].output + budget'[r].reservedOutput <= MaxOutput
        BY DEF Allotted, Ids
    <2>1. /\ SumFunctionOnSet(Weights(r), Ids) <= budget[r].output + budget[r].reservedOutput
          /\ budget[r].output + budget[r].reservedOutput <= MaxOutput
          /\ budget[r].output \in Int /\ budget[r].reservedOutput \in Int
          /\ MaxOutput \in Int
        BY <1>0, SpendingAssumption DEF Shares, Allotted, TypeOK, RunBudget
    <2>2. /\ SumFunctionOnSet(Weights(r), Ids)'
               = SumFunctionOnSet(Weights(r), Ids)
                 - Weight(attempts[id], r) + Weight(attempts'[id], r)
          /\ SumFunctionOnSet(Weights(r), Ids) \in Int
        BY <1>1, WeightChanges
    <2>3. CASE c \in Texts /\ RunOf[c] = r
        <3>1. /\ budget'[r].output = budget[r].output
              /\ budget'[r].reservedOutput = budget[r].reservedOutput + Output[c]
              /\ Output[c] \in Int
              /\ budget[r].output + budget[r].reservedOutput + Output[c] <= MaxOutput
            BY <1>0, <2>3, BudgetFields, SpendingAssumption DEF WithinRun
        <3>2. SumFunctionOnSet(Weights(r), Ids)'
                = SumFunctionOnSet(Weights(r), Ids) + Output[c]
            BY <1>4, <2>2, <2>3, <3>1
        <3> QED
            BY <2>1, <2>2, <3>1, <3>2
    <2>4. CASE ~(c \in Texts /\ RunOf[c] = r)
        <3>1. /\ budget'[r].output = budget[r].output
              /\ budget'[r].reservedOutput = budget[r].reservedOutput
            BY <1>0, <2>1, <2>4, BudgetFields
        <3>2. SumFunctionOnSet(Weights(r), Ids)' = SumFunctionOnSet(Weights(r), Ids)
            BY <1>4, <2>2, <2>4
        <3> QED
            BY <2>1, <3>1, <3>2
    <2> QED
        BY <2>3, <2>4
<1>7. StillOpen'
    <2> SUFFICES ASSUME NEW k \in Texts, call'[k].phase = "sent"
                 PROVE  attempts'[call'[k].id].open
        BY DEF StillOpen
    <2>1. CASE k = c
        BY <1>1, <1>2, <2>1 DEF new
    <2>2. CASE k # c
        <3>1. k \in Calls /\ call'[k] = call[k] /\ call[k].phase = "sent"
            BY <1>0, <1>2, <2>2
        <3>2. call[k].id \in Ids /\ call[k].id \in Sent
            BY <3>1, InFlight
        <3> QED
            BY <1>1, <3>1, <3>2 DEF Shares, StillOpen
    <2> QED
        BY <2>1, <2>2
<1> QED
    BY <1>5, <1>6, <1>7 DEF Shares

\* A call leaves flight: what it was promised becomes what it is charged, and
\* no more than that can still be generated on its account.
LEMMA LeaveShares ==
    ASSUME IInv, IInv', Shares, NEW c \in Calls, Leaves(c), NEW out,
           c \in Texts => SettleRun(c, out),
           c \in Images => budget' = budget,
           \/ attempts' = attempts /\ out = NoUsage
           \/ /\ attempts' = [attempts EXCEPT ![call[c].id].open = FALSE]
              /\ attempts[call[c].id].made # NotAccepted
              /\ out \in {NoUsage}
                           \cup Reported(attempts[call[c].id].target, attempts[call[c].id].made)
    PROVE  Shares'
<1> DEFINE id == call[c].id
<1>0. /\ TypeOK /\ Texts \cap Images = {} /\ Calls = Texts \cup Images
      /\ call[c].phase = "sent"
    BY SpendingAssumption DEF IInv, Calls, Leaves
<1>1. /\ id \in Ids /\ id \in Sent /\ attempts[id] \in AttemptRecord
      /\ attempts[id].call = c /\ ~attempts[id].dead
      /\ attempts[id].made \in NotAccepted .. Allowance(c)
    BY <1>0, InFlight
<1>2. \A x \in Ids \ {id} : attempts'[x] = attempts[x]
    BY <1>0 DEF TypeOK
<1>3. /\ attempts'[id].call = c /\ ~attempts'[id].dead
      /\ attempts'[id].made = attempts[id].made
      /\ attempts'[id].target = attempts[id].target
    BY <1>1, RequestKept
<1>4. ASSUME NEW r \in Runs, c \in Texts, RunOf[c] = r
      PROVE  /\ Weight(attempts[id], r) = Output[c]
             /\ Weight(attempts'[id], r) \in Int
             /\ Weight(attempts'[id], r) <= IF out = NoUsage THEN Output[c] ELSE out
             /\ (IF out = NoUsage THEN Output[c] ELSE out) \in Int
             /\ (IF out = NoUsage THEN Output[c] ELSE out) <= Output[c]
    <2>1. attempts[id].open
        BY <1>0, <1>4 DEF Shares, StillOpen
    <2>2. Output[c] \in Nat /\ Allowance(c) = Output[c]
        BY <1>0, <1>4, SpendingAssumption DEF Allowance
    <2>3. Weight(attempts[id], r) = Output[c]
        BY <1>1, <1>4, <2>1 DEF Weight
    <2>4. CASE attempts' = attempts /\ out = NoUsage
        BY <2>2, <2>3, <2>4
    <2>5. CASE /\ attempts' = [attempts EXCEPT ![id].open = FALSE]
               /\ attempts[id].made # NotAccepted
               /\ out \in {NoUsage} \cup Reported(attempts[id].target, attempts[id].made)
        <3>1. ~attempts'[id].open
            BY <1>0, <1>1, <2>5 DEF TypeOK, AttemptRecord
        <3>2. Weight(attempts'[id], r) =
                IF attempts[id].target \in Understated THEN 0 ELSE attempts[id].made
            BY <1>3, <1>4, <2>5, <3>1 DEF Weight, Metered
        <3>3. attempts[id].made \in Nat /\ attempts[id].made <= Output[c]
            BY <1>1, <2>2, <2>5 DEF NotAccepted
        <3>4. out # NoUsage => /\ out \in 0 .. attempts[id].made
                               /\ attempts[id].target \notin Understated
                                    => out = attempts[id].made
            BY <2>5, <3>3 DEF Reported
        <3> QED
            BY <2>2, <2>3, <3>2, <3>3, <3>4
    <2> QED
        BY <2>4, <2>5
<1>5. ASSUME NEW r \in Runs, ~(c \in Texts /\ RunOf[c] = r)
      PROVE  Weight(attempts[id], r) = 0 /\ Weight(attempts'[id], r) = 0
    BY <1>1, <1>3, <1>5 DEF Weight
<1>6. ASSUME NEW r \in Runs
      PROVE  budget[r].output \in Int /\ budget[r].reservedOutput \in Int
    BY <1>0 DEF TypeOK, RunBudget
<1> HIDE DEF id
<1>7. Promised'
    <2> SUFFICES ASSUME NEW r \in Runs
                 PROVE  budget'[r].reservedOutput = SumFunctionOnSet(Output, Flying(r)')
        BY DEF Promised
    <2>1. budget[r].reservedOutput = SumFunctionOnSet(Output, Flying(r))
        BY DEF Shares, Promised
    <2>2. CASE c \in Texts /\ RunOf[c] = r
        <3>1. Flying(r)' = Flying(r) \ {c} /\ c \in Flying(r)
            BY <1>0, <2>2 DEF Flying, Leaves
        <3>2. IsFiniteSet(Flying(r)) /\ \A x \in Flying(r) : Output[x] \in Int
            BY FlyingFinite
        <3>3. /\ SumFunctionOnSet(Output, Flying(r))
                   = Output[c] + SumFunctionOnSet(Output, Flying(r) \ {c})
              /\ Output[c] \in Int
            BY <3>1, <3>2, SumTake
        <3>4. SumFunctionOnSet(Output, Flying(r) \ {c}) \in Int
            <4>1. IsFiniteSet(Flying(r) \ {c})
                BY <3>2, FS_Subset
            <4> QED
                BY <3>2, <4>1, SumType
        <3>5. budget'[r].reservedOutput = budget[r].reservedOutput - Output[c]
            BY <1>0, <2>2, BudgetFields
        <3> QED
            BY <2>1, <3>1, <3>3, <3>4, <3>5
    <2>3. CASE ~(c \in Texts /\ RunOf[c] = r)
        <3>1. Flying(r)' = Flying(r)
            BY <1>0, <2>3 DEF Flying, Leaves
        <3>2. budget'[r].reservedOutput = budget[r].reservedOutput
            BY <1>0, <1>6, <2>3, BudgetFields
        <3> QED
            BY <2>1, <3>1, <3>2
    <2> QED
        BY <2>2, <2>3
<1>8. Allotted'
    <2> SUFFICES ASSUME NEW r \in Runs
                 PROVE  /\ SumFunctionOnSet(Weights(r), Ids)'
                             <= budget'[r].output + budget'[r].reservedOutput
                        /\ budget'[r].output + budget'[r].reservedOutput <= MaxOutput
        BY DEF Allotted, Ids
    <2>1. /\ SumFunctionOnSet(Weights(r), Ids) <= budget[r].output + budget[r].reservedOutput
          /\ budget[r].output + budget[r].reservedOutput <= MaxOutput
          /\ MaxOutput \in Int
        BY SpendingAssumption DEF Shares, Allotted
    <2>2. /\ SumFunctionOnSet(Weights(r), Ids)'
               = SumFunctionOnSet(Weights(r), Ids)
                 - Weight(attempts[id], r) + Weight(attempts'[id], r)
          /\ SumFunctionOnSet(Weights(r), Ids) \in Int
        BY <1>1, <1>2, WeightChanges
    <2>3. CASE c \in Texts /\ RunOf[c] = r
        <3> DEFINE charge == IF out = NoUsage THEN Output[c] ELSE out
        <3>1. /\ Weight(attempts[id], r) = Output[c] /\ Output[c] \in Int
              /\ Weight(attempts'[id], r) \in Int /\ charge \in Int
              /\ Weight(attempts'[id], r) <= charge /\ charge <= Output[c]
            BY <1>4, <2>3, SpendingAssumption
        <3>2. /\ budget'[r].output = budget[r].output + charge
              /\ budget'[r].reservedOutput = budget[r].reservedOutput - Output[c]
            BY <1>0, <2>3, BudgetFields
        <3> HIDE DEF charge
        <3> QED
            BY <1>6, <2>1, <2>2, <3>1, <3>2
    <2>4. CASE ~(c \in Texts /\ RunOf[c] = r)
        <3>1. /\ budget'[r].output = budget[r].output
              /\ budget'[r].reservedOutput = budget[r].reservedOutput
            BY <1>0, <1>6, <2>4, BudgetFields
        <3>2. SumFunctionOnSet(Weights(r), Ids)' = SumFunctionOnSet(Weights(r), Ids)
            BY <1>5, <2>2, <2>4
        <3> QED
            BY <2>1, <3>1, <3>2
    <2> QED
        BY <2>3, <2>4
<1>9. StillOpen'
    <2> SUFFICES ASSUME NEW k \in Texts, call'[k].phase = "sent"
                 PROVE  attempts'[call'[k].id].open
        BY DEF StillOpen
    <2>1. k # c /\ k \in Calls /\ call'[k] = call[k] /\ call[k].phase = "sent"
        BY <1>0 DEF Leaves
    <2>2. call[k].id \in Ids /\ attempts[call[k].id].call = k
        BY <2>1, InFlight
    <2>3. call[k].id # id
        BY <1>1, <2>1, <2>2
    <2> QED
        BY <1>2, <2>1, <2>2, <2>3 DEF Shares, StillOpen
<1> QED
    BY <1>7, <1>8, <1>9 DEF Shares

\* The process dies: the runs begin anew, and no request of theirs lives.
LEMMA CrashShares ==
    ASSUME IInv, IInv', Shares, Crash
    PROVE  Shares'
<1>1. ASSUME NEW r \in Runs
      PROVE  budget'[r].output = 0 /\ budget'[r].reservedOutput = 0
    BY DEF Crash, NewBudget
<1>2. \A c \in Texts : call'[c].phase # "sent"
    BY DEF Crash, NewCall, Calls
<1>3. ASSUME NEW r \in Runs
      PROVE  Flying(r)' = {}
    BY <1>2 DEF Flying
<1>4. SumFunctionOnSet(Output, {}) = 0
    BY FS_EmptySet, SumSteps
<1>5. Promised'
    <2> SUFFICES ASSUME NEW r \in Runs
                 PROVE  budget'[r].reservedOutput = SumFunctionOnSet(Output, Flying(r)')
        BY DEF Promised
    <2> QED
        BY <1>1, <1>3, <1>4
<1>6. ASSUME NEW r \in Runs
      PROVE  SumFunctionOnSet(Weights(r)', Ids) = 0
    <2>1. ASSUME NEW id \in Ids
          PROVE  Weights(r)'[id] = 0
        <3>1. Weights(r)'[id] = Weight(attempts'[id], r)
            BY DEF Weights
        <3>2. CASE id <= sent
            <4>1. id \in Sent
                BY <3>2, SentIds DEF IInv
            <4>2. attempts[id] \in AttemptRecord
                BY <4>1 DEF IInv, Core, AttemptOK
            <4>3. attempts'[id].dead
                BY <3>2, <4>2 DEF Crash, AttemptRecord
            <4> QED
                BY <3>1, <4>3 DEF Weight
        <3>3. CASE ~(id <= sent)
            <4>1. attempts'[id] = NoAttempt
                BY <3>3 DEF Crash
            <4> QED
                BY <3>1, <4>1 DEF Weight, NoAttempt
        <3> QED
            BY <3>2, <3>3
    <2> QED
        BY <2>1, FiniteIds, SumZero
<1>7. Allotted'
    <2> SUFFICES ASSUME NEW r \in Runs
                 PROVE  /\ SumFunctionOnSet(Weights(r)', Ids)
                             <= budget'[r].output + budget'[r].reservedOutput
                        /\ budget'[r].output + budget'[r].reservedOutput <= MaxOutput
        BY DEF Allotted, Ids
    <2> QED
        BY <1>1, <1>6, SpendingAssumption
<1>8. StillOpen'
    BY <1>2 DEF StillOpen
<1> QED
    BY <1>5, <1>7, <1>8 DEF Shares

\* What the calls' own steps and the steps around them do to the two.
LEMMA SharesStep ==
    ASSUME IInv, IInv', Shares, Next
    PROVE  Shares'
<1> USE SpendingAssumption
<1>0. /\ TypeOK /\ Texts \subseteq Calls /\ Images \subseteq Calls
      /\ Texts \cap Images = {} /\ call \in [Calls -> CallRecord]
    BY DEF IInv, TypeOK, Calls
<1>1. ASSUME NEW c \in Texts, AdmitText(c)
      PROVE  Shares'
    <2>1. call[c].target \in Targets
        BY <1>0 DEF CallRecord
    <2>2. /\ sent < MaxIds /\ call[c].phase = "ready" /\ Dispatch(c, call[c].target)
          /\ WithinRun(c) /\ AdmitToRun(c)
        BY <1>1 DEF AdmitText
    <2> QED
        BY <1>0, <2>1, <2>2, DispatchShares
<1>2. ASSUME NEW c \in Texts, NEW fatal \in BOOLEAN, call[c].phase # "sent", Fails(c, fatal),
             attempts' = attempts, budget' = budget \/ AdmitAndRelease(c)
      PROVE  Shares'
    <2>1. call'[c].phase # "sent" /\ \A k \in Calls \ {c} : call'[k] = call[k]
        BY <1>0, <1>2, FailsType
    <2>2. \A r \in Runs : /\ budget'[r].output = budget[r].output
                          /\ budget'[r].reservedOutput = budget[r].reservedOutput
        BY <1>0, <1>2, BudgetFields
    <2> QED
        BY <1>0, <1>2, <2>1, <2>2, QuietShares
<1>3. ASSUME NEW c \in Texts, NotRouted(c) \/ RunBudgetRefuses(c) \/ SpendingRefuses(c)
      PROVE  Shares'
    <2>1. /\ call[c].phase # "sent" /\ attempts' = attempts
          /\ budget' = budget \/ AdmitAndRelease(c)
          /\ \E fatal \in BOOLEAN : Fails(c, fatal)
        BY <1>3 DEF NotRouted, RunBudgetRefuses, SpendingRefuses
    <2> QED
        BY <1>2, <2>1
<1>4. ASSUME attempts' = attempts, call' = call, budget' = budget
      PROVE  Shares'
    BY <1>4, QuietShares
<1>5. ASSUME NEW c \in Texts, Wake(c)
      PROVE  Shares'
    <2>1. /\ \A k \in Texts : call'[k].phase = "sent" <=> call[k].phase = "sent"
          /\ \A k \in Texts : call'[k].phase = "sent" => call'[k].id = call[k].id
          /\ attempts' = attempts /\ budget' = budget
        BY <1>0, <1>5 DEF Wake, CallRecord
    <2> QED
        BY <2>1, QuietShares
<1>6. ASSUME NEW c \in Texts, NEW good \in BOOLEAN, Completes(c, good)
      PROVE  Shares'
    <2>1. /\ call[c].phase = "sent" /\ SettleRun(c, usage[c]) /\ usage' = usage /\ sent' = sent
          /\ attempts' = [attempts EXCEPT ![call[c].id].open = FALSE]
          /\ attempts[call[c].id].made # NotAccepted
          /\ usage[c] \in {NoUsage}
               \cup Reported(attempts[call[c].id].target, attempts[call[c].id].made)
        BY <1>0, <1>6, InFlight DEF Completes, Attempt
    <2>2. call'[c].phase # "sent" /\ \A k \in Calls \ {c} : call'[k] = call[k]
        <3>1. CASE good
            BY <1>0, <1>6, <3>1 DEF Completes, CallRecord
        <3>2. CASE ~good
            BY <1>0, <1>6, <3>2, FailsType DEF Completes
        <3> QED
            BY <3>1, <3>2
    <2>3. Leaves(c)
        BY <2>1, <2>2 DEF Leaves
    <2> QED
        BY <1>0, <2>1, <2>3, LeaveShares
<1>7. ASSUME NEW c \in Texts, NEW fatal \in BOOLEAN, Breaks(c, fatal)
      PROVE  Shares'
    <2>1. /\ call[c].phase = "sent" /\ SettleRun(c, NoUsage) /\ usage' = usage /\ sent' = sent
          /\ attempts' = attempts
        BY <1>7 DEF Breaks
    <2>2. call'[c].phase # "sent" /\ \A k \in Calls \ {c} : call'[k] = call[k]
        BY <1>0, <1>7, FailsType DEF Breaks
    <2>3. Leaves(c)
        BY <2>1, <2>2 DEF Leaves
    <2> QED
        BY <1>0, <2>1, <2>3, LeaveShares
<1>8. ASSUME NEW c \in Images, AdmitImage(c)
      PROVE  Shares'
    <2>1. CASE Admissible(ImageCost)
        <3>1. /\ sent < MaxIds /\ call[c].phase = "ready" /\ Dispatch(c, "primary")
              /\ budget' = budget
            BY <1>8, <2>1 DEF AdmitImage
        <3>2. "primary" \in Targets
            BY DEF Targets
        <3> QED
            BY <1>0, <3>1, <3>2, DispatchShares
    <2>2. CASE ~Admissible(ImageCost)
        <3>1. /\ attempts' = attempts /\ budget' = budget
              /\ \A k \in Texts : call'[k] = call[k]
            BY <1>0, <1>8, <2>2 DEF AdmitImage
        <3> QED
            BY <3>1, QuietShares
    <2> QED
        BY <2>1, <2>2
<1>9. ASSUME NEW c \in Images, NEW good \in BOOLEAN, ImageAnswered(c, good)
      PROVE  Shares'
    <2>1. /\ call[c].phase = "sent" /\ usage' = usage /\ sent' = sent
          /\ attempts' = attempts /\ budget' = budget
        BY <1>9 DEF ImageAnswered
    <2>2. call'[c].phase # "sent" /\ \A k \in Calls \ {c} : call'[k] = call[k]
        BY <1>0, <1>9 DEF ImageAnswered, CallRecord
    <2>3. Leaves(c)
        BY <2>1, <2>2 DEF Leaves
    <2> QED
        BY <1>0, <2>1, <2>3, LeaveShares
<1>10. ASSUME NEW id \in Ids, Generate(id)
       PROVE  Shares'
    <2>1. attempts[id] \in AttemptRecord /\ attempts[id].open
        BY <1>0, <1>10, SentIds DEF Generate, IInv, Core, AttemptOK
    <2>2. /\ attempts'[id].call = attempts[id].call /\ attempts'[id].dead = attempts[id].dead
          /\ attempts'[id].open
          /\ \A x \in Ids \ {id} : attempts'[x] = attempts[x]
        BY <1>0, <1>10, <2>1 DEF Generate, AttemptRecord, TypeOK
    <2>3. \A r \in Runs, x \in Ids : Weight(attempts'[x], r) = Weight(attempts[x], r)
        BY <2>1, <2>2 DEF Weight, Metered
    <2>4. call' = call /\ budget' = budget
        BY <1>10 DEF Generate
    <2> QED
        BY <2>2, <2>3, <2>4, QuietShares
<1>11. ASSUME NEW l \in Limits, SetLimit(l)
       PROVE  Shares'
    BY <1>4, <1>11 DEF SetLimit
<1>12. ASSUME MonthTurns
       PROVE  Shares'
    BY <1>4, <1>12 DEF MonthTurns
<1>13. ASSUME NEW c \in Texts, UsageEvent(c)
       PROVE  Shares'
    BY <1>4, <1>13 DEF UsageEvent
<1> QED
    BY <1>1, <1>3, <1>5, <1>6, <1>7, <1>8, <1>9, <1>10, <1>11, <1>12, <1>13, CrashShares
    DEF Next, TextStep, ImageStep

\* What they do to the tables.
LEMMA BooksStep ==
    ASSUME IInv, Booked, Next
    PROVE  Booked'
<1> USE SpendingAssumption
<1>0. /\ TypeOK /\ Texts \subseteq Calls /\ Images \subseteq Calls
      /\ Texts \cap Images = {} /\ call \in [Calls -> CallRecord]
    BY DEF IInv, TypeOK, Calls
<1>1. ASSUME NEW amount \in Nat, sent < MaxIds, Reserve(sent + 1, amount)
      PROVE  Booked'
    <2>1. sent + 1 \in Ids /\ rows[sent + 1] = NoRow
        BY <1>0, <1>1, SentIds DEF IInv, Core, Unsent
    <2> QED
        BY <1>0, <1>1, <2>1, ReserveBooks
<1>2. ASSUME NEW c \in Texts, AdmitText(c)
      PROVE  Booked'
    <2>1. TokenReservation(c, call[c].target) \in Nat
        <3>1. call[c].target \in Targets
            BY <1>0 DEF CallRecord
        <3> QED
            BY <3>1, NoTokens, CostWithinReservation
    <2>2. CASE Price[call[c].target] = 0
        BY <1>2, <2>2, TablesStay DEF AdmitText
    <2>3. CASE Price[call[c].target] # 0
        BY <1>1, <1>2, <2>1, <2>3 DEF AdmitText
    <2> QED
        BY <2>2, <2>3
<1>3. ASSUME NEW c \in Texts, call[c].phase = "sent",
             NEW in, NEW out, Settles(c, in, out)
      PROVE  Booked'
    <2>1. CASE Price[call[c].target] = 0
        BY <1>3, <2>1, TablesStay DEF Settles, SettleText
    <2>2. CASE Price[call[c].target] # 0
        <3> DEFINE cost == IF out = NoUsage THEN rows[call[c].id].amount
                           ELSE UsageCost(call[c].target, in, out)
        <3>1. SettleAt(call[c].id, cost)
            BY <1>3, <2>2 DEF Settles, SettleText
        <3>2. cost \in Nat /\ InRows(call[c].id)
            BY <1>3, <2>2, TextCharge
        <3>3. call[c].id \in Ids /\ ledger[call[c].id] = NoRow
            BY <1>0, <1>3, <3>2, InFlight DEF InRows
        <3> QED
            BY <1>0, <3>1, <3>2, <3>3, SettleBooks
    <2> QED
        BY <2>1, <2>2
<1>4. ASSUME NEW c \in Texts, NEW good \in BOOLEAN, Completes(c, good)
      PROVE  Booked'
    BY <1>3, <1>4 DEF Completes, Attempt, Settles
<1>5. ASSUME NEW c \in Texts, NEW fatal \in BOOLEAN, Breaks(c, fatal)
      PROVE  Booked'
    BY <1>3, <1>5, BrokenOff DEF Breaks
<1>6. ASSUME NEW c \in Images, AdmitImage(c)
      PROVE  Booked'
    <2>1. CASE Admissible(ImageCost)
        BY <1>1, <1>6, <2>1 DEF AdmitImage
    <2>2. CASE ~Admissible(ImageCost)
        BY <1>6, <2>2, TablesStay DEF AdmitImage
    <2> QED
        BY <2>1, <2>2
<1>7. ASSUME NEW c \in Images, NEW good \in BOOLEAN, ImageAnswered(c, good)
      PROVE  Booked'
    <2>1. call[c].id \in Ids /\ InRows(call[c].id) /\ attempts[call[c].id] \in AttemptRecord
        BY <1>0, <1>7, InFlight DEF ImageAnswered, Paid
    <2>2. rows[call[c].id].amount \in Nat
        BY <1>0, <1>7, <2>1 DEF ImageAnswered, SettleImage, SettleAt, TypeOK, Row
    <2>3. ledger[call[c].id] = NoRow
        BY <2>1 DEF InRows
    <2> QED
        BY <1>0, <1>7, <2>1, <2>2, <2>3, SettleBooks DEF ImageAnswered, SettleImage
<1>8. ASSUME UNCHANGED tables
      PROVE  Booked'
    BY <1>8, TablesStay
<1>9. ASSUME NEW c \in Texts,
             NotRouted(c) \/ RunBudgetRefuses(c) \/ SpendingRefuses(c) \/ UsageEvent(c) \/ Wake(c)
      PROVE  Booked'
    BY <1>8, <1>9 DEF NotRouted, RunBudgetRefuses, SpendingRefuses, UsageEvent, Wake
<1>10. ASSUME (\E id \in Ids : Generate(id)) \/ (\E l \in Limits : SetLimit(l))
              \/ MonthTurns \/ Crash
       PROVE  Booked'
    BY <1>8, <1>10 DEF Generate, SetLimit, MonthTurns, Crash
<1> QED
    BY <1>2, <1>4, <1>5, <1>6, <1>7, <1>9, <1>10 DEF Next, TextStep, ImageStep

Sums == Booked /\ Shares

\* Nothing is booked, promised or generated at first.
LEMMA SumsBegin == Init => Sums
<1> SUFFICES ASSUME Init PROVE Sums
    OBVIOUS
<1>1. Booked
    <2> SUFFICES ASSUME NEW m \in Months
                 PROVE  /\ SumFunctionOnSet(Of(ledger, m), Ids) = 0
                        /\ SumFunctionOnSet(Of(rows, m), Ids) = 0
        BY DEF Booked, Init
    <2>1. \A id \in Ids : Of(ledger, m)[id] = 0 /\ Of(rows, m)[id] = 0
        BY DEF Of, Init
    <2> QED
        BY <2>1, FiniteIds, SumZero
<1>2. Promised
    <2> SUFFICES ASSUME NEW r \in Runs
                 PROVE  budget[r].reservedOutput = SumFunctionOnSet(Output, Flying(r))
        BY DEF Promised
    <2>1. Flying(r) = {}
        BY DEF Init, NewCall, Flying, Calls
    <2>2. budget[r].reservedOutput = 0
        BY DEF Init, NewBudget
    <2> QED
        BY <2>1, <2>2, FS_EmptySet, SumSteps
<1>3. Allotted
    <2> SUFFICES ASSUME NEW r \in Runs
                 PROVE  /\ SumFunctionOnSet(Weights(r), Ids)
                             <= budget[r].output + budget[r].reservedOutput
                        /\ budget[r].output + budget[r].reservedOutput <= MaxOutput
        BY DEF Allotted
    <2>1. \A id \in Ids : Weights(r)[id] = 0
        BY DEF Weights, Weight, Init, NoAttempt
    <2>2. SumFunctionOnSet(Weights(r), Ids) = 0
        BY <2>1, FiniteIds, SumZero
    <2>3. budget[r].output = 0 /\ budget[r].reservedOutput = 0
        BY DEF Init, NewBudget
    <2> QED
        BY <2>2, <2>3, SpendingAssumption
<1>4. StillOpen
    BY DEF StillOpen, Init, NewCall, Calls
<1> QED
    BY <1>1, <1>2, <1>3, <1>4 DEF Sums, Shares

\* The sums hold in every reachable state.
LEMMA AlwaysSums == Spec => [](IInv /\ Sums)
<1>1. IInv /\ [Next]_vars => IInv'
    BY TypeStep, CoreStep, Stuttering DEF IInv
<1>2. Sums /\ UNCHANGED vars => Sums'
    <2> SUFFICES ASSUME Sums, UNCHANGED vars PROVE Sums'
        OBVIOUS
    <2>1. Booked'
        BY DEF Sums, Booked, vars, tables
    <2>2. Promised' /\ Allotted' /\ StillOpen'
        BY DEF Sums, Shares, Promised, Allotted, StillOpen, Flying, Weights, vars
    <2> QED
        BY <2>1, <2>2 DEF Sums, Shares
<1>3. IInv /\ Sums /\ [Next]_vars => Sums'
    <2> SUFFICES ASSUME IInv, Sums, [Next]_vars PROVE Sums'
        OBVIOUS
    <2>1. CASE Next
        BY <1>1, <2>1, BooksStep, SharesStep DEF Sums
    <2> QED
        BY <1>2, <2>1
<1> QED
    BY <1>1, <1>3, Beginning, SumsBegin, PTL DEF Spec

-----------------------------------------------------------------------------
\* The running totals of the ledger are the sums of its rows, and what a run
\* holds back is what its calls in flight were promised.
THEOREM TotalsAddUp == Spec => []TotalsAreSums
<1>1. ASSUME IInv, Sums
      PROVE  TotalsAreSums
    <2> DEFINE In(table, m) == {id \in Ids : table[id] # NoRow /\ table[id].month = m}
               Amount(table) == [id \in Ids |-> table[id].amount]
    <2>1. ASSUME NEW table \in [Ids -> Row \cup {NoRow}], NEW m \in Months
          PROVE  SumFunctionOnSet(Of(table, m), Ids)
                   = SumFunctionOnSet(Amount(table), In(table, m))
        <3> DEFINE g == Amount(table)
                   h == Of(table, m)
                   D == In(table, m)
        <3>1. D \in SUBSET Ids
            OBVIOUS
        <3>2. ASSUME NEW id \in D
              PROVE  g[id] \in Int /\ h[id] = g[id]
            <4>1. h[id] = g[id] /\ table[id] \in Row /\ g[id] = table[id].amount
                BY DEF Of
            <4> QED
                BY <4>1 DEF Row
        <3>3. \A id \in Ids \ D : h[id] = 0
            BY DEF Of
        <3> HIDE DEF g, h, D
        <3>4. SumFunctionOnSet(h, Ids) = SumFunctionOnSet(g, D)
            BY <3>1, <3>2, <3>3, FiniteIds, SumMasked
        <3> QED
            BY <3>4 DEF g, h, D
    <2>2. ASSUME NEW m \in Months
          PROVE  /\ recorded[m] = SumFunctionOnSet(Amount(ledger), In(ledger, m))
                 /\ reserved[m] = SumFunctionOnSet(Amount(rows), In(rows, m))
        <3>1. /\ ledger \in [Ids -> Row \cup {NoRow}] /\ rows \in [Ids -> Row \cup {NoRow}]
              /\ recorded[m] = SumFunctionOnSet(Of(ledger, m), Ids)
              /\ reserved[m] = SumFunctionOnSet(Of(rows, m), Ids)
            BY <1>1 DEF IInv, TypeOK, Sums, Booked
        <3> HIDE DEF In, Amount
        <3> QED
            BY <2>1, <3>1
    <2>3. \A r \in Runs : budget[r].reservedOutput =
            SumFunctionOnSet(Output, {c \in Texts : RunOf[c] = r /\ call[c].phase = "sent"})
        BY <1>1 DEF Sums, Shares, Promised, Flying
    <2> QED
        BY <2>2, <2>3 DEF TotalsAreSums
<1> QED
    BY <1>1, AlwaysSums, PTL

\* What the requests of a run have generated stays within what its budget has
\* counted or promised, and that within the maximum, however many workers,
\* retries and fallbacks share it.
THEOREM RunOutputHolds == Spec => []RunOutputBounded
<1>1. ASSUME IInv, Sums
      PROVE  RunOutputBounded
    <2> DEFINE mine(r) == {id \in Sent : /\ attempts[id].call \in Texts
                                        /\ RunOf[attempts[id].call] = r
                                        /\ ~attempts[id].dead /\ Metered(attempts[id])
                                        /\ attempts[id].made # NotAccepted}
               Made == [id \in Ids |-> attempts[id].made]
    <2> SUFFICES ASSUME NEW r \in Runs
                 PROVE  /\ SumFunctionOnSet(Made, mine(r))
                             <= budget[r].output + budget[r].reservedOutput
                        /\ budget[r].output + budget[r].reservedOutput <= MaxOutput
        BY DEF RunOutputBounded
    <2>1. /\ SumFunctionOnSet(Weights(r), Ids) <= budget[r].output + budget[r].reservedOutput
          /\ budget[r].output + budget[r].reservedOutput <= MaxOutput
          /\ budget[r].output \in Int /\ budget[r].reservedOutput \in Int
        BY <1>1 DEF Sums, Shares, Allotted, IInv, TypeOK, RunBudget
    <2> DEFINE g == Made
               w == Weights(r)
               D == mine(r)
    <2>2. D \in SUBSET Ids
        BY <1>1, SentIds DEF IInv
    <2>3. ASSUME NEW id \in Ids
          PROVE  w[id] \in Nat
        <3>1. Weight(attempts[id], r) \in Nat /\ Weights(r)[id] = Weight(attempts[id], r)
            BY <1>1, WeightsAreNaturals
        <3> QED
            BY <3>1
    <2>4. ASSUME NEW id \in D
          PROVE  g[id] \in Int /\ w[id] \in Int /\ g[id] <= w[id]
        <3>1. id \in Ids /\ g[id] = attempts[id].made
            BY <2>2
        <3>2. /\ attempts[id].made \in Nat
              /\ attempts[id].made <= Weight(attempts[id], r)
              /\ Weights(r)[id] = Weight(attempts[id], r)
              /\ Weight(attempts[id], r) \in Nat
            BY <1>1, <3>1, WeightsAreNaturals
        <3> QED
            BY <3>1, <3>2
    <2> HIDE DEF g, w, D
    <2>5. IsFiniteSet(D)
        BY <2>2, FiniteIds, FS_Subset
    <2>6. SumFunctionOnSet(g, D) <= SumFunctionOnSet(w, D)
        BY <2>4, <2>5, SumLess
    <2>7. SumFunctionOnSet(w, D) <= SumFunctionOnSet(w, Ids)
        BY <2>2, <2>3, FiniteIds, SumOfNaturals
    <2>8. /\ SumFunctionOnSet(g, D) \in Int /\ SumFunctionOnSet(w, D) \in Int
          /\ SumFunctionOnSet(w, Ids) \in Int
        <3>1. \A id \in Ids : w[id] \in Int
            BY <2>3
        <3> QED
            BY <2>4, <2>5, <3>1, FiniteIds, SumType
    <2>9. SumFunctionOnSet(g, D) <= budget[r].output + budget[r].reservedOutput
        <3>1. SumFunctionOnSet(w, Ids) <= budget[r].output + budget[r].reservedOutput
            BY <2>1 DEF w
        <3> QED
            BY <2>1, <2>6, <2>7, <2>8, <3>1
    <2> QED
        BY <2>1, <2>9 DEF g, D
<1> QED
    BY <1>1, AlwaysSums, PTL
=============================================================================
