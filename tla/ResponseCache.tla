---------------------------- MODULE ResponseCache ----------------------------
(***************************************************************************)
(* The two tiers of answers in server/cacheEngine.ts, their byte counts    *)
(* and the memory budget.  A tier holds its entries in a RecencyList; a    *)
(* byte count is kept beside it, changed by every operation on its own.    *)
(* The exact tier is also written to Redis, and filled from there when the *)
(* server starts.                                                          *)
(***************************************************************************)
EXTENDS Integers, Sequences, FiniteSets, FiniteSetsExt, SequencesExt

CONSTANTS
    Keys,
    Sizes,      \* estimateBytes of an answer
    MaxSize,    \* entries of a tier
    High,       \* 90% of maxMemoryMB
    WarmLimit

CacheAssumption ==
    /\ IsFiniteSet(Keys) /\ Sizes \subseteq Nat \ {0} /\ Sizes # {} /\ IsFiniteSet(Sizes)
    /\ MaxSize \in Nat \ {0} /\ High \in Nat \ {0} /\ WarmLimit \in Nat

VARIABLES
    exact, semantic,    \* the tiers
    warmed              \* entries warmFromRedis has restored

vars == <<exact, semantic, warmed>>

Lru == INSTANCE RecencyList WITH order <- exact.lru

Empty == [lru |-> <<>>,                     \* keys by last use
          bytes |-> [k \in Keys |-> 0],     \* of the entry, 0 for none
          perKey |-> [k \in Keys |-> 0],    \* bytesPerKey
          expired |-> {},
          total |-> 0]                      \* totalBytes

Init == exact = Empty /\ semantic = Empty /\ warmed = 0

Held(t) == ToSet(t.lru)

-----------------------------------------------------------------------------
(* What the operations do to a tier. *)

Touched(t, k) == [t EXCEPT !.lru = Lru!Used(t.lru, k)]

\* an expired entry leaves; bytesPerKey is not told
Swept(t, gone) ==
    [t EXCEPT !.lru = Lru!Without(t.lru, gone),
              !.bytes = [k \in Keys |-> IF k \in gone THEN 0 ELSE t.bytes[k]],
              !.expired = t.expired \ gone,
              !.total = @ - MapThenSumSet(LAMBDA k : t.bytes[k], gone)]

(* Seeded fault: for an entry pushed out, the new one's bytes are subtracted. *)
StoredForNew(t, k, b) ==
    LET out == Lru!Pushed(t.lru, k) IN
    [lru |-> Lru!Placed(t.lru, k),
     bytes |-> [x \in Keys |-> IF x = k THEN b ELSE IF x \in out THEN 0 ELSE t.bytes[x]],
     perKey |-> [x \in Keys |-> IF x = k THEN b ELSE IF x \in out THEN 0 ELSE t.perKey[x]],
     expired |-> t.expired \ (out \cup {k}),
     total |-> IF out = {} THEN t.total + b ELSE t.total]

\* an overwritten entry's bytes stay in the total
Stored(t, k, b) ==
    LET out == Lru!Pushed(t.lru, k)
        freed == MapThenSumSet(LAMBDA x : t.perKey[x], out) IN
    [lru |-> Lru!Placed(t.lru, k),
     bytes |-> [x \in Keys |-> IF x = k THEN b ELSE IF x \in out THEN 0 ELSE t.bytes[x]],
     perKey |-> [x \in Keys |-> IF x = k THEN b ELSE IF x \in out THEN 0 ELSE t.perKey[x]],
     expired |-> t.expired \ (out \cup {k}),
     total |-> Max({0, t.total - freed}) + b]

\* the exact tier forgets bytesPerKey too
ExactCleared == Empty
SemanticCleared == [Empty EXCEPT !.perKey = semantic.perKey]

-----------------------------------------------------------------------------
(* The operations of the engine. *)

\* enforceMemoryBudget, before anything is stored
OverBudget == exact.total + semantic.total >= High
RoomySemantic == IF OverBudget THEN SemanticCleared ELSE semantic
RoomyExact == IF OverBudget /\ exact.total >= High THEN ExactCleared ELSE exact

\* get, when the exact tier has the answer
HitExact(k) ==
    /\ k \in Held(exact) \ exact.expired
    /\ exact' = Touched(exact, k)
    /\ UNCHANGED <<semantic, warmed>>

\* get, when it has not: the similar answer is looked for among those of the
\* same context, the expired of which go
MissExact(k) ==
    /\ k \notin Held(exact) \ exact.expired
    /\ exact' = Swept(exact, {k} \cap Held(exact))
    /\ \E context \in SUBSET Held(semantic) :
        LET left == Swept(semantic, context \cap semantic.expired) IN
        \/ semantic' = left
        \/ \E x \in context \ semantic.expired : semantic' = Touched(left, x)
    /\ UNCHANGED warmed

\* set, after the model has answered; two callers may both have missed
Answer(k, x, b) ==
    /\ exact' = Stored(RoomyExact, k, b)
    /\ semantic' = Stored(RoomySemantic, x, b)
    /\ UNCHANGED warmed

\* warmFromRedis: straight into the exact tier, beside the server's requests
Warm(k, b) ==
    /\ warmed < WarmLimit /\ warmed' = warmed + 1
    /\ exact' = Stored(exact, k, b)
    /\ UNCHANGED semantic

Expire ==
    /\ \/ \E k \in Held(exact) \ exact.expired :
            exact' = [exact EXCEPT !.expired = @ \cup {k}] /\ UNCHANGED semantic
       \/ \E k \in Held(semantic) \ semantic.expired :
            semantic' = [semantic EXCEPT !.expired = @ \cup {k}] /\ UNCHANGED exact
    /\ UNCHANGED warmed

\* sweep removes what has expired; its enforceMemoryBudget follows at once
Sweep ==
    LET e == Swept(exact, exact.expired)
        m == Swept(semantic, semantic.expired) IN
    /\ IF e.total + m.total < High THEN exact' = e /\ semantic' = m
       ELSE /\ semantic' = SemanticCleared
            /\ exact' = IF e.total >= High THEN ExactCleared ELSE e
    /\ UNCHANGED warmed

\* clear and clearForModel
Clear ==
    /\ \/ exact' = ExactCleared /\ UNCHANGED semantic
       \/ semantic' = SemanticCleared /\ UNCHANGED exact
       \/ exact' = ExactCleared /\ semantic' = SemanticCleared
    /\ UNCHANGED warmed

Next ==
    \/ \E k \in Keys :
        \/ HitExact(k) \/ MissExact(k)
        \/ \E b \in Sizes : Warm(k, b) \/ \E x \in Keys : Answer(k, x, b)
    \/ Expire \/ Sweep \/ Clear

Spec == Init /\ [][Next]_vars

-----------------------------------------------------------------------------
Tier == [lru : Seq(Keys), bytes : [Keys -> Nat], perKey : [Keys -> Nat],
         expired : SUBSET Keys, total : Nat]

TypeOK == exact \in Tier /\ semantic \in Tier /\ warmed \in 0 .. WarmLimit

Resident(t) == MapThenSumSet(LAMBDA k : t.bytes[k], Held(t))

(* What the cache holds stays within the budget and one answer in each     *)
(* tier, plus what was restored from Redis: an entry may be counted twice, *)
(* but one that is held is always counted, whatever was evicted, expired,  *)
(* overwritten or cleared before.                                          *)
BudgetKept ==
    /\ Resident(exact) <= exact.total /\ Resident(semantic) <= semantic.total
    /\ Resident(exact) + Resident(semantic) < High + (2 + warmed) * Max(Sizes)
=============================================================================
