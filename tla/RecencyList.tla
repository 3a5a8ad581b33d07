----------------------------- MODULE RecencyList -----------------------------
(***************************************************************************)
(* What the least-recently-used maps of server/cacheEngine.ts promise: the *)
(* keys in the order of their last use, the latest first, never more than  *)
(* MaxSize of them.                                                        *)
(***************************************************************************)
EXTENDS Integers, Sequences, SequencesExt

CONSTANTS Keys, MaxSize

VARIABLE order

\* the list without some keys
Without(s, gone) ==
    LET kept[i \in 0 .. Len(s)] ==
            IF i = 0 THEN <<>>
            ELSE IF s[i] \in gone THEN kept[i - 1] ELSE Append(kept[i - 1], s[i])
    IN  kept[Len(s)]

\* get: a use moves the key to the front
Used(s, k) == <<k>> \o Without(s, {k})

\* set: a key already there is used, a new one may push out the oldest
Pushed(s, k) == IF k \in Range(s) \/ Len(s) < MaxSize THEN {} ELSE {Last(s)}
Placed(s, k) == IF Pushed(s, k) = {} THEN Used(s, k) ELSE <<k>> \o Front(s)

Init == order = <<>>

Use(k) == k \in Range(order) /\ order' = Used(order, k)
Put(k) == order' = Placed(order, k)
Drop(k) == k \in Range(order) /\ order' = Without(order, {k})
Clear == order' = <<>>

Next == Clear \/ \E k \in Keys : Use(k) \/ Put(k) \/ Drop(k)

Spec == Init /\ [][Next]_order
=============================================================================
