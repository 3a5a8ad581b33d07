------------------------------ MODULE LinkedLru ------------------------------
(***************************************************************************)
(* LRUMap of server/cacheEngine.ts: a map from keys to the nodes of a      *)
(* doubly linked list, latest use first.  A key has at most one node in    *)
(* the map, and a node that has left it is never looked at again, so a     *)
(* node is named by its key.  The values the nodes carry are left out.     *)
(***************************************************************************)
EXTENDS Integers, Sequences, FiniteSets

CONSTANTS Keys, MaxSize, None

LruAssumption == IsFiniteSet(Keys) /\ None \notin Keys /\ MaxSize \in Nat \ {0}

VARIABLES
    map,    \* keys that have a node
    list    \* the pointers: head, tail, and next and prev of every node

vars == <<map, list>>

Init ==
    /\ map = {}
    /\ list = [head |-> None, tail |-> None,
               next |-> [k \in Keys |-> None], prev |-> [k \in Keys |-> None]]

-----------------------------------------------------------------------------
(* The helpers, on a list l. *)

(* Seeded fault: the tail is not moved when the last node is unlinked. *)
UnlinkedKeepingTail(l, k) ==
    LET p == l.prev[k]  n == l.next[k] IN
    [head |-> IF p # None THEN l.head ELSE n,
     tail |-> l.tail,
     next |-> [x \in Keys |-> IF x = k THEN None ELSE IF x = p THEN n ELSE l.next[x]],
     prev |-> [x \in Keys |-> IF x = k THEN None ELSE IF x = n THEN p ELSE l.prev[x]]]

Unlinked(l, k) ==
    LET p == l.prev[k]  n == l.next[k] IN
    [head |-> IF p # None THEN l.head ELSE n,
     tail |-> IF n # None THEN l.tail ELSE p,
     next |-> [x \in Keys |-> IF x = k THEN None ELSE IF x = p THEN n ELSE l.next[x]],
     prev |-> [x \in Keys |-> IF x = k THEN None ELSE IF x = n THEN p ELSE l.prev[x]]]

Prepended(l, k) ==
    [head |-> k,
     tail |-> IF l.tail = None THEN k ELSE l.tail,
     next |-> [l.next EXCEPT ![k] = l.head],
     prev |-> [x \in Keys |-> IF x = k THEN None ELSE IF x = l.head THEN k ELSE l.prev[x]]]

Promoted(l, k) == IF k = l.head THEN l ELSE Prepended(Unlinked(l, k), k)

-----------------------------------------------------------------------------
(* The operations. *)

Get(k) == k \in map /\ list' = Promoted(list, k) /\ UNCHANGED map

SetExisting(k) == k \in map /\ list' = Promoted(list, k) /\ UNCHANGED map

SetNew(k) ==
    LET longer == Prepended(list, k) IN
    /\ k \notin map
    /\ IF Cardinality(map \cup {k}) > MaxSize
       THEN map' = (map \cup {k}) \ {longer.tail} /\ list' = Unlinked(longer, longer.tail)
       ELSE map' = map \cup {k} /\ list' = longer

Delete(k) == k \in map /\ map' = map \ {k} /\ list' = Unlinked(list, k)

\* clear forgets head and tail; the nodes are garbage
Clear == map' = {} /\ list' = [list EXCEPT !.head = None, !.tail = None]

Next == Clear \/ \E k \in Keys : Get(k) \/ SetExisting(k) \/ SetNew(k) \/ Delete(k)

Spec == Init /\ [][Next]_vars

-----------------------------------------------------------------------------
(* The pointers lie within the keys; head and tail are keys of the map.    *)
TypeOK ==
    /\ map \subseteq Keys
    /\ {list.head, list.tail} \subseteq map \cup {None}
    /\ list.next \in [Keys -> Keys \cup {None}] /\ list.prev \in [Keys -> Keys \cup {None}]

\* the keys met from the head on, following at most Cardinality(Keys) pointers
Walk ==
    LET met[n \in 0 .. Cardinality(Keys)] ==
            IF n = 0 THEN <<>>
            ELSE LET before == met[n - 1]
                     node == IF before = <<>> THEN list.head ELSE list.next[before[Len(before)]]
                 IN  IF node = None THEN before ELSE Append(before, node)
    IN  IF list.head = None THEN <<>> ELSE met[Cardinality(Keys)]

Recency == INSTANCE RecencyList WITH order <- Walk

(* The linked list is the list of keys by last use: promotion, insertion,  *)
(* eviction at the tail and deletion keep every pointer right.             *)
ImplementsRecency == Recency!Spec
=============================================================================
