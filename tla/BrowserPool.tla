------------------------------ MODULE BrowserPool ------------------------------
(***************************************************************************)
(* server/browserTool.ts: the pages of the sessions and the pool of warm   *)
(* contexts.  A page, a refill and a close are awaited, each in between    *)
(* steps of the others.  The browser process itself is not modelled: a     *)
(* creation may fail.                                                      *)
(***************************************************************************)
EXTENDS Integers, FiniteSets

CONSTANTS
    Sessions,
    MaxContexts,    \* bound: contexts created
    PoolSize,       \* POOL_SIZE
    None, New       \* New: a page that the pool has no slot for

BrowserAssumption ==
    /\ MaxContexts \in Nat /\ PoolSize \in Nat \ {0}
    /\ None \notin 1 .. MaxContexts /\ New \notin 1 .. MaxContexts

Contexts == 1 .. MaxContexts    \* in the order of their creation

VARIABLES
    made,       \* how many contexts have been created
    pool,       \* _pool
    entry,      \* _pages and _contexts, which change together
    slot,       \* _poolSlots
    getting,    \* _pendingPages: the slot acquired, New or None
    crashed,    \* contexts whose page has closed by itself
    closing,    \* sessions of which closePage awaits context.close()
    refills,    \* calls of _refillPool that have no browser yet
    creating,   \* calls of it that await a slot
    warm,       \* the call of warmBrowserPool, and _poolWarmed when "warmed"
    down,       \* shutdownBrowser: not called, awaiting pages, over
    awaited,    \* the pages it awaits
    served      \* history: the sessions each context was acquired for

vars == <<made, pool, entry, slot, getting, crashed, closing, refills, creating, warm, down,
          awaited, served>>

Init ==
    /\ made = 0 /\ pool = {} /\ crashed = {} /\ closing = {} /\ awaited = {}
    /\ entry = [s \in Sessions |-> None] /\ slot = [s \in Sessions |-> None]
    /\ getting = [s \in Sessions |-> None]
    /\ refills = 0 /\ creating = 0
    /\ warm = "new" /\ down = "no"
    /\ served = [c \in Contexts |-> {}]

Serves(c, s) == served' = [served EXCEPT ![c] = @ \cup {s}]
Created(c) == c = made + 1 /\ made' = c

\* _refillPool is called: before the pool is warm and in a shutdown it returns
Refill == refills' = IF warm = "warmed" /\ down = "no" THEN refills + 1 ELSE refills

-----------------------------------------------------------------------------
(* getPage, when the session has no open page. *)

AcquireSlot(s) ==
    /\ getting[s] = None /\ entry[s] \in crashed \cup {None}
    /\ \E c \in pool :
        /\ pool' = pool \ {c}
        /\ getting' = [getting EXCEPT ![s] = c]
        /\ Serves(c, s)
    /\ entry' = [entry EXCEPT ![s] = None]
    /\ UNCHANGED <<made, slot, crashed, closing, refills, creating, warm, down, awaited>>

\* getBrowser throws in a shutdown
NeedContext(s) ==
    /\ getting[s] = None /\ entry[s] \in crashed \cup {None}
    /\ pool = {}
    /\ entry' = [entry EXCEPT ![s] = None]
    /\ getting' = [getting EXCEPT ![s] = IF down = "no" THEN New ELSE None]
    /\ UNCHANGED <<made, pool, slot, crashed, closing, refills, creating, warm, down, awaited,
                   served>>

\* the egress guard is on the slot's context
SlotReady(s) ==
    /\ getting[s] \in Contexts
    /\ entry' = [entry EXCEPT ![s] = getting[s]] /\ slot' = [slot EXCEPT ![s] = getting[s]]
    /\ getting' = [getting EXCEPT ![s] = None] /\ awaited' = awaited \ {s}
    /\ Refill
    /\ UNCHANGED <<made, pool, crashed, closing, creating, warm, down, served>>

ContextReady(s) ==
    /\ getting[s] = New
    /\ \E c \in Contexts :
        /\ Created(c) /\ Serves(c, s)
        /\ entry' = [entry EXCEPT ![s] = c]
    /\ getting' = [getting EXCEPT ![s] = None] /\ awaited' = awaited \ {s}
    /\ UNCHANGED <<pool, slot, crashed, closing, refills, creating, warm, down>>

\* the guard cannot be installed or the context not created
GetFails(s) ==
    /\ getting[s] # None
    /\ getting' = [getting EXCEPT ![s] = None] /\ awaited' = awaited \ {s}
    /\ UNCHANGED <<made, pool, entry, slot, crashed, closing, refills, creating, warm, down, served>>

PageCrashes(s) ==
    /\ entry[s] \notin crashed \cup {None}
    /\ crashed' = crashed \cup {entry[s]}
    /\ UNCHANGED <<made, pool, entry, slot, getting, closing, refills, creating, warm, down, awaited,
                   served>>

-----------------------------------------------------------------------------
(* closePage. *)

(* Seeded fault: the used slot goes back into the pool. *)
ReturnSlotReused(s) ==
    /\ slot[s] # None
    /\ slot' = [slot EXCEPT ![s] = None] /\ entry' = [entry EXCEPT ![s] = None]
    /\ pool' = IF Cardinality(pool) < PoolSize THEN pool \cup {slot[s]} ELSE pool
    /\ UNCHANGED <<made, getting, crashed, closing, refills, creating, warm, down, awaited, served>>

\* the used context is closed, never reset
ReturnSlot(s) ==
    /\ slot[s] # None
    /\ slot' = [slot EXCEPT ![s] = None] /\ entry' = [entry EXCEPT ![s] = None]
    /\ IF Cardinality(pool) < PoolSize THEN Refill ELSE UNCHANGED refills
    /\ UNCHANGED <<made, pool, getting, crashed, closing, creating, warm, down, awaited, served>>

CloseContext(s) ==
    /\ slot[s] = None /\ entry[s] # None
    /\ closing' = closing \cup {s}
    /\ UNCHANGED <<made, pool, entry, slot, getting, crashed, refills, creating, warm, down, awaited,
                   served>>

\* it deletes what the session has by then; another close may still wait
ContextClosed(s) ==
    /\ s \in closing /\ closing' \in {closing, closing \ {s}}
    /\ entry' = [entry EXCEPT ![s] = None]
    /\ UNCHANGED <<made, pool, slot, getting, crashed, refills, creating, warm, down, awaited, served>>

-----------------------------------------------------------------------------
(* The pool. *)

WarmBegins ==
    /\ warm = "new" /\ down = "no"
    /\ warm' = "warming"
    /\ UNCHANGED <<made, pool, entry, slot, getting, crashed, closing, refills, creating, down,
                   awaited, served>>

\* all slots or none
WarmEnds ==
    /\ warm = "warming"
    /\ \/ /\ made + PoolSize <= MaxContexts
          /\ made' = made + PoolSize /\ pool' = pool \cup (made + 1 .. made')
          /\ warm' = "warmed"
       \/ warm' = "failed" /\ UNCHANGED <<made, pool>>
    /\ UNCHANGED <<entry, slot, getting, crashed, closing, refills, creating, down, awaited, served>>

\* the refill has its browser; the loop looks at the pool before each slot
RefillLooks ==
    /\ refills > 0 /\ refills' = refills - 1
    /\ creating' = IF down = "no" /\ Cardinality(pool) < PoolSize THEN creating + 1 ELSE creating
    /\ UNCHANGED <<made, pool, entry, slot, getting, crashed, closing, warm, down, awaited, served>>

RefillPushes ==
    /\ creating > 0
    /\ \/ \E c \in Contexts :
            /\ Created(c) /\ pool' = pool \cup {c}
            /\ creating' = IF Cardinality(pool') < PoolSize THEN creating ELSE creating - 1
       \/ creating' = creating - 1 /\ UNCHANGED <<made, pool>>
    /\ UNCHANGED <<entry, slot, getting, crashed, closing, refills, warm, down, awaited, served>>

ShutDownBegins ==
    /\ down = "no"
    /\ down' = "waiting" /\ awaited' = {s \in Sessions : getting[s] # None}
    /\ UNCHANGED <<made, pool, entry, slot, getting, crashed, closing, refills, creating, warm, served>>

\* the maps are emptied and every context that was in them closed
ShutDownCloses ==
    /\ down = "waiting" /\ awaited = {}
    /\ down' = "over"
    /\ pool' = {} /\ warm' = IF warm = "warmed" THEN "failed" ELSE warm
    /\ entry' = [s \in Sessions |-> None] /\ slot' = [s \in Sessions |-> None]
    /\ UNCHANGED <<made, getting, crashed, closing, refills, creating, awaited, served>>

Next ==
    \/ WarmBegins \/ WarmEnds \/ RefillLooks \/ RefillPushes \/ ShutDownBegins \/ ShutDownCloses
    \/ \E s \in Sessions :
        \/ AcquireSlot(s) \/ NeedContext(s) \/ SlotReady(s) \/ ContextReady(s) \/ GetFails(s)
        \/ PageCrashes(s) \/ ReturnSlot(s) \/ CloseContext(s) \/ ContextClosed(s)

Spec == Init /\ [][Next]_vars

-----------------------------------------------------------------------------
(* Every variable has its type. *)
TypeOK ==
    /\ made \in 0 .. MaxContexts /\ pool \subseteq 1 .. made /\ crashed \subseteq 1 .. made
    /\ entry \in [Sessions -> 1 .. made \cup {None}] /\ slot \in [Sessions -> 1 .. made \cup {None}]
    /\ getting \in [Sessions -> 1 .. made \cup {None, New}]
    /\ closing \subseteq Sessions /\ awaited \subseteq Sessions
    /\ refills \in Nat /\ creating \in Nat
    /\ warm \in {"new", "warming", "warmed", "failed"} /\ down \in {"no", "waiting", "over"}
    /\ served \in [Contexts -> SUBSET Sessions]

(* "contexts retain JS interceptors, localStorage, and cookies across      *)
(* navigations so they MUST be discarded": whatever refills, crashes and   *)
(* late closes do, a context serves one session in its life, and what the  *)
(* pool holds has served none.                                             *)
ContextsUnshared ==
    /\ \A c \in Contexts : Cardinality(served[c]) <= 1
    /\ \A c \in pool : served[c] = {}
=============================================================================
