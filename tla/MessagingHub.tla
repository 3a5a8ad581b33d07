----------------------------- MODULE MessagingHub -----------------------------
(***************************************************************************)
(* server/messagingHub.ts: channels and their subscriptions, the queue of  *)
(* outbound deliveries with its retries, and the admission of inbound      *)
(* messages.  All of it is memory; persistState writes the whole of it     *)
(* into one row of SQLite, and a restart begins with the last row written. *)
(*                                                                         *)
(* persistState throws when SQLite does.  In a request that is an error    *)
(* for the caller, with the memory changed all the same; in a pass of the  *)
(* queue it is an unhandled rejection, on which the server shuts down.     *)
(***************************************************************************)
EXTENDS Integers, FiniteSets, Sequences, SequencesExt

CONSTANTS
    Channels, ChannelOf,    \* the channel each delivery is for
    Deliveries,             \* bound: messages sent
    Events, ThreadOf,       \* inbound events, and the conversation each names or None
    Conversations,
    MaxRetries,             \* MAX_RETRIES: attempts at a delivery
    MaxArrivals,            \* bound: times the provider delivers an event
    MaxKills, MaxFaults,    \* bounds: kills of the server, failed writes
    None

ASSUME HubAssumption ==
    /\ \A d \in Deliveries : ChannelOf[d] \in Channels
    /\ \A x \in Events : ThreadOf[x] \in Conversations \cup {None}
    /\ None \notin Channels \cup Conversations \cup Deliveries
    /\ MaxRetries \in Nat \ {0} /\ MaxArrivals \in Nat /\ MaxKills \in Nat /\ MaxFaults \in Nat

VARIABLES
    mem,        \* the hub's memory: what persistState writes
    disk,       \* the row it wrote last
    server,     \* "up", "stopping" after an unhandled rejection, or "down"
    pass,       \* of the queue: idle, due now or later, running, or dead
    todo,       \* entries the running pass has still to deliver
    sending,    \* the one whose adapter it awaits
    testing,    \* channels with a connection test under way
    stored,     \* <<channel, event>> of the inbound messages in SQLite
    dispatched, \* how often each was given to the orchestrator
    acked,      \* events whose provider was answered with success
    arrivals, accepted, sends, kills, faults

outVars == <<pass, todo, sending, accepted, sends>>
inVars == <<stored, dispatched, acked, arrivals>>
vars == <<mem, disk, server, outVars, testing, inVars, kills, faults>>

Unsettled(m) == {d \in m.queue : m.status[d] \in {"queued", "retried"}}
Due(m) == Unsettled(m) \ m.backingOff
Registered(m) == ToSet(m.channels)
Sources == Events \X (Channels \cup {None})     \* None: no channel of the type

Init ==
    /\ mem = [channels |-> <<>>, state |-> [h \in Channels |-> "none"], subs |-> {},
              queue |-> {}, backingOff |-> {},
              status |-> [d \in Deliveries |-> "none"], attempts |-> [d \in Deliveries |-> 0]]
    /\ disk = mem
    /\ server = "up" /\ pass = "idle" /\ todo = {} /\ sending = None /\ testing = {}
    /\ stored = {} /\ dispatched = [s \in Sources |-> 0] /\ acked = {}
    /\ arrivals = [x \in Events |-> 0] /\ accepted = {} /\ sends = [d \in Deliveries |-> 0]
    /\ kills = 0 /\ faults = 0

Persisted(m) == mem' = m /\ disk' = m /\ UNCHANGED faults
Unpersisted(m) == mem' = m /\ faults < MaxFaults /\ faults' = faults + 1 /\ UNCHANGED disk
PersistOrThrow(m) == Persisted(m) \/ Unpersisted(m)

\* requests admitted before a shutdown are served during its drain
Serving == server # "down"

-----------------------------------------------------------------------------
(* The channel registry and the subscriptions. *)

RegisterChannel(h) ==
    /\ Serving /\ mem.state[h] = "none"
    /\ PersistOrThrow([mem EXCEPT !.channels = Append(@, h), !.state[h] = "disconnected"])
    /\ UNCHANGED <<server, outVars, testing, inVars, kills>>

\* updateChannelConfig; disconnectChannel is one of its uses
UpdateChannel(h, st) ==
    /\ Serving /\ h \in Registered(mem) /\ st \in {mem.state[h], "disconnected"}
    /\ PersistOrThrow([mem EXCEPT !.state[h] = st])
    /\ UNCHANGED <<server, outVars, testing, inVars, kills>>

\* testChannel and connectChannel up to the adapter's answer, and after it
TestBegins(h) ==
    /\ Serving /\ h \in Registered(mem) /\ h \notin testing
    /\ testing' = testing \cup {h}
    /\ UNCHANGED <<mem, disk, server, outVars, inVars, kills, faults>>

TestEnds(h) ==
    /\ Serving /\ h \in testing
    /\ testing' = testing \ {h}
    /\ \E st \in {"connected", "error"} : PersistOrThrow([mem EXCEPT !.state[h] = st])
    /\ UNCHANGED <<server, outVars, inVars, kills>>

\* the loop runs over the array unsubscribe shortens: it passes every other one by
RemoveChannel(h) ==
    LET ofChannel == {s \in mem.subs : s[1] = h} IN
    /\ Serving
    /\ \E i \in DOMAIN mem.channels, gone \in SUBSET ofChannel :
        /\ mem.channels[i] = h
        /\ Cardinality(gone) = (Cardinality(ofChannel) + 1) \div 2
        /\ PersistOrThrow([mem EXCEPT !.channels = RemoveAt(@, i), !.subs = @ \ gone])
    /\ UNCHANGED <<server, outVars, testing, inVars, kills>>

Subscribe(h, v) ==
    /\ Serving /\ h \in Registered(mem)
    /\ PersistOrThrow([mem EXCEPT !.subs = @ \cup {<<h, v>>}])
    /\ UNCHANGED <<server, outVars, testing, inVars, kills>>

Unsubscribe(h, v) ==
    /\ Serving
    /\ PersistOrThrow([mem EXCEPT !.subs = @ \ {<<h, v>>}])
    /\ UNCHANGED <<server, outVars, testing, inVars, kills>>

-----------------------------------------------------------------------------
(* Outbound: enqueue, and the passes of the queue. *)

Queued(d) == [mem EXCEPT !.queue = @ \cup {d}, !.status[d] = "queued"]

Sendable(d) ==
    /\ Serving /\ mem.status[d] = "none"
    /\ ChannelOf[d] \in Registered(mem) /\ mem.state[ChannelOf[d]] = "connected"

\* the caller hears of success if the second persistState, after enqueue's, works
SendMessage(d) ==
    /\ Sendable(d)
    /\ mem' = Queued(d) /\ disk' = Queued(d)
    /\ pass' = IF pass = "idle" THEN "now" ELSE pass
    /\ \/ accepted' = accepted \cup {d} /\ UNCHANGED faults
       \/ faults < MaxFaults /\ faults' = faults + 1 /\ UNCHANGED accepted
    /\ UNCHANGED <<server, todo, sending, sends, testing, inVars, kills>>

\* enqueue's own write throws: the entry is in the queue, and nothing scheduled
SendMessageThrows(d) ==
    /\ Sendable(d)
    /\ Unpersisted(Queued(d))
    /\ UNCHANGED <<server, outVars, testing, inVars, kills>>

\* _processQueue; a later pass waits for the backoff that ends first
PassBegins ==
    /\ Serving
    /\ pass = "now" \/ (pass = "later" /\ \E d \in Due(mem) : mem.status[d] = "retried")
    /\ pass' = "running" /\ todo' = Due(mem)
    /\ UNCHANGED <<mem, disk, server, sending, accepted, sends, testing, inVars, kills, faults>>

\* _deliver up to the adapter's answer; the provider may have the message now
Deliver(d) ==
    /\ Serving /\ pass = "running" /\ sending = None /\ d \in todo
    /\ todo' = todo \ {d} /\ sending' = d
    /\ mem' = [mem EXCEPT !.attempts[d] = @ + 1]
    /\ sends' = [sends EXCEPT ![d] = @ + 1]
    /\ UNCHANGED <<disk, server, pass, accepted, testing, inVars, kills, faults>>

\* a write that throws in a pass ends the pass and, by and by, the server;
\* `processing' stays set if there is more to deliver, and no timer with it
PassThrows(m) ==
    /\ Unpersisted(m)
    /\ server' = "stopping"
    /\ todo' = {} /\ pass' = IF Unsettled(m) = {} THEN "idle" ELSE "dead"

\* how an attempt may end: an answer that cannot be retried fails at once
Answers(d) ==
    IF mem.attempts[d] < MaxRetries THEN {"sent", "retried", "failed"} ELSE {"sent", "failed"}

AnswerArrives(d) ==
    /\ Serving /\ sending = d
    /\ sending' = None
    /\ \E st \in Answers(d) :
        LET m == [mem EXCEPT !.status[d] = st,
                             !.backingOff = IF st = "retried" THEN @ \cup {d} ELSE @] IN
        \/ Persisted(m) /\ UNCHANGED <<pass, todo, server>>
        \/ PassThrows(m)
    /\ UNCHANGED <<accepted, sends, testing, inVars, kills>>

(* Seeded fault: the next pass is set off by a delivery only. *)
PassEndsUnscheduled ==
    LET m == [mem EXCEPT !.queue = Unsettled(mem)] IN
    /\ Serving /\ pass = "running" /\ todo = {} /\ sending = None
    /\ pass' = "idle"
    /\ \/ Persisted(m) /\ UNCHANGED server
       \/ Unpersisted(m) /\ server' = "stopping"
    /\ UNCHANGED <<todo, sending, accepted, sends, testing, inVars, kills>>

\* settled entries leave the queue, and the timer of the next pass is set
\* before the write
PassEnds ==
    LET m == [mem EXCEPT !.queue = Unsettled(mem)] IN
    /\ Serving /\ pass = "running" /\ todo = {} /\ sending = None
    /\ pass' = IF m.queue = {} THEN "idle" ELSE IF Due(m) = {} THEN "later" ELSE "now"
    /\ \/ Persisted(m) /\ UNCHANGED server
       \/ Unpersisted(m) /\ server' = "stopping"
    /\ UNCHANGED <<todo, sending, accepted, sends, testing, inVars, kills>>

BackoffEnds(d) ==
    /\ d \in mem.backingOff \cup disk.backingOff
    /\ mem' = [mem EXCEPT !.backingOff = @ \ {d}]
    /\ disk' = [disk EXCEPT !.backingOff = @ \ {d}]
    /\ UNCHANGED <<server, outVars, testing, inVars, kills, faults>>

-----------------------------------------------------------------------------
(* Inbound: acceptInbound, all in one turn of the event loop. *)

\* an event that names no channel belongs to the first one registered
SourceOf(x) == <<x, IF mem.channels = <<>> THEN None ELSE Head(mem.channels)>>

\* an event that names no thread opens a conversation, a duplicate too
ThreadsFor(x) ==
    IF ThreadOf[x] # None THEN {ThreadOf[x]}
    ELSE Conversations \ {s[2] : s \in mem.subs}

Admitted(x, v) == [mem EXCEPT !.subs = @ \cup {<<SourceOf(x)[2], v>>}]

Arrives(x) ==
    /\ server = "up" /\ arrivals[x] < MaxArrivals
    /\ arrivals' = [arrivals EXCEPT ![x] = @ + 1]

(* Seeded fault: whether the event is a duplicate is not looked up. *)
AcceptInboundUnchecked(x) ==
    /\ Arrives(x)
    /\ \E v \in ThreadsFor(x) : Persisted(Admitted(x, v))
    /\ stored' = stored \cup {SourceOf(x)}
    /\ dispatched' = [dispatched EXCEPT ![SourceOf(x)] = @ + 1]
    /\ acked' = acked \cup {x}
    /\ UNCHANGED <<server, outVars, testing, kills>>

AcceptInbound(x) ==
    /\ Arrives(x)
    /\ \E v \in ThreadsFor(x) : Persisted(Admitted(x, v))
    /\ stored' = stored \cup {SourceOf(x)}
    /\ dispatched' = [dispatched EXCEPT ![SourceOf(x)] = IF SourceOf(x) \in stored THEN @ ELSE @ + 1]
    /\ acked' = acked \cup {x}
    /\ UNCHANGED <<server, outVars, testing, kills>>

\* the message is stored and persistState throws: nothing is dispatched
AcceptInboundThrows(x) ==
    /\ Arrives(x)
    /\ \E v \in ThreadsFor(x) : Unpersisted(Admitted(x, v))
    /\ stored' = stored \cup {SourceOf(x)}
    /\ UNCHANGED <<server, outVars, testing, dispatched, acked, kills>>

-----------------------------------------------------------------------------
(* Death and restart. *)

Down ==
    /\ server' = "down"
    /\ pass' = "idle" /\ todo' = {} /\ sending' = None /\ testing' = {}
    /\ UNCHANGED <<accepted, sends>>

Kill ==
    /\ Serving /\ kills < MaxKills /\ kills' = kills + 1
    /\ Down
    /\ UNCHANGED <<mem, disk, inVars, faults>>

\* killed after the message was stored and before it is dispatched
KillWhileAccepting(x) ==
    /\ Arrives(x) /\ kills < MaxKills /\ kills' = kills + 1
    /\ stored' = stored \cup {SourceOf(x)}
    /\ mem' = mem
    /\ \E v \in ThreadsFor(x) : disk' \in {disk, Admitted(x, v)}
    /\ Down
    /\ UNCHANGED <<dispatched, acked, faults>>

\* the shutdown after an unhandled rejection reaches process.exit
Stop ==
    /\ server = "stopping"
    /\ Down
    /\ UNCHANGED <<mem, disk, inVars, kills, faults>>

(* Seeded fault: what is in the saved queue is taken as not yet sent. *)
RestoredAnew ==
    LET lost == {d \in disk.queue : ChannelOf[d] \notin Registered(disk)} IN
    [disk EXCEPT !.queue = @ \ lost,
                 !.status = [d \in Deliveries |-> IF d \in lost THEN "failed"
                                                  ELSE IF d \in disk.queue THEN "queued" ELSE @[d]]]

\* restore: entries whose channel is gone have failed
Restored ==
    LET lost == {d \in disk.queue : ChannelOf[d] \notin Registered(disk)} IN
    [disk EXCEPT !.queue = @ \ lost,
                 !.status = [d \in Deliveries |-> IF d \in lost THEN "failed" ELSE @[d]]]

Restart ==
    /\ server = "down"
    /\ \/ Persisted(Restored) /\ server' = "up"
          /\ pass' = IF Restored.queue = {} THEN "idle" ELSE "now"
       \/ Unpersisted(mem) /\ UNCHANGED <<server, pass>>
    /\ UNCHANGED <<todo, sending, accepted, sends, testing, inVars, kills>>

-----------------------------------------------------------------------------
Next ==
    \/ \E h \in Channels :
        \/ RegisterChannel(h) \/ TestBegins(h) \/ TestEnds(h) \/ RemoveChannel(h)
        \/ \E st \in {"disconnected", "connected", "error"} : UpdateChannel(h, st)
        \/ \E v \in Conversations : Subscribe(h, v) \/ Unsubscribe(h, v)
    \/ \E d \in Deliveries :
        \/ SendMessage(d) \/ SendMessageThrows(d)
        \/ Deliver(d) \/ AnswerArrives(d) \/ BackoffEnds(d)
    \/ \E x \in Events : AcceptInbound(x) \/ AcceptInboundThrows(x) \/ KillWhileAccepting(x)
    \/ PassBegins \/ PassEnds \/ Kill \/ Stop \/ Restart

\* timers fire, adapters have timeouts, and the supervisor starts the server again
Fairness ==
    /\ WF_vars(PassBegins) /\ WF_vars(PassEnds) /\ WF_vars(Stop) /\ WF_vars(Restart)
    /\ \A d \in Deliveries :
        WF_vars(Deliver(d)) /\ WF_vars(AnswerArrives(d)) /\ WF_vars(BackoffEnds(d))

Spec == Init /\ [][Next]_vars
FairSpec == Spec /\ Fairness

-----------------------------------------------------------------------------
Memory == [
    channels : Seq(Channels), state : [Channels -> {"none", "disconnected", "connected", "error"}],
    subs : SUBSET ((Channels \cup {None}) \X Conversations),
    queue : SUBSET Deliveries, backingOff : SUBSET Deliveries,
    status : [Deliveries -> {"none", "queued", "retried", "sent", "failed"}],
    attempts : [Deliveries -> 0 .. MaxRetries + MaxKills + MaxFaults]]

(* Every variable has its type, no channel is registered twice, only a     *)
(* running pass awaits an adapter, and a message is handed to its provider *)
(* MaxRetries times at most, and once more for each death of the server    *)
(* that may have lost the count.                                           *)
TypeOK ==
    /\ mem \in Memory /\ disk \in Memory
    /\ IsInjective(mem.channels)
    /\ server \in {"up", "stopping", "down"}
    /\ pass \in {"idle", "now", "later", "running", "dead"}
    /\ todo \subseteq mem.queue /\ sending \in mem.queue \cup {None}
    /\ pass # "running" => todo = {} /\ sending = None
    /\ testing \subseteq Channels
    /\ stored \subseteq Sources /\ dispatched \in [Sources -> 0 .. MaxArrivals]
    /\ acked \subseteq Events /\ arrivals \in [Events -> 0 .. MaxArrivals]
    /\ accepted \subseteq Deliveries
    /\ \A d \in Deliveries : sends[d] <= MaxRetries + kills + faults
    /\ kills \in 0 .. MaxKills /\ faults \in 0 .. MaxFaults

(* A delivery that is on disk as sent or failed is never attempted again,  *)
(* across restarts and whatever the memory says of it.  (One on disk as    *)
(* sent may yet become failed: it stays in the saved queue until its pass  *)
(* ends, and restore looks only at whether its channel is still there.)    *)
SavedIsFinal == [][\A d \in Deliveries :
    disk.status[d] \in {"sent", "failed"} =>
        sends'[d] = sends[d] /\ disk'.status[d] \in {disk.status[d], "failed"}]_vars

(* Redelivered by its provider, across restarts and failed writes, an      *)
(* inbound event of a channel goes to the orchestrator once at most.       *)
DispatchedOnce == \A s \in Sources : dispatched[s] <= 1

(* An accepted message is on record, in the end, as sent or as failed.     *)
DeliveriesSettle ==
    \A d \in Deliveries : d \in accepted ~> disk.status[d] \in {"sent", "failed"}

(* "dispatches each external event exactly once": an event answered with   *)
(* success has been dispatched, now or when it first arrived.              *)
AnsweredIsDispatched ==
    \A x \in acked : \E s \in Sources : s[1] = x /\ dispatched[s] > 0

(* "Removes a channel and all its subscriptions." *)
SubscriptionsOfChannels ==
    \A s \in mem.subs : s[1] \in Registered(mem) \cup {None}
=============================================================================
