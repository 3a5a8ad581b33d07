-------------------------- MODULE MessagingHubProof --------------------------
(***************************************************************************)
(* Proofs about MessagingHub for every set of channels, deliveries and     *)
(* events, and every bound on attempts, arrivals, kills and failed writes. *)
(***************************************************************************)
EXTENDS MessagingHub, SequenceTheorems, TLAPS

(* What a memory says has come to its end.                                 *)
Settled(m, d) == m.status[d] \in {"sent", "failed"}

(* No channel is registered twice, and a registered one has a state: that  *)
(* is how RegisterChannel knows a new one.                                 *)
RegistryOK(m) ==
  /\ m \in Memory
  /\ IsInjective(m.channels)
  /\ \A i \in DOMAIN m.channels : m.state[m.channels[i]] # "none"

(* The bookkeeping of the bounds, and the types of what is not the memory. *)
Bounds ==
  /\ server \in {"up", "stopping", "down"}
  /\ pass \in {"idle", "now", "later", "running", "dead"}
  /\ testing \subseteq Channels /\ acked \subseteq Events /\ accepted \subseteq Deliveries
  /\ arrivals \in [Events -> 0 .. MaxArrivals]
  /\ sends \in [Deliveries -> Nat]
  /\ kills \in 0 .. MaxKills /\ faults \in 0 .. MaxFaults

(* What a pass has still to deliver is unsettled in memory, the delivery   *)
(* whose adapter it awaits too, and only a running pass has any.           *)
Turns ==
  /\ todo \subseteq Unsettled(mem) /\ sending \in Unsettled(mem) \cup {None}
  /\ sending \notin todo
  /\ pass # "running" => todo = {} /\ sending = None
  /\ server = "down" => pass = "idle"

(* The memory agrees with what the row says has come to its end.           *)
Saved == \A d \in Deliveries : Settled(disk, d) => mem.status[d] = disk.status[d]

(* What was dispatched is stored, and so is a duplicate from then on.      *)
Inbound ==
  /\ stored \subseteq Sources /\ dispatched \in [Sources -> 0 .. MaxArrivals]
  /\ \A s \in Sources : dispatched[s] <= 1 /\ (dispatched[s] > 0 => s \in stored)

(* Kills and failed writes, each of which may lose the count of one        *)
(* attempt at each delivery.                                               *)
Losses == kills + faults

(* How many times each delivery was handed to its provider, against what   *)
(* the memory and the row count and what they say of its status.           *)
Counted == \A d \in Deliveries :
  /\ mem.attempts[d] <= sends[d] /\ disk.attempts[d] <= sends[d]
  /\ sends[d] <= mem.attempts[d] + Losses
  /\ sends[d] <= MaxRetries + Losses
  /\ sending # d =>
       /\ sends[d] <= disk.attempts[d] + Losses
       /\ ~Settled(mem, d) \/ ~Settled(disk, d) => sends[d] < MaxRetries + Losses
  /\ sending = d => sends[d] <= disk.attempts[d] + Losses + 1

(* A server that is stopping after a failed write has that write to spare: *)
(* its exit, which may lose one more count, is not a kill.                 *)
Spare == server = "stopping" /\ pass # "dead" => \A d \in Deliveries : ~Settled(mem, d) =>
  /\ sends[d] < mem.attempts[d] + Losses
  /\ sends[d] < MaxRetries + Losses
  /\ sending # d => sends[d] < disk.attempts[d] + Losses /\ sends[d] + 1 < MaxRetries + Losses
  /\ sending = d => sends[d] <= disk.attempts[d] + Losses

(* The inductive invariant.                                                *)
Inv == Bounds /\ RegistryOK(mem) /\ RegistryOK(disk) /\ Turns /\ Saved /\ Inbound
       /\ Counted /\ Spare

(* Two memories that tell the same of the outbound queue.                  *)
SameQueue(m, n) == m.queue = n.queue /\ m.status = n.status /\ m.attempts = n.attempts

(* The invariant holds when the hub starts with nothing.                   *)
LEMMA InvInit == Init => Inv
<1> SUFFICES ASSUME Init PROVE Inv
  OBVIOUS
<1> USE HubAssumption DEF Init
<1>1. mem \in Memory /\ disk \in Memory
  BY DEF Memory
<1>2. RegistryOK(mem) /\ RegistryOK(disk)
  BY <1>1 DEF RegistryOK, IsInjective
<1>3. Bounds /\ Turns /\ Saved /\ Inbound
  BY DEF Bounds, Turns, Saved, Inbound, Settled, Unsettled
<1>4. Counted /\ Spare
  BY DEF Counted, Spare, Losses, Settled
<1> QED BY <1>2, <1>3, <1>4 DEF Inv

(* Registering a channel appends one that is not there.                    *)
LEMMA Registering ==
  ASSUME NEW m, RegistryOK(m), NEW h \in Channels, m.state[h] = "none"
  PROVE  RegistryOK([m EXCEPT !.channels = Append(@, h), !.state[h] = "disconnected"])
<1> DEFINE c == Append(m.channels, h)
           st == [m.state EXCEPT ![h] = "disconnected"]
           n == [m EXCEPT !.channels = c, !.state = st]
<1>1. /\ m \in Memory /\ m.channels \in Seq(Channels)
      /\ m.state \in [Channels -> {"none", "disconnected", "connected", "error"}]
  BY DEF RegistryOK, Memory
<1>2. \A i \in DOMAIN m.channels : m.channels[i] # h /\ m.channels[i] \in Channels
  BY <1>1 DEF RegistryOK
<1>3. c \in Seq(Channels) /\ st \in [Channels -> {"none", "disconnected", "connected", "error"}]
  BY <1>1
<1>4. IsInjective(c)
  BY <1>1, <1>2 DEF RegistryOK, IsInjective
<1>5. \A i \in DOMAIN c : st[c[i]] # "none"
  BY <1>1, <1>2 DEF RegistryOK
<1>6. [m EXCEPT !.channels = Append(@, h), !.state[h] = "disconnected"] = n
  BY <1>1 DEF Memory
<1> HIDE DEF c, st
<1>7. n \in Memory /\ n.channels = c /\ n.state = st
  BY <1>1, <1>3 DEF Memory
<1> HIDE DEF n
<1> QED BY <1>4, <1>5, <1>6, <1>7 DEF RegistryOK

(* Removing a channel, with some of its subscriptions.                     *)
LEMMA Removing ==
  ASSUME NEW m, RegistryOK(m), NEW i \in DOMAIN m.channels, NEW gone
  PROVE  RegistryOK([m EXCEPT !.channels = RemoveAt(@, i), !.subs = @ \ gone])
<1> DEFINE n == [m EXCEPT !.channels = RemoveAt(m.channels, i), !.subs = m.subs \ gone]
           c == m.channels
           r == RemoveAt(m.channels, i)
<1>1. c \in Seq(Channels) /\ i \in 1 .. Len(c)
  BY DEF RegistryOK, Memory
<1>2. /\ r \in Seq(Channels) /\ Len(r) = Len(c) - 1
      /\ \A k \in 1 .. Len(r) : r[k] = IF k < i THEN c[k] ELSE c[k + 1]
  <2> DEFINE p == SubSeq(c, 1, i - 1)
             q == SubSeq(c, i + 1, Len(c))
  <2>1. p \in Seq(Channels) /\ Len(p) = i - 1 /\ \A k \in 1 .. i - 1 : p[k] = c[k]
    BY <1>1
  <2>2. q \in Seq(Channels) /\ Len(q) = Len(c) - i /\ \A k \in 1 .. Len(c) - i : q[k] = c[k + i]
    BY <1>1
  <2>3. r = p \o q
    BY DEF RemoveAt
  <2> HIDE DEF p, q, r, c
  <2>4. r \in Seq(Channels) /\ Len(r) = Len(c) - 1
    BY <1>1, <2>1, <2>2, <2>3
  <2>5. ASSUME NEW k \in 1 .. Len(r) PROVE r[k] = IF k < i THEN c[k] ELSE c[k + 1]
    <3>1. CASE k < i
      BY <1>1, <2>1, <2>2, <2>3, <2>4, <3>1
    <3>2. CASE ~(k < i)
      <4>1. k \in 1 .. Len(p) + Len(q) /\ ~(k <= Len(p))
        BY <1>1, <2>1, <2>2, <2>4, <3>2
      <4>2. (p \o q)[k] = q[k - Len(p)]
        BY <2>1, <2>2, <4>1, ConcatProperties
      <4>3. k - Len(p) \in 1 .. Len(c) - i /\ (k - Len(p)) + i = k + 1
        BY <1>1, <2>1, <2>2, <4>1
      <4>4. q[k - Len(p)] = c[k + 1]
        BY <2>2, <4>3
      <4> QED BY <2>3, <3>2, <4>2, <4>4
    <3> QED BY <3>1, <3>2
  <2> QED BY <2>4, <2>5
<1>3. n.channels = r /\ n.state = m.state /\ n \in Memory
  BY <1>2 DEF RegistryOK, Memory
<1> HIDE DEF n, r, c
<1>4. IsInjective(r)
  BY <1>1, <1>2 DEF RegistryOK, IsInjective, c
<1>5. \A k \in DOMAIN r : m.state[r[k]] # "none"
  BY <1>1, <1>2 DEF RegistryOK, c
<1> QED BY <1>3, <1>4, <1>5 DEF RegistryOK, n, r
(* The types of what a memory holds.                                       *)
LEMMA Fields ==
  ASSUME NEW m, m \in Memory
  PROVE  /\ m.channels \in Seq(Channels)
         /\ m.state \in [Channels -> {"none", "disconnected", "connected", "error"}]
         /\ m.subs \subseteq (Channels \cup {None}) \X Conversations
         /\ m.queue \subseteq Deliveries /\ m.backingOff \subseteq Deliveries
         /\ m.status \in [Deliveries -> {"none", "queued", "retried", "sent", "failed"}]
         /\ m.attempts \in [Deliveries -> 0 .. MaxRetries + MaxKills + MaxFaults]
  BY DEF Memory

(* A change of a registered channel's state, to one a channel can have.    *)
LEMMA Restating ==
  ASSUME NEW m, RegistryOK(m), NEW h \in Channels,
         NEW st \in {"none", "disconnected", "connected", "error"},
         st = "none" => m.state[h] = "none"
  PROVE  /\ RegistryOK([m EXCEPT !.state[h] = st])
         /\ SameQueue([m EXCEPT !.state[h] = st], m)
<1> DEFINE s == [m.state EXCEPT ![h] = st]
           n == [m EXCEPT !.state = s]
<1>1. m \in Memory /\ s \in [Channels -> {"none", "disconnected", "connected", "error"}]
  BY Fields DEF RegistryOK
<1>2. \A i \in DOMAIN m.channels : m.channels[i] \in Channels /\ s[m.channels[i]] # "none"
  BY <1>1, Fields DEF RegistryOK
<1>3. [m EXCEPT !.state[h] = st] = n
  BY <1>1 DEF Memory
<1> HIDE DEF s
<1>4. n \in Memory /\ n.channels = m.channels /\ n.state = s /\ SameQueue(n, m)
  BY <1>1 DEF Memory, SameQueue
<1> HIDE DEF n
<1> QED BY <1>2, <1>3, <1>4 DEF RegistryOK

(* A change of the subscriptions.                                          *)
LEMMA Resubscribing ==
  ASSUME NEW m, RegistryOK(m), NEW S, S \subseteq (Channels \cup {None}) \X Conversations
  PROVE  RegistryOK([m EXCEPT !.subs = S]) /\ SameQueue([m EXCEPT !.subs = S], m)
  BY DEF RegistryOK, Memory, SameQueue

(* A change of the queue that leaves the registry alone.                   *)
LEMMA Requeueing ==
  ASSUME NEW m, RegistryOK(m), NEW n \in Memory, n.channels = m.channels, n.state = m.state
  PROVE  RegistryOK(n)
  BY DEF RegistryOK

(* The source of an event is one, and what its arrival makes of the memory *)
(* leaves the queue alone.                                                 *)
LEMMA Admitting ==
  ASSUME HubAssumption, RegistryOK(mem), NEW x \in Events
  PROVE  /\ SourceOf(x) \in Sources
         /\ \A v \in ThreadsFor(x) :
              RegistryOK(Admitted(x, v)) /\ SameQueue(Admitted(x, v), mem)
<1>1. SourceOf(x) \in Sources /\ SourceOf(x)[2] \in Channels \cup {None}
  BY Fields DEF RegistryOK, SourceOf, Sources
<1>2. ASSUME NEW v \in ThreadsFor(x)
      PROVE  RegistryOK(Admitted(x, v)) /\ SameQueue(Admitted(x, v), mem)
  <2>1. v \in Conversations
    BY HubAssumption DEF ThreadsFor
  <2>2. mem.subs \cup {<<SourceOf(x)[2], v>>} \subseteq (Channels \cup {None}) \X Conversations
    BY <1>1, <2>1, Fields DEF RegistryOK
  <2>3. Admitted(x, v) = [mem EXCEPT !.subs = mem.subs \cup {<<SourceOf(x)[2], v>>}]
    BY DEF Admitted
  <2> QED BY <2>2, <2>3, Resubscribing
<1> QED BY <1>1, <1>2

(* A step that leaves the outbound queue alone: the registry, the          *)
(* subscriptions, an event that arrives, the end of a backoff.             *)
QuietMove ==
  /\ RegistryOK(mem') /\ RegistryOK(disk') /\ SameQueue(mem', mem)
  /\ \/ SameQueue(disk', mem) /\ faults' = faults
     \/ SameQueue(disk', disk) /\ faults' \in faults .. MaxFaults
  /\ testing' \subseteq Channels
  /\ UNCHANGED <<server, outVars, kills>>

(* A write of a memory with the same queue is such a step, failed or not.  *)
LEMMA Persisting ==
  ASSUME HubAssumption, Inv, NEW m, RegistryOK(m), SameQueue(m, mem), PersistOrThrow(m),
         UNCHANGED <<server, outVars, kills>>, testing' \subseteq Channels
  PROVE  QuietMove
  BY DEF Inv, Bounds, PersistOrThrow, Persisted, Unpersisted, QuietMove, SameQueue, HubAssumption

(* The operations that are.                                                *)
LEMMA QuietMoves ==
  ASSUME HubAssumption, Inv
  PROVE  /\ \A h \in Channels :
              /\ RegisterChannel(h) \/ TestBegins(h) \/ TestEnds(h) \/ RemoveChannel(h) => QuietMove
              /\ \A st \in {"disconnected", "connected", "error"} :
                   UpdateChannel(h, st) => QuietMove
              /\ \A v \in Conversations : Subscribe(h, v) \/ Unsubscribe(h, v) => QuietMove
         /\ \A x \in Events : AcceptInbound(x) \/ AcceptInboundThrows(x) => QuietMove
         /\ \A d \in Deliveries : BackoffEnds(d) => QuietMove
         /\ UNCHANGED vars => QuietMove
<1>0. /\ RegistryOK(mem) /\ RegistryOK(disk) /\ testing \subseteq Channels
      /\ mem \in Memory /\ disk \in Memory /\ faults \in faults .. MaxFaults
  BY HubAssumption DEF Inv, Bounds, RegistryOK
<1>1. ASSUME NEW h \in Channels, RegisterChannel(h) PROVE QuietMove
  <2> DEFINE m == [mem EXCEPT !.channels = Append(@, h), !.state[h] = "disconnected"]
  <2>1. RegistryOK(m)
    BY <1>0, <1>1, Registering DEF RegisterChannel
  <2>2. SameQueue(m, mem)
    BY <1>0 DEF SameQueue, Memory
  <2>3. PersistOrThrow(m) /\ UNCHANGED <<server, outVars, kills, testing>>
    BY <1>1 DEF RegisterChannel
  <2> HIDE DEF m
  <2> QED BY <1>0, <2>1, <2>2, <2>3, Persisting
<1>2. ASSUME NEW h \in Channels, TestBegins(h) PROVE QuietMove
  BY <1>0, <1>2 DEF TestBegins, QuietMove, SameQueue
<1>3. ASSUME NEW h \in Channels, TestEnds(h) PROVE QuietMove
  <2>1. PICK st \in {"connected", "error"} : PersistOrThrow([mem EXCEPT !.state[h] = st])
    BY <1>3 DEF TestEnds
  <2>2. UNCHANGED <<server, outVars, kills>> /\ testing' \subseteq Channels
    BY <1>0, <1>3 DEF TestEnds
  <2> QED BY <1>0, <2>1, <2>2, Restating, Persisting
<1>4. ASSUME NEW h \in Channels, RemoveChannel(h) PROVE QuietMove
  <2>1. PICK i \in DOMAIN mem.channels, gone \in SUBSET {s \in mem.subs : s[1] = h} :
          PersistOrThrow([mem EXCEPT !.channels = RemoveAt(@, i), !.subs = @ \ gone])
    BY <1>4 DEF RemoveChannel
  <2> DEFINE m == [mem EXCEPT !.channels = RemoveAt(@, i), !.subs = @ \ gone]
  <2>2. RegistryOK(m)
    BY <1>0, Removing
  <2>3. SameQueue(m, mem)
    BY <1>0 DEF SameQueue, Memory
  <2>4. UNCHANGED <<server, outVars, kills, testing>>
    BY <1>4 DEF RemoveChannel
  <2> HIDE DEF m
  <2>5. PersistOrThrow(m)
    BY <2>1 DEF m
  <2> QED BY <1>0, <2>2, <2>3, <2>4, <2>5, Persisting
<1>5. ASSUME NEW h \in Channels, NEW st \in {"disconnected", "connected", "error"},
             UpdateChannel(h, st)
      PROVE  QuietMove
  <2>1. /\ PersistOrThrow([mem EXCEPT !.state[h] = st])
        /\ UNCHANGED <<server, outVars, kills, testing>>
    BY <1>5 DEF UpdateChannel
  <2> QED BY <1>0, <2>1, Restating, Persisting
<1>6. ASSUME NEW h \in Channels, NEW v \in Conversations, Subscribe(h, v) \/ Unsubscribe(h, v)
      PROVE  QuietMove
  <2>1. PICK S \in {mem.subs \cup {<<h, v>>}, mem.subs \ {<<h, v>>}} :
          PersistOrThrow([mem EXCEPT !.subs = S])
    BY <1>6 DEF Subscribe, Unsubscribe
  <2>2. S \subseteq (Channels \cup {None}) \X Conversations
    BY <1>0, <2>1, Fields
  <2>3. UNCHANGED <<server, outVars, kills, testing>>
    BY <1>6 DEF Subscribe, Unsubscribe
  <2> QED BY <1>0, <2>1, <2>2, <2>3, Resubscribing, Persisting
<1>7. ASSUME NEW x \in Events, AcceptInbound(x) \/ AcceptInboundThrows(x) PROVE QuietMove
  <2>1. PICK v \in ThreadsFor(x) : PersistOrThrow(Admitted(x, v))
    BY <1>7 DEF AcceptInbound, AcceptInboundThrows, PersistOrThrow
  <2>2. UNCHANGED <<server, outVars, kills, testing>>
    BY <1>7 DEF AcceptInbound, AcceptInboundThrows
  <2> QED BY <1>0, <2>1, <2>2, Admitting, Persisting
<1>8. ASSUME NEW d \in Deliveries, BackoffEnds(d) PROVE QuietMove
  <2>1. RegistryOK(mem') /\ SameQueue(mem', mem)
    BY <1>0, <1>8 DEF BackoffEnds, RegistryOK, Memory, SameQueue
  <2>2. RegistryOK(disk') /\ SameQueue(disk', disk)
    BY <1>0, <1>8 DEF BackoffEnds, RegistryOK, Memory, SameQueue
  <2> QED BY <1>0, <1>8, <2>1, <2>2 DEF BackoffEnds, QuietMove
<1>9. UNCHANGED vars => QuietMove
  BY <1>0 DEF vars, QuietMove, SameQueue
<1> QED BY <1>1, <1>2, <1>3, <1>4, <1>5, <1>6, <1>7, <1>8, <1>9
(* What the steps have to preserve, but for the bounds and the inbound.    *)
Outbound == RegistryOK(mem) /\ RegistryOK(disk) /\ Turns /\ Saved /\ Counted /\ Spare

(* The numbers that are compared are numbers.                              *)
LEMMA Numbers ==
  ASSUME Inv, HubAssumption
  PROVE  /\ Losses \in Nat /\ MaxRetries \in Nat /\ None \notin Deliveries
         /\ \A d \in Deliveries :
              /\ sends[d] \in Nat
              /\ mem.attempts[d] \in Nat /\ disk.attempts[d] \in Nat
              /\ mem.status[d] \in {"none", "queued", "retried", "sent", "failed"}
              /\ disk.status[d] \in {"none", "queued", "retried", "sent", "failed"}
  BY Fields DEF Inv, Bounds, Losses, HubAssumption, RegistryOK

(* It preserves all of that: what a write that succeeds takes to disk are  *)
(* the counts of the memory, and one that fails is counted.                *)
LEMMA QuietStep == ASSUME HubAssumption, Inv, QuietMove PROVE Outbound'
<1>1. /\ mem'.status = mem.status /\ mem'.attempts = mem.attempts /\ mem'.queue = mem.queue
      /\ UNCHANGED <<pass, todo, sending, sends, server>>
  BY DEF QuietMove, SameQueue, outVars
<1>2. \/ disk'.status = mem.status /\ disk'.attempts = mem.attempts /\ Losses' = Losses
      \/ disk'.status = disk.status /\ disk'.attempts = disk.attempts /\ Losses' >= Losses
  BY DEF QuietMove, SameQueue, Losses, Inv, Bounds, HubAssumption
<1>3. Losses' \in Nat
  BY DEF QuietMove, Losses, Inv, Bounds, HubAssumption
<1>4. Turns' /\ Saved'
  BY <1>1, <1>2 DEF Inv, Turns, Saved, Unsettled, Settled
<1>5. Counted'
  BY <1>1, <1>2, <1>3, Numbers DEF Inv, Counted, Settled
<1>6. Spare'
  BY <1>1, <1>2, <1>3, Numbers DEF Inv, Spare, Counted, Settled
<1> QED BY <1>4, <1>5, <1>6 DEF QuietMove, Outbound

(* The end of the server loses at most one count of the delivery that was  *)
(* on its way: a kill is a loss of its own, and a server that stopped had  *)
(* one to spare.                                                           *)
CrashMove ==
  /\ UNCHANGED <<mem, sends, faults>> /\ RegistryOK(disk')
  /\ server' = "down" /\ pass' = "idle" /\ todo' = {} /\ sending' = None /\ testing' = {}
  /\ \/ kills' = kills + 1 /\ kills' \in 0 .. MaxKills /\ (disk' = disk \/ SameQueue(disk', mem))
     \/ kills' = kills /\ server = "stopping" /\ disk' = disk

(* The three ways the server ends.                                         *)
LEMMA CrashMoves ==
  ASSUME HubAssumption, Inv, Kill \/ Stop \/ \E x \in Events : KillWhileAccepting(x)
  PROVE  CrashMove
<1>0. RegistryOK(disk) /\ RegistryOK(mem) /\ kills \in 0 .. MaxKills
  BY DEF Inv, Bounds
<1>1. CASE Kill \/ Stop
  BY <1>0, <1>1, HubAssumption DEF Kill, Stop, Down, CrashMove
<1>2. ASSUME NEW x \in Events, KillWhileAccepting(x) PROVE CrashMove
  <2>1. RegistryOK(disk') /\ (disk' = disk \/ SameQueue(disk', mem))
    BY <1>0, <1>2, Admitting DEF KillWhileAccepting
  <2>2. kills' = kills + 1 /\ kills' \in 0 .. MaxKills
    BY <1>0, <1>2, HubAssumption DEF KillWhileAccepting
  <2> QED BY <1>2, <2>1, <2>2 DEF KillWhileAccepting, Down, CrashMove
<1> QED BY <1>1, <1>2

(* They preserve it.                                                       *)
LEMMA CrashStep == ASSUME HubAssumption, Inv, CrashMove PROVE Outbound'
<1>1. UNCHANGED <<mem, sends, faults>> /\ sending' = None /\ None \notin Deliveries
  BY Numbers DEF CrashMove
<1>2. Turns' /\ Spare'
  BY DEF CrashMove, Turns, Spare
<1>3. \/ Losses' = Losses + 1 /\ \/ disk' = disk
                                 \/ disk'.status = mem.status /\ disk'.attempts = mem.attempts
      \/ Losses' = Losses /\ server = "stopping" /\ disk' = disk
  BY HubAssumption DEF CrashMove, SameQueue, Losses, Inv, Bounds
<1>4. Saved'
  BY <1>1, <1>3 DEF Inv, Saved, Settled
<1>5. ASSUME NEW d \in Deliveries, sending = d, server = "stopping"
      PROVE  sends[d] <= disk.attempts[d] + Losses /\ sends[d] < MaxRetries + Losses
  <2>1. pass = "running" /\ ~Settled(mem, d)
    BY <1>1, <1>5 DEF Inv, Turns, Unsettled, Settled
  <2> QED BY <1>5, <2>1 DEF Inv, Spare
<1>6. Counted'
  <2> SUFFICES ASSUME NEW d \in Deliveries
               PROVE  /\ mem.attempts[d] <= sends[d] /\ disk'.attempts[d] <= sends[d]
                      /\ sends[d] <= mem.attempts[d] + Losses'
                      /\ sends[d] <= MaxRetries + Losses'
                      /\ sends[d] <= disk'.attempts[d] + Losses'
                      /\ ~Settled(mem, d) \/ ~Settled(disk', d) => sends[d] < MaxRetries + Losses'
    BY <1>1 DEF Counted, Settled
  <2>1. CASE Losses' = Losses + 1
    BY <1>3, <2>1, Numbers DEF Inv, Counted, Settled
  <2>2. CASE Losses' = Losses /\ server = "stopping" /\ disk' = disk
    BY <1>5, <2>2, Numbers DEF Inv, Counted
  <2> QED BY <1>3, <2>1, <2>2
<1>7. RegistryOK(mem') /\ RegistryOK(disk')
  BY <1>1 DEF CrashMove, Inv
<1> QED BY <1>2, <1>4, <1>6, <1>7 DEF Outbound
(* A message enters the queue: it was in neither the memory's queue nor    *)
(* settled on disk.                                                        *)
LEMMA SendStep ==
  ASSUME HubAssumption, Inv, NEW d \in Deliveries, SendMessage(d) \/ SendMessageThrows(d)
  PROVE  Outbound'
<1> DEFINE m == Queued(d)
<1>1. /\ mem \in Memory /\ mem.status[d] = "none" /\ server # "down"
  BY DEF Inv, RegistryOK, SendMessage, SendMessageThrows, Sendable, Serving
<1>2. /\ m \in Memory /\ m.channels = mem.channels /\ m.state = mem.state
      /\ m.status = [mem.status EXCEPT ![d] = "queued"]
      /\ m.attempts = mem.attempts /\ m.queue = mem.queue \cup {d}
  BY <1>1 DEF Queued, Memory
<1>3. RegistryOK(m) /\ RegistryOK(disk)
  BY <1>2, Requeueing DEF Inv
<1>4. /\ mem' = m /\ UNCHANGED <<server, todo, sending, sends>>
      /\ pass' = pass \/ (pass = "idle" /\ pass' = "now")
  BY DEF SendMessage, SendMessageThrows, Unpersisted, outVars
<1>5. /\ Losses' \in Nat
      /\ \/ disk' = m /\ Losses' >= Losses
         \/ disk' = disk /\ Losses' >= Losses
  BY HubAssumption DEF SendMessage, SendMessageThrows, Unpersisted, Losses, Inv, Bounds
<1> HIDE DEF m
<1>6. \A e \in Deliveries : /\ mem'.attempts[e] = mem.attempts[e]
                            /\ e # d => mem'.status[e] = mem.status[e]
                            /\ Settled(mem', e) <=> Settled(mem, e)
  BY <1>1, <1>2, <1>4, Fields DEF Settled
<1>7. Turns'
  <2>1. Unsettled(mem) \subseteq Unsettled(mem')
    BY <1>2, <1>4, <1>6, Numbers, Fields, <1>1 DEF Unsettled
  <2> QED BY <1>1, <1>4, <2>1 DEF Inv, Turns
<1>8. ~Settled(disk, d)
  BY <1>1 DEF Inv, Saved, Settled
<1>9. Saved'
  BY <1>4, <1>5, <1>6, <1>8 DEF Inv, Saved, Settled
<1>10. Counted'
  <2>1. \A e \in Deliveries : disk'.attempts[e] \in {mem.attempts[e], disk.attempts[e]}
    BY <1>2, <1>5
  <2>2. \A e \in Deliveries : ~Settled(disk', e) => ~Settled(mem, e) \/ ~Settled(disk, e)
    BY <1>4, <1>5, <1>6
  <2> QED BY <1>4, <1>5, <1>6, <2>1, <2>2, Numbers DEF Inv, Counted
<1>11. Spare'
  <2>1. \A e \in Deliveries : disk'.attempts[e] \in {mem.attempts[e], disk.attempts[e]}
    BY <1>2, <1>5
  <2>2. server' = "stopping" /\ pass' # "dead" => server = "stopping" /\ pass # "dead"
    BY <1>4
  <2> QED BY <1>4, <1>5, <1>6, <2>1, <2>2, Numbers DEF Inv, Spare
<1> QED BY <1>3, <1>4, <1>5, <1>7, <1>9, <1>10, <1>11 DEF Outbound

(* A pass takes up what is due.                                            *)
LEMMA BeginStep == ASSUME HubAssumption, Inv, PassBegins PROVE Outbound'
<1>1. /\ UNCHANGED <<mem, disk, server, sending, sends, kills, faults>>
      /\ todo' = Due(mem) /\ pass' = "running" /\ server # "down" /\ pass \in {"now", "later"}
  BY DEF PassBegins, Serving
<1>2. sending = None /\ None \notin Deliveries
  BY <1>1, Numbers DEF Inv, Turns
<1>3. Turns'
  BY <1>1, <1>2, Fields DEF Turns, Due, Unsettled, Inv, RegistryOK
<1>4. Saved' /\ Counted' /\ Spare'
  BY <1>1 DEF Inv, Saved, Counted, Spare, Settled, Losses
<1> QED BY <1>1, <1>3, <1>4 DEF Inv, Outbound

(* A delivery is handed to its provider: it has room for one more attempt. *)
LEMMA DeliverStep ==
  ASSUME HubAssumption, Inv, NEW d \in Deliveries, Deliver(d)
  PROVE  Outbound'
<1>1. /\ pass = "running" /\ sending = None /\ d \in todo /\ server # "down"
      /\ todo' = todo \ {d} /\ sending' = d
      /\ UNCHANGED <<disk, server, pass, kills, faults>>
      /\ mem' = [mem EXCEPT !.attempts[d] = @ + 1]
      /\ sends' = [sends EXCEPT ![d] = @ + 1]
  BY DEF Deliver, Serving
<1>2. ~Settled(mem, d) /\ d \in Unsettled(mem) /\ sending # d
  BY <1>1, Numbers DEF Inv, Turns, Unsettled, Settled
<1>3. /\ sends[d] < MaxRetries + Losses
      /\ mem.attempts[d] + 1 \in 0 .. MaxRetries + MaxKills + MaxFaults
  BY <1>2, Numbers, HubAssumption DEF Inv, Counted, Losses, Bounds
<1>4. /\ mem' \in Memory /\ mem'.channels = mem.channels /\ mem'.state = mem.state
      /\ mem'.status = mem.status /\ mem'.queue = mem.queue
      /\ mem'.attempts = [mem.attempts EXCEPT ![d] = mem.attempts[d] + 1]
  BY <1>1, <1>3 DEF Inv, RegistryOK, Memory
<1>5. RegistryOK(mem') /\ RegistryOK(disk')
  BY <1>1, <1>4, Requeueing DEF Inv
<1>6. Turns' /\ Saved'
  BY <1>1, <1>2, <1>4 DEF Inv, Turns, Saved, Unsettled, Settled
<1>7. /\ mem'.attempts[d] = mem.attempts[d] + 1 /\ sends'[d] = sends[d] + 1
      /\ \A e \in Deliveries \ {d} : mem'.attempts[e] = mem.attempts[e] /\ sends'[e] = sends[e]
  BY <1>1, <1>4, Fields DEF Inv, RegistryOK, Bounds
<1>8. Losses' = Losses /\ \A e \in Deliveries : sending # e
  BY <1>1, Numbers DEF Losses
<1>9. ASSUME NEW e \in Deliveries
      PROVE  /\ mem'.attempts[e] <= sends'[e] /\ disk.attempts[e] <= sends'[e]
             /\ sends'[e] <= mem'.attempts[e] + Losses
             /\ sends'[e] <= MaxRetries + Losses
             /\ e # d =>
                  /\ sends'[e] <= disk.attempts[e] + Losses
                  /\ ~Settled(mem, e) \/ ~Settled(disk, e) => sends'[e] < MaxRetries + Losses
             /\ e = d => sends'[e] <= disk.attempts[e] + Losses + 1
  BY <1>3, <1>7, <1>8, Numbers DEF Inv, Counted
<1>10. Counted'
  BY <1>1, <1>4, <1>8, <1>9 DEF Counted, Settled
<1>11. Spare'
  <2> SUFFICES ASSUME server = "stopping", pass # "dead", NEW e \in Deliveries, ~Settled(mem, e)
               PROVE  /\ sends'[e] < mem'.attempts[e] + Losses
                      /\ sends'[e] < MaxRetries + Losses
                      /\ e # d => /\ sends'[e] < disk.attempts[e] + Losses
                                  /\ sends'[e] + 1 < MaxRetries + Losses
                      /\ e = d => sends'[e] <= disk.attempts[e] + Losses
    BY <1>1, <1>4, <1>8 DEF Spare, Settled
  <2> QED BY <1>7, <1>8, Numbers DEF Inv, Spare
<1> QED BY <1>5, <1>6, <1>10, <1>11 DEF Outbound
(* The adapter answers, and the answer is on disk or the pass is over: one *)
(* that is to be retried has attempts left.                                *)
LEMMA AnswerStep ==
  ASSUME HubAssumption, Inv, NEW d \in Deliveries, AnswerArrives(d)
  PROVE  Outbound'
<1>1. PICK st \in Answers(d) :
        LET m == [mem EXCEPT !.status[d] = st,
                             !.backingOff = IF st = "retried" THEN @ \cup {d} ELSE @]
        IN  (Persisted(m) /\ UNCHANGED <<pass, todo, server>>) \/ PassThrows(m)
  BY DEF AnswerArrives
<1> DEFINE off == IF st = "retried" THEN mem.backingOff \cup {d} ELSE mem.backingOff
           rows == [mem.status EXCEPT ![d] = st]
           m == [mem EXCEPT !.status = rows, !.backingOff = off]
<1>2. /\ st \in {"sent", "retried", "failed"}
      /\ st = "retried" => mem.attempts[d] < MaxRetries
  BY <1>1 DEF Answers
<1>3. /\ rows \in [Deliveries -> {"none", "queued", "retried", "sent", "failed"}]
      /\ off \subseteq Deliveries /\ mem \in Memory
  BY <1>2, Fields DEF Inv, RegistryOK
<1>4. (Persisted(m) /\ UNCHANGED <<pass, todo, server>>) \/ PassThrows(m)
  BY <1>1, <1>3 DEF Memory
<1>5. rows[d] = st /\ \A e \in Deliveries \ {d} : rows[e] = mem.status[e]
  BY Fields, <1>3
<1> HIDE DEF off, rows
<1>6. /\ m \in Memory /\ m.channels = mem.channels /\ m.state = mem.state
      /\ m.status = rows /\ m.attempts = mem.attempts /\ m.queue = mem.queue
  BY <1>3 DEF Memory
<1> HIDE DEF m
<1>7. RegistryOK(m)
  BY <1>6, Requeueing DEF Inv
<1>8. sending = d /\ sending' = None /\ server # "down" /\ sends' = sends /\ kills' = kills
  BY DEF AnswerArrives, Serving
<1>9. pass = "running" /\ d \in Unsettled(mem) /\ d \notin todo /\ ~Settled(mem, d)
  BY <1>8, Numbers DEF Inv, Turns, Unsettled, Settled
<1>10. \A e \in Deliveries : sending' # e /\ (e # d => sending # e)
  BY <1>8, Numbers
<1>11. /\ Settled(m, d) <=> st # "retried"
       /\ \A e \in Deliveries \ {d} : Settled(m, e) <=> Settled(mem, e)
  BY <1>2, <1>5, <1>6 DEF Settled
<1>12. CASE Persisted(m) /\ UNCHANGED <<pass, todo, server>>
  <2>1. mem' = m /\ disk' = m /\ Losses' = Losses /\ UNCHANGED <<pass, todo, server>>
    BY <1>8, <1>12 DEF Persisted, Losses
  <2>2. Turns'
    <3>1. \A e \in todo : e # d /\ e \in Deliveries /\ e \in Unsettled(mem)
      BY <1>9, Fields DEF Inv, Turns, Unsettled, RegistryOK
    <3>2. todo' \subseteq Unsettled(mem')
      BY <1>5, <1>6, <2>1, <3>1 DEF Unsettled
    <3>3. None \notin todo
      BY <3>1, Numbers
    <3> QED BY <1>8, <1>9, <2>1, <3>2, <3>3 DEF Turns
  <2>3. Counted'
    BY <1>2, <1>6, <1>8, <1>10, <1>11, <2>1, Numbers DEF Inv, Counted
  <2>4. Spare'
    BY <1>2, <1>6, <1>8, <1>9, <1>10, <1>11, <2>1, Numbers DEF Inv, Spare
  <2> QED BY <1>7, <2>1, <2>2, <2>3, <2>4 DEF Outbound, Saved
<1>13. CASE PassThrows(m)
  <2>1. /\ mem' = m /\ disk' = disk /\ server' = "stopping" /\ todo' = {}
        /\ pass' = IF Unsettled(m) = {} THEN "idle" ELSE "dead"
    BY <1>13 DEF PassThrows, Unpersisted
  <2>2. Losses' = Losses + 1
    BY <1>8, <1>13, HubAssumption DEF PassThrows, Unpersisted, Losses, Inv, Bounds
  <2>3. Turns'
    BY <1>8, <2>1 DEF Turns
  <2>4. Saved'
    BY <1>9, <1>5, <1>6, <2>1 DEF Inv, Saved, Settled
  <2>5. Counted'
    BY <1>2, <1>6, <1>8, <1>10, <1>11, <2>1, <2>2, Numbers DEF Inv, Counted
  <2>6. pass' # "dead" => Settled(m, d)
    <3>1. Unsettled(m) = {} => st # "retried"
      BY <1>5, <1>6, <1>9 DEF Unsettled
    <3> QED BY <1>11, <2>1, <3>1
  <2>7. Spare'
    BY <1>6, <1>8, <1>10, <1>11, <2>1, <2>2, <2>6, Numbers DEF Inv, Counted, Spare
  <2> QED BY <1>7, <2>1, <2>3, <2>4, <2>5, <2>7 DEF Outbound, Inv
<1> QED BY <1>4, <1>12, <1>13

(* The end of a pass takes the settled entries out of the queue.           *)
LEMMA EndStep == ASSUME HubAssumption, Inv, PassEnds PROVE Outbound'
<1> DEFINE m == [mem EXCEPT !.queue = Unsettled(mem)]
<1>1. /\ m \in Memory /\ m.channels = mem.channels /\ m.state = mem.state
      /\ m.status = mem.status /\ m.attempts = mem.attempts
  BY DEF Inv, RegistryOK, Memory, Unsettled
<1>2. RegistryOK(m)
  BY <1>1, Requeueing DEF Inv
<1>3. /\ server # "down" /\ pass = "running" /\ todo = {} /\ sending = None
      /\ pass' \in {"idle", "later", "now"} /\ UNCHANGED <<todo, sending, sends, kills>>
      /\ \/ Persisted(m) /\ UNCHANGED server
         \/ Unpersisted(m) /\ server' = "stopping"
  BY DEF PassEnds, Serving
<1> HIDE DEF m
<1>4. /\ mem' = m
      /\ \/ disk' = m /\ Losses' = Losses /\ UNCHANGED server
         \/ disk' = disk /\ Losses' = Losses + 1 /\ server' = "stopping"
  BY <1>3, HubAssumption DEF Persisted, Unpersisted, Losses, Inv, Bounds
<1>5. Turns'
  BY <1>3, <1>4 DEF Turns
<1>6. Saved'
  BY <1>1, <1>4 DEF Inv, Saved, Settled
<1>7. \A e \in Deliveries : sending # e
  BY <1>3, Numbers
<1>8. Counted'
  BY <1>1, <1>3, <1>4, <1>7, Numbers DEF Inv, Counted, Settled
<1>9. Spare'
  <2>1. CASE disk' = m /\ Losses' = Losses /\ UNCHANGED server
    BY <1>1, <1>3, <1>4, <1>7, <2>1, Numbers DEF Inv, Spare, Settled
  <2>2. CASE disk' = disk /\ Losses' = Losses + 1 /\ server' = "stopping"
    BY <1>1, <1>3, <1>4, <1>7, <2>2, Numbers DEF Inv, Counted, Spare, Settled
  <2> QED BY <1>4, <2>1, <2>2
<1> QED BY <1>2, <1>4, <1>5, <1>6, <1>8, <1>9 DEF Outbound, Inv

(* A restart begins with the row; what it gives up on was unsettled at     *)
(* most.                                                                   *)
LEMMA RestartStep == ASSUME HubAssumption, Inv, Restart PROVE Outbound'
<1>1. /\ server = "down" /\ pass = "idle" /\ todo = {} /\ sending = None
      /\ UNCHANGED <<todo, sending, sends, kills>>
  BY DEF Restart, Inv, Turns
<1>2. \A e \in Deliveries : sending # e
  BY <1>1, Numbers
<1>3. CASE Persisted(Restored) /\ server' = "up"
           /\ pass' = IF Restored.queue = {} THEN "idle" ELSE "now"
  <2> DEFINE lost == {d \in disk.queue : ChannelOf[d] \notin Registered(disk)}
             kept == disk.queue \ lost
             rows == [d \in Deliveries |-> IF d \in lost THEN "failed" ELSE disk.status[d]]
             m == [disk EXCEPT !.queue = kept, !.status = rows]
  <2>1. Restored = m
    BY DEF Restored, Inv, RegistryOK, Memory
  <2>2. /\ disk \in Memory /\ kept \subseteq Deliveries
        /\ rows \in [Deliveries -> {"none", "queued", "retried", "sent", "failed"}]
        /\ \A d \in Deliveries :
             disk.status[d] \in {"sent", "failed"} => rows[d] \in {"sent", "failed"}
    BY Fields DEF Inv, RegistryOK
  <2> HIDE DEF lost, kept, rows
  <2>3. /\ m \in Memory /\ m.channels = disk.channels /\ m.state = disk.state
        /\ m.status = rows /\ m.attempts = disk.attempts
    BY <2>2 DEF Memory
  <2> HIDE DEF m
  <2>4. RegistryOK(m)
    BY <2>3, Requeueing DEF Inv
  <2>5. mem' = m /\ disk' = m /\ Losses' = Losses
    BY <1>1, <1>3, <2>1 DEF Persisted, Losses
  <2>6. Turns' /\ Spare' /\ Saved'
    BY <1>1, <1>3, <2>5 DEF Turns, Spare, Saved
  <2>7. Counted'
    BY <1>1, <1>2, <2>2, <2>3, <2>5, Numbers DEF Inv, Counted, Settled
  <2> QED BY <2>4, <2>5, <2>6, <2>7 DEF Outbound
<1>4. CASE Unpersisted(mem) /\ UNCHANGED <<server, pass>>
  <2>1. UNCHANGED <<mem, disk, server, pass>> /\ Losses' = Losses + 1
    BY <1>1, <1>4, HubAssumption DEF Unpersisted, Losses, Inv, Bounds
  <2>2. Turns' /\ Spare' /\ Saved'
    BY <1>1, <2>1 DEF Inv, Turns, Spare, Saved, Settled, Unsettled
  <2>3. Counted'
    BY <1>1, <1>2, <2>1, Numbers DEF Inv, Counted, Settled
  <2> QED BY <2>1, <2>2, <2>3 DEF Inv, Outbound
<1> QED BY <1>3, <1>4 DEF Restart
(* The operations of the registry and the subscriptions.                   *)
RegistryStep(h) ==
  \/ RegisterChannel(h) \/ TestBegins(h) \/ TestEnds(h) \/ RemoveChannel(h)
  \/ \E st \in {"disconnected", "connected", "error"} : UpdateChannel(h, st)
  \/ \E v \in Conversations : Subscribe(h, v) \/ Unsubscribe(h, v)

(* They touch neither the queue nor what has arrived.                      *)
LEMMA RegistryFrame ==
  ASSUME HubAssumption, Inv, NEW h \in Channels, RegistryStep(h)
  PROVE  /\ UNCHANGED <<server, outVars, inVars, kills>>
         /\ testing' \subseteq Channels /\ faults' \in 0 .. MaxFaults
<1>1. testing \subseteq Channels /\ faults \in 0 .. MaxFaults
  BY DEF Inv, Bounds
<1> USE HubAssumption DEF PersistOrThrow, Persisted, Unpersisted
<1>2. CASE RegisterChannel(h) \/ TestBegins(h)
  BY <1>1, <1>2 DEF RegisterChannel, TestBegins
<1>3. CASE TestEnds(h)
  BY <1>1, <1>3 DEF TestEnds
<1>4. CASE RemoveChannel(h)
  BY <1>1, <1>4 DEF RemoveChannel
<1>5. ASSUME NEW st \in {"disconnected", "connected", "error"}, UpdateChannel(h, st)
      PROVE  /\ UNCHANGED <<server, outVars, inVars, kills>>
             /\ testing' \subseteq Channels /\ faults' \in 0 .. MaxFaults
  BY <1>1, <1>5 DEF UpdateChannel
<1>6. ASSUME NEW v \in Conversations, Subscribe(h, v) \/ Unsubscribe(h, v)
      PROVE  /\ UNCHANGED <<server, outVars, inVars, kills>>
             /\ testing' \subseteq Channels /\ faults' \in 0 .. MaxFaults
  BY <1>1, <1>6 DEF Subscribe, Unsubscribe
<1> QED BY <1>2, <1>3, <1>4, <1>5, <1>6 DEF RegistryStep

(* The steps of the hub, by what they do to the outbound queue.            *)
LEMMA StepKinds ==
  ASSUME HubAssumption, Inv, [Next]_vars
  PROVE  \/ QuietMove
         \/ CrashMove
         \/ \E d \in Deliveries :
              SendMessage(d) \/ SendMessageThrows(d) \/ Deliver(d) \/ AnswerArrives(d)
         \/ PassBegins \/ PassEnds \/ Restart
<1>1. CASE UNCHANGED vars
  BY <1>1, QuietMoves
<1>2. ASSUME NEW h \in Channels, RegistryStep(h) PROVE QuietMove
  BY <1>2, QuietMoves DEF RegistryStep
<1>3. ASSUME NEW x \in Events, AcceptInbound(x) \/ AcceptInboundThrows(x) PROVE QuietMove
  BY <1>3, QuietMoves
<1>4. ASSUME NEW d \in Deliveries, BackoffEnds(d) PROVE QuietMove
  BY <1>4, QuietMoves
<1>5. ASSUME Kill \/ Stop \/ \E x \in Events : KillWhileAccepting(x) PROVE CrashMove
  BY <1>5, CrashMoves
<1> QED BY <1>1, <1>2, <1>3, <1>4, <1>5 DEF Next, RegistryStep

(* Steps preserve the bounds.                                              *)
LEMMA BoundsStep == ASSUME HubAssumption, Inv, [Next]_vars PROVE Bounds'
<1> USE HubAssumption DEF Inv, Bounds
<1>1. ASSUME NEW d \in Deliveries, SendMessage(d) \/ SendMessageThrows(d) PROVE Bounds'
  BY <1>1 DEF SendMessage, SendMessageThrows, Unpersisted, outVars, inVars
<1>2. ASSUME NEW d \in Deliveries, Deliver(d) PROVE Bounds'
  BY <1>2 DEF Deliver, inVars
<1>3. ASSUME NEW d \in Deliveries, AnswerArrives(d) PROVE Bounds'
  BY <1>3 DEF AnswerArrives, Persisted, PassThrows, Unpersisted, inVars
<1>4. ASSUME NEW d \in Deliveries, BackoffEnds(d) PROVE Bounds'
  BY <1>4 DEF BackoffEnds, outVars, inVars
<1>5. CASE PassBegins \/ PassEnds
  BY <1>5 DEF PassBegins, PassEnds, Persisted, Unpersisted, inVars
<1>6. CASE Kill \/ Stop \/ Restart
  BY <1>6 DEF Kill, Stop, Restart, Down, Persisted, Unpersisted, inVars
<1>7. ASSUME NEW h \in Channels, RegistryStep(h) PROVE Bounds'
  BY <1>7, RegistryFrame DEF outVars, inVars
<1>8. ASSUME NEW x \in Events, AcceptInbound(x) \/ AcceptInboundThrows(x) PROVE Bounds'
  BY <1>8 DEF AcceptInbound, AcceptInboundThrows, Arrives, Persisted, Unpersisted, outVars
<1>9. ASSUME NEW x \in Events, KillWhileAccepting(x) PROVE Bounds'
  BY <1>9 DEF KillWhileAccepting, Arrives, Down
<1>10. CASE UNCHANGED vars
  BY <1>10 DEF vars, outVars, inVars
<1> QED BY <1>1, <1>2, <1>3, <1>4, <1>5, <1>6, <1>7, <1>8, <1>9, <1>10 DEF Next, RegistryStep

(* A duplicate finds its row; nothing takes a row away.                    *)
LEMMA InboundStep == ASSUME HubAssumption, Inv, [Next]_vars PROVE Inbound'
<1>1. ASSUME NEW x \in Events, AcceptInbound(x) PROVE Inbound'
  <2>1. SourceOf(x) \in Sources /\ stored' = stored \cup {SourceOf(x)} /\ MaxArrivals >= 1
    BY <1>1, Admitting, HubAssumption DEF Inv, Bounds, AcceptInbound, Arrives
  <2>2. dispatched' = [dispatched EXCEPT ![SourceOf(x)] =
                         IF SourceOf(x) \in stored THEN @ ELSE @ + 1]
    BY <1>1 DEF AcceptInbound
  <2> DEFINE y == SourceOf(x)
  <2> HIDE DEF y
  <2>3. y \in Sources /\ dispatched[y] \in 0 .. MaxArrivals
        /\ (y \notin stored => dispatched[y] = 0)
    BY <2>1, HubAssumption DEF Inv, Inbound, y
  <2> QED BY <2>1, <2>2, <2>3, HubAssumption DEF Inv, Inbound, y
<1>2. ASSUME NEW x \in Events, AcceptInboundThrows(x) \/ KillWhileAccepting(x) PROVE Inbound'
  <2>1. SourceOf(x) \in Sources
    BY <1>2, Admitting DEF Inv
  <2> QED BY <1>2, <2>1 DEF AcceptInboundThrows, KillWhileAccepting, Inv, Inbound
<1>3. ASSUME UNCHANGED <<stored, dispatched>> PROVE Inbound'
  BY <1>3 DEF Inv, Inbound
<1>4. ASSUME NEW h \in Channels, RegistryStep(h) PROVE UNCHANGED <<stored, dispatched>>
  BY <1>4, RegistryFrame DEF inVars
<1>5. ASSUME NEW d \in Deliveries,
             \/ SendMessage(d) \/ SendMessageThrows(d)
             \/ Deliver(d) \/ AnswerArrives(d) \/ BackoffEnds(d)
      PROVE  UNCHANGED <<stored, dispatched>>
  BY <1>5 DEF SendMessage, SendMessageThrows, Deliver, AnswerArrives, BackoffEnds, inVars
<1>6. ASSUME PassBegins \/ PassEnds \/ Kill \/ Stop \/ Restart \/ UNCHANGED vars
      PROVE  UNCHANGED <<stored, dispatched>>
  BY <1>6 DEF PassBegins, PassEnds, Kill, Stop, Restart, vars, inVars
<1> QED BY <1>1, <1>2, <1>3, <1>4, <1>5, <1>6 DEF Next, RegistryStep

(* The parts together are inductive.                                       *)
LEMMA InvStep == Inv /\ [Next]_vars => Inv'
<1> SUFFICES ASSUME Inv, [Next]_vars PROVE Inv'
  OBVIOUS
<1>1. Outbound'
  BY HubAssumption, StepKinds, QuietStep, CrashStep, SendStep, BeginStep, DeliverStep, AnswerStep,
     EndStep, RestartStep
<1>2. Bounds' /\ Inbound'
  BY HubAssumption, BoundsStep, InboundStep
<1> QED BY <1>1, <1>2 DEF Inv, Outbound

(* The invariant holds in every reachable state.                           *)
LEMMA InvHolds == Spec => []Inv
BY InvInit, InvStep, PTL DEF Spec

(* Every variable has its type; and a message is handed to its provider    *)
(* MaxRetries times at most, and once more for each kill of the server and *)
(* each write that failed.                                                 *)
THEOREM TypeCorrect == Spec => []TypeOK
<1>1. Inv => TypeOK
  <2> SUFFICES ASSUME Inv PROVE TypeOK
    OBVIOUS
  <2>1. mem \in Memory /\ disk \in Memory /\ IsInjective(mem.channels)
    BY DEF Inv, RegistryOK
  <2>2. /\ todo \subseteq mem.queue /\ sending \in mem.queue \cup {None}
        /\ pass # "running" => todo = {} /\ sending = None
    BY DEF Inv, Turns, Unsettled
  <2>3. \A d \in Deliveries : sends[d] <= MaxRetries + kills + faults
    BY HubAssumption DEF Inv, Bounds, Counted, Losses
  <2> QED BY <2>1, <2>2, <2>3 DEF Inv, Bounds, Inbound, TypeOK
<1> QED BY <1>1, InvHolds, PTL

(* Redelivered by its provider, across restarts and failed writes, an      *)
(* inbound event of a channel goes to the orchestrator once at most.       *)
THEOREM DispatchedAtMostOnce == Spec => []DispatchedOnce
<1>1. Inv => DispatchedOnce
  BY DEF Inv, Inbound, DispatchedOnce
<1> QED BY <1>1, InvHolds, PTL

(* A step after which no settled row is attempted again or forgotten.      *)
KeepsSettled == \A d \in Deliveries :
    disk.status[d] \in {"sent", "failed"} =>
        sends'[d] = sends[d] /\ disk'.status[d] \in {disk.status[d], "failed"}

(* What is settled on disk is settled in memory, so no pass takes it up.   *)
LEMMA SettledStays == ASSUME HubAssumption, Inv, [Next]_vars PROVE KeepsSettled
<1>1. \A d \in Deliveries : Settled(disk, d) => mem.status[d] = disk.status[d]
  BY DEF Inv, Saved
<1> USE DEF KeepsSettled, Settled
<1>2. CASE QuietMove
  BY <1>1, <1>2 DEF QuietMove, SameQueue, outVars
<1>3. CASE CrashMove
  BY <1>1, <1>3 DEF CrashMove, SameQueue
<1>4. ASSUME NEW e \in Deliveries, SendMessage(e) \/ SendMessageThrows(e) PROVE KeepsSettled
  <2>1. Queued(e).status = [mem.status EXCEPT ![e] = "queued"]
    BY DEF Inv, RegistryOK, Memory, Queued
  <2>2. mem.status[e] = "none" /\ sends' = sends /\ disk' \in {disk, Queued(e)}
    BY <1>4 DEF SendMessage, SendMessageThrows, Sendable, Unpersisted, outVars
  <2>3. ASSUME NEW d \in Deliveries, Settled(disk, d)
        PROVE  d # e /\ disk'.status[d] = disk.status[d]
    BY <1>1, <2>1, <2>2, <2>3, Fields DEF Inv, RegistryOK
  <2> QED BY <2>2, <2>3
<1>5. ASSUME NEW e \in Deliveries, Deliver(e) PROVE KeepsSettled
  <2>1. mem.status[e] \in {"queued", "retried"}
    BY <1>5 DEF Deliver, Inv, Turns, Unsettled
  <2> QED BY <1>1, <1>5, <2>1 DEF Deliver, Inv, Bounds
<1>6. ASSUME NEW e \in Deliveries, AnswerArrives(e) PROVE KeepsSettled
  <2>1. mem.status[e] \in {"queued", "retried"}
    BY <1>6, Numbers DEF AnswerArrives, Inv, Turns, Unsettled
  <2>2. sends' = sends
    BY <1>6 DEF AnswerArrives
  <2>3. \/ disk' = disk
        \/ \E st \in Answers(e) : disk'.status = [mem.status EXCEPT ![e] = st]
    BY <1>6 DEF AnswerArrives, Persisted, PassThrows, Unpersisted, Inv, RegistryOK, Memory
  <2>4. ASSUME NEW d \in Deliveries, Settled(disk, d)
        PROVE  disk'.status[d] = disk.status[d]
    <3>1. d # e /\ mem.status[d] = disk.status[d]
      BY <1>1, <2>1, <2>4
    <3>2. DOMAIN mem.status = Deliveries
      BY Fields DEF Inv, RegistryOK
    <3>3. \A st : [mem.status EXCEPT ![e] = st][d] = mem.status[d]
      BY <3>1, <3>2
    <3> QED BY <2>3, <3>1, <3>3
  <2> QED BY <2>2, <2>4
<1>7. CASE PassBegins
  BY <1>7 DEF PassBegins
<1>8. CASE PassEnds
  <2>1. sends' = sends /\ (disk' = disk \/ disk'.status = mem.status)
    BY <1>8 DEF PassEnds, Persisted, Unpersisted, Inv, RegistryOK, Memory
  <2> QED BY <1>1, <2>1
<1>9. CASE Restart
  <2>1. sends' = sends /\ (disk' = disk \/ disk' = Restored)
    BY <1>9 DEF Restart, Persisted, Unpersisted
  <2>2. \A d \in Deliveries : Restored.status[d] \in {disk.status[d], "failed"}
    BY DEF Restored, Inv, RegistryOK, Memory
  <2> QED BY <2>1, <2>2
<1> QED BY <1>2, <1>3, <1>4, <1>5, <1>6, <1>7, <1>8, <1>9, StepKinds

(* A delivery that is on disk as sent or failed is never attempted again,  *)
(* across restarts and whatever the memory says of it.                     *)
THEOREM SavedStaysFinal == Spec => SavedIsFinal
<1>1. Inv /\ [Next]_vars => [KeepsSettled]_vars
  BY HubAssumption, SettledStays
<1>2. Spec => [][KeepsSettled]_vars
  BY <1>1, InvHolds, PTL DEF Spec
<1> QED BY <1>2 DEF SavedIsFinal, KeepsSettled
=============================================================================
