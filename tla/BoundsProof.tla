---------------------------- MODULE BoundsProof ----------------------------
(***************************************************************************)
(* Proofs about the components of Services that hold a bounded resource,   *)
(* for every value of the constants: the containers of the sandbox pool,   *)
(* the half-open slots of the circuit breaker and the bytes of the cache.  *)
(* With the A2A tasks and the components of ServicesProof, they are all,   *)
(* and the last theorem is about the types of all.                         *)
(***************************************************************************)
EXTENDS ServicesProof

(* The instance of the pool has its own name for the size of a set.        *)
LEMMA SameCount ==
  ASSUME NEW S
  PROVE  /\ Pool!Cardinality(S) = Cardinality(S)
         /\ Pool!IsFiniteSet(S) <=> IsFiniteSet(S)
BY DEF Pool!Cardinality, Cardinality, Pool!IsFiniteSet, IsFiniteSet

-----------------------------------------------------------------------------
(* What is said of the pool. *)

(* The types, but that of the order of use, on which nothing here depends. *)
PoolTypes ==
  /\ serial \in BOOLEAN
  /\ containers \in [Pool!Sessions -> Calls \cup {None}]
  /\ status \in [Calls -> {"none", "starting", "ready", "busy", "stopping", "stopped"}]
  /\ call \in [Calls -> {"new", "creating", "running", "done", "failed"}]
  /\ runsIn \in [Calls -> Calls \cup {None}]
  /\ docker \in [Calls -> {"none", "asked", "up", "refused", "gone"}]
  /\ removing \subseteq [box : Calls, by : Pool!Removers]
  /\ cleanups \in Nat
  /\ sweep \in {"off", "waiting", "listed"} /\ (sweep # "off" => cleanups > 0)

Active(c) == call[c] \in {"creating", "running"}
InUse(b) == \E c \in Calls : Active(c) /\ runsIn[c] = b

(* A session has one command under way at most, which runs in a container  *)
(* of its own.                                                             *)
OneCommand ==
  /\ \A c, d \in Calls : Active(c) /\ Active(d) /\ SessionOf[c] = SessionOf[d] => c = d
  /\ \A c \in Calls : Active(c) => runsIn[c] \in Calls /\ SessionOf[runsIn[c]] = SessionOf[c]

(* The map keeps a container under its session; one that is ready is not   *)
(* in use; and a call that has not begun has no container.                 *)
OwnPlace == \A s \in Pool!Sessions : containers[s] # None => SessionOf[containers[s]] = s
ReadyIsIdle == \A b \in Calls : status[b] = "ready" => ~InUse(b)
Fresh == \A b \in Calls : call[b] = "new" =>
           b \notin Pool!Tracked /\ ~InUse(b) /\ ~Pool!BeingRemoved(b)

PlacesInv == serial => OneCommand /\ OwnPlace /\ ReadyIsIdle /\ Fresh

-----------------------------------------------------------------------------
(* The types. *)

(* The containers that are removed are given up, or marked and handed to   *)
(* docker.                                                                 *)
LEMMA RemoveAllTypes ==
  ASSUME PoolTypes, NEW boxes \in SUBSET Calls, NEW by \in Pool!Removers,
         Pool!RemoveAll(boxes, by)
  PROVE  /\ containers' \in [Pool!Sessions -> Calls \cup {None}]
         /\ status' \in [Calls -> {"none", "starting", "ready", "busy", "stopping", "stopped"}]
         /\ removing' \subseteq [box : Calls, by : Pool!Removers]
BY DEF PoolTypes, Pool!RemoveAll

LEMMA TrackedIsCall ==
  ASSUME PoolTypes
  PROVE  Pool!Tracked \subseteq Calls /\ Pool!Ready \subseteq Calls
BY DEF PoolTypes, Pool!Tracked, Pool!Ready

(* Every action keeps the types.                                           *)
LEMMA PoolTypeStep ==
  ASSUME Pool!PoolAssumption, PoolTypes, [Pool!Next]_(Pool!vars)
  PROVE  PoolTypes'
<1> USE DEF PoolTypes, Pool!owners, Pool!poolVars, Pool!dockerVars, Pool!cleaning
<1>1. ASSUME NEW c \in Calls, Pool!Reuse(c) PROVE PoolTypes'
  <2>1. containers[SessionOf[c]] \in Calls
    BY <1>1, TrackedIsCall DEF Pool!Reuse
  <2> QED BY <1>1, <2>1 DEF Pool!Reuse
<1>2. ASSUME NEW c \in Calls, Pool!JoinCreation(c) \/ Pool!RefusedByPool(c) PROVE PoolTypes'
  BY <1>2 DEF Pool!JoinCreation, Pool!RefusedByPool, Pool!Creating
<1>3. ASSUME NEW c \in Calls, NEW evicted \in SUBSET Calls, Pool!Create(c, evicted)
      PROVE  PoolTypes'
  <2>1. {[box |-> b, by |-> "eviction"] : b \in evicted} \subseteq [box : Calls, by : Pool!Removers]
    BY DEF Pool!Removers
  <2> QED BY <1>3, <2>1 DEF Pool!Create
<1>4. ASSUME NEW c \in Calls, Pool!CreateInRoom(c) \/ Pool!CreateEvicting(c) PROVE PoolTypes'
  BY <1>3, <1>4, TrackedIsCall DEF Pool!CreateInRoom, Pool!CreateEvicting
<1>5. ASSUME NEW b \in Calls, Pool!CreateReturns(b) \/ Pool!CreateFails(b) PROVE PoolTypes'
  BY <1>5 DEF Pool!CreateReturns, Pool!CreateFails
<1>6. ASSUME NEW c \in Calls, Pool!ExecEnds(c) PROVE PoolTypes'
  BY <1>6 DEF Pool!ExecEnds
<1>7. ASSUME NEW c \in Calls, Pool!DaemonRuns(c) PROVE PoolTypes'
  BY <1>7 DEF Pool!DaemonRuns
<1>8. ASSUME NEW r \in removing, Pool!RemoveReturns(r) \/ Pool!DaemonRemoves(r) PROVE PoolTypes'
  BY <1>8 DEF Pool!RemoveReturns, Pool!DaemonRemoves
<1>9. ASSUME NEW s \in Pool!Sessions, Pool!OwnerDone(s) PROVE PoolTypes'
  <2>1. Pool!RemoveAll({containers[s]} \ {None}, "owner")
    BY <1>9 DEF Pool!OwnerDone
  <2>2. "owner" \in Pool!Removers /\ {containers[s]} \ {None} \subseteq Calls
    BY DEF Pool!Removers
  <2> QED BY <1>9, <2>1, <2>2, RemoveAllTypes DEF Pool!OwnerDone
<1>10. CASE Pool!Reap
  <2>1. PICK idle \in (SUBSET Pool!Ready) \ {{}} : Pool!RemoveAll(idle, "reaper")
    BY <1>10 DEF Pool!Reap
  <2>2. "reaper" \in Pool!Removers /\ idle \subseteq Calls
    BY TrackedIsCall DEF Pool!Removers
  <2> QED BY <1>10, <2>1, <2>2, RemoveAllTypes DEF Pool!Reap
<1>11. CASE Pool!CleanupBegins
  <2>1. Pool!RemoveAll(Pool!Tracked, "cleanup") /\ "cleanup" \in Pool!Removers
    BY <1>11 DEF Pool!CleanupBegins, Pool!Removers
  <2> QED BY <1>11, <2>1, RemoveAllTypes, TrackedIsCall DEF Pool!CleanupBegins
<1>12. CASE Pool!CleanupLists \/ Pool!CleanupSweeps \/ Pool!Redetect
  BY <1>12 DEF Pool!CleanupLists, Pool!CleanupSweeps, Pool!Redetect
<1>13. CASE UNCHANGED Pool!vars
  BY <1>13 DEF Pool!vars
<1> QED BY <1>1, <1>2, <1>4, <1>5, <1>6, <1>7, <1>8, <1>9, <1>10, <1>11, <1>12, <1>13
        DEF Pool!Next

(* Whether commands come one at a time never changes, and cleanups are     *)
(* counted up.                                                             *)
LEMMA SerialStays ==
  ASSUME PoolTypes, [Pool!Next]_(Pool!vars)
  PROVE  serial' = serial /\ cleanups' \in {cleanups, cleanups + 1}
<1> USE DEF Pool!owners, Pool!cleaning
<1>1. ASSUME NEW c \in Calls,
             \/ Pool!Reuse(c) \/ Pool!JoinCreation(c) \/ Pool!CreateInRoom(c)
             \/ Pool!CreateEvicting(c) \/ Pool!RefusedByPool(c) \/ Pool!CreateReturns(c)
             \/ Pool!CreateFails(c) \/ Pool!ExecEnds(c) \/ Pool!DaemonRuns(c)
      PROVE  serial' = serial /\ cleanups' \in {cleanups, cleanups + 1}
  BY <1>1 DEF Pool!Reuse, Pool!JoinCreation, Pool!CreateInRoom, Pool!CreateEvicting, Pool!Create,
      Pool!RefusedByPool, Pool!CreateReturns, Pool!CreateFails, Pool!ExecEnds, Pool!DaemonRuns
<1>2. ASSUME NEW r \in removing, Pool!RemoveReturns(r) \/ Pool!DaemonRemoves(r)
      PROVE  serial' = serial /\ cleanups' \in {cleanups, cleanups + 1}
  BY <1>2 DEF Pool!RemoveReturns, Pool!DaemonRemoves
<1>3. ASSUME NEW s \in Pool!Sessions, Pool!OwnerDone(s)
      PROVE  serial' = serial /\ cleanups' \in {cleanups, cleanups + 1}
  BY <1>3 DEF Pool!OwnerDone
<1>4. CASE Pool!Reap \/ Pool!CleanupBegins \/ Pool!CleanupLists \/ Pool!CleanupSweeps
           \/ Pool!Redetect
  BY <1>4 DEF Pool!Reap, Pool!CleanupBegins, Pool!CleanupLists, Pool!CleanupSweeps, Pool!Redetect
<1>5. CASE UNCHANGED Pool!vars
  BY <1>5 DEF Pool!vars
<1> QED BY <1>1, <1>2, <1>3, <1>4, <1>5 DEF Pool!Next

-----------------------------------------------------------------------------
(* Where commands and containers are. *)

(* What a step does that begins no command: it ends some, takes containers *)
(* out of the map, and has docker remove some of those that are in it.     *)
Quiet ==
  /\ \A c \in Calls : Active(c)' => Active(c) /\ runsIn'[c] = runsIn[c]
  /\ \A c \in Calls : call'[c] = "new" => call[c] = "new"
  /\ \A s \in Pool!Sessions : containers'[s] \in {containers[s], None}
  /\ \A r \in removing' : r \in removing \/ r.box \in Pool!Tracked
  /\ \A b \in Calls : status'[b] = "ready" => status[b] = "ready" \/ ~InUse(b)'
  /\ \A b \in Pool!Tracked' :
       status[b] = "stopping" => status'[b] = "stopping" \/ InUse(b)

LEMMA QuietKeepsPlaces ==
  ASSUME PoolTypes, OneCommand, OwnPlace, ReadyIsIdle, Fresh, Quiet
  PROVE  OneCommand' /\ OwnPlace' /\ ReadyIsIdle' /\ Fresh'
<1>1. \A b : InUse(b)' => InUse(b)
  BY DEF Quiet, InUse
<1>2. Pool!Tracked' \subseteq Pool!Tracked
  BY DEF Quiet, Pool!Tracked
<1>3. \A b : Pool!BeingRemoved(b)' => Pool!BeingRemoved(b) \/ b \in Pool!Tracked
  BY DEF Quiet, Pool!BeingRemoved
<1>4. OneCommand'
  BY DEF Quiet, OneCommand
<1>5. OwnPlace'
  BY DEF Quiet, OwnPlace
<1>6. ReadyIsIdle'
  BY <1>1 DEF Quiet, ReadyIsIdle
<1>7. Fresh'
  BY <1>1, <1>2, <1>3 DEF Quiet, Fresh
<1> QED BY <1>4, <1>5, <1>6, <1>7

(* A removal takes out of the map what has no name yet, and has docker     *)
(* remove what has.                                                        *)
LEMMA RemoveAllQuiet ==
  ASSUME PoolTypes, NEW boxes \in SUBSET Pool!Tracked, NEW by, Pool!RemoveAll(boxes, by),
         UNCHANGED <<call, runsIn>>
  PROVE  Quiet
<1>1. \A r \in removing' : r \in removing \/ r.box \in Pool!Tracked
  BY DEF Pool!RemoveAll
<1>2. \A s \in Pool!Sessions : containers'[s] \in {containers[s], None}
  BY DEF Pool!RemoveAll
<1>3. \A b \in Calls : /\ status'[b] = "ready" => status[b] = "ready"
                       /\ status[b] = "stopping" => status'[b] = "stopping"
  BY DEF Pool!RemoveAll
<1>4. Pool!Tracked' \subseteq Calls
  BY <1>2 DEF PoolTypes, Pool!Tracked
<1> QED BY <1>1, <1>2, <1>3, <1>4 DEF Quiet, Active

(* A command that is about to begin is the only one of its session under   *)
(* way, and so none is waiting for a creation.                             *)
LEMMA StartsAlone ==
  ASSUME serial, NEW c \in Calls, Pool!Starting(c)
  PROVE  /\ \A d \in Calls : SessionOf[d] = SessionOf[c] => ~Active(d)
         /\ Pool!Creating(SessionOf[c]) = {}
BY DEF Pool!Starting, Active, Pool!Creating, Pool!WaitingFor

(* Every action but those that give a command its container is quiet.      *)
LEMMA QuietSteps ==
  ASSUME Pool!PoolAssumption, PoolTypes, serial, OneCommand, OwnPlace, [Pool!Next]_(Pool!vars)
  PROVE  \/ Quiet
         \/ \E c \in Calls : Pool!Reuse(c) \/ Pool!CreateInRoom(c) \/ Pool!CreateEvicting(c)
<1> USE DEF PoolTypes, Pool!owners, Pool!poolVars, Pool!dockerVars, Pool!cleaning
<1>0. (\A s \in Pool!Sessions : containers'[s] \in {containers[s], None})
        => Pool!Tracked' \subseteq Pool!Tracked
  BY DEF Pool!Tracked
<1>1. ASSUME NEW c \in Calls, Pool!JoinCreation(c) PROVE FALSE
  BY <1>1, StartsAlone DEF Pool!JoinCreation
<1>2. ASSUME NEW c \in Calls, Pool!RefusedByPool(c) PROVE Quiet
  BY <1>2 DEF Pool!RefusedByPool, Quiet, Active
<1>3. ASSUME NEW b \in Calls, Pool!CreateReturns(b) PROVE Quiet
  <2>1. InUse(b)
    BY <1>3 DEF Pool!CreateReturns, InUse, Active, Pool!WaitingFor
  <2>2. Pool!Tracked' \subseteq Calls
    BY <1>3, TrackedIsCall DEF Pool!CreateReturns, Pool!Tracked
  <2>3. \A a \in Calls : status'[a] \in {"busy", status[a]} /\ (a # b => status'[a] = status[a])
    BY <1>3 DEF Pool!CreateReturns
  <2>4. \A a \in Pool!Tracked' : status[a] = "stopping" => status'[a] = "stopping" \/ InUse(a)
    BY <2>1, <2>2, <2>3
  <2> QED BY <1>3, <2>3, <2>4 DEF Pool!CreateReturns, Quiet, Active, Pool!WaitingFor
<1>4. ASSUME NEW b \in Calls, Pool!CreateFails(b) PROVE Quiet
  <2>1. InUse(b)
    BY <1>4 DEF Pool!CreateFails, InUse, Active, Pool!WaitingFor
  <2>2. /\ \A s \in Pool!Sessions : containers'[s] \in {containers[s], None}
        /\ \A a \in Calls : status'[a] \in {"stopped", status[a]} /\ (a # b => status'[a] = status[a])
    BY <1>4 DEF Pool!CreateFails
  <2>3. \A a \in Pool!Tracked' : status[a] = "stopping" => status'[a] = "stopping" \/ InUse(a)
    BY <1>0, <2>1, <2>2, TrackedIsCall
  <2> QED BY <1>4, <2>2, <2>3 DEF Pool!CreateFails, Quiet, Active, Pool!WaitingFor
<1>5. ASSUME NEW c \in Calls, Pool!ExecEnds(c) PROVE Quiet
  <2>1. Active(c) /\ runsIn[c] \in Calls /\ SessionOf[runsIn[c]] = SessionOf[c] /\ InUse(runsIn[c])
    BY <1>5 DEF Pool!ExecEnds, Active, OneCommand, InUse
  <2>2. ~InUse(runsIn[c])'
    BY <1>5, <2>1 DEF Pool!ExecEnds, Active, OneCommand, InUse
  <2>3. Pool!Tracked' \subseteq Calls
    BY <1>5, TrackedIsCall DEF Pool!ExecEnds, Pool!Tracked
  <2>4. \A a \in Calls : a # runsIn[c] => status'[a] = status[a]
    BY <1>5 DEF Pool!ExecEnds
  <2>5. \A a \in Pool!Tracked' : status[a] = "stopping" => status'[a] = "stopping" \/ InUse(a)
    BY <2>1, <2>3, <2>4
  <2> QED BY <1>5, <2>1, <2>2, <2>4, <2>5 DEF Pool!ExecEnds, Quiet, Active
<1>6. ASSUME NEW c \in Calls, Pool!DaemonRuns(c) PROVE Quiet
  BY <1>6 DEF Pool!DaemonRuns, Quiet, Active
<1>7. ASSUME NEW r \in removing, Pool!DaemonRemoves(r) PROVE Quiet
  BY <1>7 DEF Pool!DaemonRemoves, Quiet, Active
<1>8. ASSUME NEW r \in removing, Pool!RemoveReturns(r) PROVE Quiet
  <2>1. r.box \in Calls /\ r.box # None
    BY DEF Pool!PoolAssumption
  <2>2. /\ containers' = [containers EXCEPT ![SessionOf[r.box]] = None]
        /\ status' = [status EXCEPT ![r.box] = "stopped"]
        /\ removing' \subseteq removing /\ UNCHANGED <<call, runsIn>>
    BY <1>8 DEF Pool!RemoveReturns
  <2>3. \A s \in Pool!Sessions : containers'[s] \in {containers[s], None}
    BY <2>2
  <2>4. r.box \notin Pool!Tracked'
    BY <2>1, <2>2, <2>3 DEF Pool!Tracked, OwnPlace
  <2>5. \A a \in Pool!Tracked' : status[a] = "stopping" => status'[a] = "stopping" \/ InUse(a)
    BY <1>0, <2>2, <2>3, <2>4, TrackedIsCall
  <2> QED BY <2>2, <2>3, <2>5 DEF Quiet, Active
<1>9. ASSUME NEW s \in Pool!Sessions, Pool!OwnerDone(s) PROVE Quiet
  <2>1. Pool!RemoveAll({containers[s]} \ {None}, "owner")
    BY <1>9 DEF Pool!OwnerDone
  <2>2. {containers[s]} \ {None} \subseteq Pool!Tracked
    BY DEF Pool!Tracked
  <2> QED BY <1>9, <2>1, <2>2, RemoveAllQuiet DEF Pool!OwnerDone
<1>10. CASE Pool!Reap
  <2>1. PICK idle \in (SUBSET Pool!Ready) \ {{}} : Pool!RemoveAll(idle, "reaper")
    BY <1>10 DEF Pool!Reap
  <2>2. idle \subseteq Pool!Tracked
    BY DEF Pool!Ready
  <2> QED BY <1>10, <2>1, <2>2, RemoveAllQuiet DEF Pool!Reap
<1>11. CASE Pool!CleanupBegins
  BY <1>11, RemoveAllQuiet DEF Pool!CleanupBegins
<1>12. CASE Pool!CleanupLists \/ Pool!CleanupSweeps \/ Pool!Redetect
  BY <1>12 DEF Pool!CleanupLists, Pool!CleanupSweeps, Pool!Redetect, Quiet, Active
<1>13. CASE UNCHANGED Pool!vars
  BY <1>13 DEF Pool!vars, Quiet, Active
<1> QED BY <1>1, <1>2, <1>3, <1>4, <1>5, <1>6, <1>7, <1>8, <1>9, <1>10, <1>11, <1>12, <1>13
        DEF Pool!Next

(* A command that finds its session's container ready, and one that makes  *)
(* its own.                                                                *)
LEMMA BeginsInPlace ==
  ASSUME Pool!PoolAssumption, PoolTypes, serial, OneCommand, OwnPlace, ReadyIsIdle, Fresh,
         NEW c \in Calls,
         \/ Pool!Reuse(c)
         \/ \E evicted \in SUBSET Pool!Ready : Pool!NeedsContainer(c) /\ Pool!Create(c, evicted)
  PROVE  OneCommand' /\ OwnPlace' /\ ReadyIsIdle' /\ Fresh'
<1> USE DEF PoolTypes
<1>0. call[c] = "new" /\ c \notin Pool!Tracked /\ c # None /\ SessionOf[c] \in Pool!Sessions
      /\ \A d \in Calls : SessionOf[d] = SessionOf[c] => ~Active(d)
  BY StartsAlone DEF Pool!Reuse, Pool!NeedsContainer, Pool!Starting, Fresh, Pool!PoolAssumption,
                     Pool!Sessions
<1>1. CASE Pool!Reuse(c)
  <2> DEFINE box == containers[SessionOf[c]]
  <2>1. box \in Pool!Tracked /\ box \in Calls /\ SessionOf[box] = SessionOf[c]
    BY <1>0, <1>1, TrackedIsCall DEF Pool!Reuse, Pool!Ready, Pool!Tracked, OwnPlace
  <2>2. /\ status' = [status EXCEPT ![box] = "busy"]
        /\ call' = [call EXCEPT ![c] = "running"] /\ runsIn' = [runsIn EXCEPT ![c] = box]
        /\ UNCHANGED <<containers, removing>>
    BY <1>1 DEF Pool!Reuse, Pool!dockerVars
  <2> HIDE DEF box
  <2>3. OneCommand'
    BY <1>0, <2>1, <2>2 DEF OneCommand, Active
  <2>4. \A b \in Calls : InUse(b)' => InUse(b) \/ b = box
    BY <1>0, <2>2 DEF InUse, Active
  <2>5. OwnPlace' /\ Pool!Tracked' = Pool!Tracked
    BY <2>2 DEF OwnPlace, Pool!Tracked
  <2>6. ReadyIsIdle'
    BY <2>1, <2>2, <2>4 DEF ReadyIsIdle
  <2>7. Fresh'
    BY <2>1, <2>2, <2>4, <2>5 DEF Fresh, Pool!BeingRemoved
  <2> QED BY <2>3, <2>5, <2>6, <2>7
<1>2. ASSUME NEW evicted \in SUBSET Pool!Ready, Pool!Create(c, evicted)
      PROVE  OneCommand' /\ OwnPlace' /\ ReadyIsIdle' /\ Fresh'
  <2>1. /\ containers' = [containers EXCEPT ![SessionOf[c]] = c]
        /\ removing' = removing \cup {[box |-> b, by |-> "eviction"] : b \in evicted}
        /\ call' = [call EXCEPT ![c] = "creating"] /\ runsIn' = [runsIn EXCEPT ![c] = c]
        /\ \A b \in Calls : status'[b] = "ready" => status[b] = "ready" /\ b # c
    BY <1>2 DEF Pool!Create
  <2>2. OneCommand'
    BY <1>0, <2>1 DEF OneCommand, Active
  <2>3. \A b \in Calls : InUse(b)' => InUse(b) \/ b = c
    BY <1>0, <2>1 DEF InUse, Active
  <2>4. Pool!Tracked' \subseteq Pool!Tracked \cup {c}
    BY <2>1 DEF Pool!Tracked
  <2>5. OwnPlace'
    BY <1>0, <2>1 DEF OwnPlace
  <2>6. ReadyIsIdle'
    BY <2>1, <2>3 DEF ReadyIsIdle
  <2>7. \A b \in Calls : Pool!BeingRemoved(b)' => Pool!BeingRemoved(b) \/ b \in Pool!Tracked
    BY <2>1 DEF Pool!BeingRemoved, Pool!Ready
  <2>8. Fresh'
    BY <2>1, <2>3, <2>4, <2>7 DEF Fresh
  <2> QED BY <2>2, <2>5, <2>6, <2>8
<1> QED BY <1>1, <1>2

(* No step takes a command to a place that is not its own.                 *)
LEMMA PlacesStep ==
  ASSUME Pool!PoolAssumption, PoolTypes, PlacesInv, [Pool!Next]_(Pool!vars)
  PROVE  PlacesInv'
<1> SUFFICES ASSUME serial PROVE OneCommand' /\ OwnPlace' /\ ReadyIsIdle' /\ Fresh'
  BY SerialStays DEF PlacesInv
<1>1. CASE Quiet
  BY <1>1, QuietKeepsPlaces DEF PlacesInv
<1>2. ASSUME NEW c \in Calls,
             Pool!Reuse(c) \/ Pool!CreateInRoom(c) \/ Pool!CreateEvicting(c)
      PROVE  OneCommand' /\ OwnPlace' /\ ReadyIsIdle' /\ Fresh'
  BY <1>2, BeginsInPlace DEF PlacesInv, Pool!CreateInRoom, Pool!CreateEvicting
<1> QED BY <1>1, <1>2, QuietSteps DEF PlacesInv

-----------------------------------------------------------------------------
(* How many containers are kept. *)

(* Those that are not being removed, or are but have a command under way,  *)
(* whose end would make them ready again.                                  *)
Kept == {b \in Pool!Tracked : status[b] # "stopping" \/ InUse(b)}

KeptInv == serial => Cardinality(Kept) <= MaxContainers

LEMMA KeptIsFinite ==
  ASSUME Pool!PoolAssumption, PoolTypes
  PROVE  /\ IsFiniteSet(Pool!Tracked) /\ IsFiniteSet(Kept)
         /\ Cardinality(Kept) \in Nat /\ Cardinality(Pool!Tracked) \in Nat
<1>1. IsFiniteSet(Calls)
  BY SameCount DEF Pool!PoolAssumption
<1> QED BY <1>1, TrackedIsCall, FS_Subset, FS_CardinalityType DEF Kept

(* A container is made in room that is there, or that the eviction of one  *)
(* nobody uses makes.                                                      *)
LEMMA KeptStep ==
  ASSUME Pool!PoolAssumption, PoolTypes, PoolTypes', PlacesInv, KeptInv, [Pool!Next]_(Pool!vars)
  PROVE  KeptInv'
<1> SUFFICES ASSUME serial PROVE Cardinality(Kept') <= MaxContainers
  BY SerialStays DEF KeptInv
<1>0. /\ MaxContainers \in Nat /\ Cardinality(Kept) <= MaxContainers
      /\ OneCommand /\ OwnPlace /\ ReadyIsIdle /\ Fresh
  BY DEF KeptInv, PlacesInv, Pool!PoolAssumption
<1>a. ASSUME Kept' \subseteq Kept PROVE Cardinality(Kept') <= MaxContainers
  <2>1. Cardinality(Kept') <= Cardinality(Kept) /\ Cardinality(Kept') \in Nat
    BY <1>a, KeptIsFinite, FS_Subset, FS_CardinalityType
  <2> QED BY <1>0, <2>1, KeptIsFinite
<1>1. CASE Quiet
  <2>1. Pool!Tracked' \subseteq Pool!Tracked
    BY <1>1 DEF Quiet, Pool!Tracked
  <2>2. \A b : InUse(b)' => InUse(b)
    BY <1>1 DEF Quiet, InUse
  <2>3. ASSUME NEW b \in Kept' PROVE b \in Kept
    <3>1. b \in Pool!Tracked' /\ (status'[b] # "stopping" \/ InUse(b)')
      BY DEF Kept
    <3> QED BY <1>1, <2>1, <2>2, <3>1 DEF Quiet, Kept
  <2> QED BY <1>a, <2>3
<1>2. ASSUME NEW c \in Calls, Pool!Reuse(c) PROVE Cardinality(Kept') <= MaxContainers
  <2> DEFINE box == containers[SessionOf[c]]
  <2>1. box \in Pool!Ready /\ box \in Calls
    BY <1>2, TrackedIsCall DEF Pool!Reuse
  <2>2. /\ status' = [status EXCEPT ![box] = "busy"]
        /\ call' = [call EXCEPT ![c] = "running"] /\ runsIn' = [runsIn EXCEPT ![c] = box]
        /\ UNCHANGED containers
    BY <1>2 DEF Pool!Reuse
  <2> HIDE DEF box
  <2>3. box \in Kept /\ Pool!Tracked' = Pool!Tracked
    BY <2>1, <2>2 DEF Kept, Pool!Ready, Pool!Tracked
  <2>4. \A b : InUse(b)' => InUse(b) \/ b = box
    BY <2>1, <2>2 DEF InUse, Active, PoolTypes
  <2>5. \A b \in Calls : b # box => status'[b] = status[b]
    BY <2>2 DEF PoolTypes
  <2>6. Kept' \subseteq Kept
    BY <2>3, <2>4, <2>5, TrackedIsCall DEF Kept
  <2> QED BY <1>a, <2>6
<1>3. ASSUME NEW c \in Calls, NEW evicted \in SUBSET Pool!Ready,
             Pool!NeedsContainer(c), Pool!Create(c, evicted)
      PROVE  Kept' \subseteq (Kept \ evicted) \cup {c} /\ c \notin Pool!Tracked
  <2>1. /\ containers' = [containers EXCEPT ![SessionOf[c]] = c]
        /\ call' = [call EXCEPT ![c] = "creating"] /\ runsIn' = [runsIn EXCEPT ![c] = c]
        /\ \A b \in Calls \ {c} :
             status'[b] = IF b \in evicted THEN "stopping" ELSE status[b]
    BY <1>3 DEF Pool!Create
  <2>2. c \notin Pool!Tracked
    BY <1>0, <1>3 DEF Pool!NeedsContainer, Pool!Starting, Fresh
  <2>3. \A b : InUse(b)' => InUse(b) \/ b = c
    BY <2>1 DEF InUse, Active, PoolTypes
  <2>4. Pool!Tracked' \subseteq Pool!Tracked \cup {c}
    BY <2>1 DEF Pool!Tracked, PoolTypes
  <2>5. \A b \in evicted : b \in Calls /\ b # c /\ ~InUse(b)'
    BY <1>0, <2>2, <2>3, TrackedIsCall DEF Pool!Ready, ReadyIsIdle
  <2>6. ASSUME NEW b \in Kept', b # c PROVE b \in Kept \ evicted
    <3>1. b \in Pool!Tracked /\ b \in Calls /\ (status'[b] # "stopping" \/ InUse(b)')
      BY <2>4, <2>6, TrackedIsCall DEF Kept
    <3>2. b \notin evicted
      BY <2>1, <2>5, <2>6, <3>1
    <3> QED BY <2>1, <2>3, <2>6, <3>1, <3>2 DEF Kept
  <2> QED BY <2>2, <2>6
<1>4. ASSUME NEW c \in Calls, Pool!CreateInRoom(c) PROVE Cardinality(Kept') <= MaxContainers
  <2>1. Kept' \subseteq Pool!Tracked \cup {c} /\ c \notin Pool!Tracked
    BY <1>3, <1>4 DEF Pool!CreateInRoom, Kept
  <2>2. /\ Cardinality(Pool!Tracked \cup {c}) = Cardinality(Pool!Tracked) + 1
        /\ IsFiniteSet(Pool!Tracked \cup {c})
    BY <2>1, KeptIsFinite, FS_AddElement
  <2>3. Cardinality(Pool!Tracked) < MaxContainers
    BY <1>0, <1>4, SameCount, KeptIsFinite DEF Pool!CreateInRoom, Pool!PoolFull
  <2>4. Cardinality(Kept') <= Cardinality(Pool!Tracked \cup {c}) /\ Cardinality(Kept') \in Nat
    BY <2>1, <2>2, FS_Subset, FS_CardinalityType
  <2> QED BY <1>0, <2>2, <2>3, <2>4, KeptIsFinite
<1>5. ASSUME NEW c \in Calls, Pool!CreateEvicting(c) PROVE Cardinality(Kept') <= MaxContainers
  <2>1. PICK b \in Pool!Ready : Pool!NeedsContainer(c) /\ Pool!Create(c, {b})
    BY <1>5 DEF Pool!CreateEvicting
  <2>2. Kept' \subseteq (Kept \ {b}) \cup {c} /\ c \notin Pool!Tracked
    BY <1>3, <2>1
  <2>3. b \in Kept /\ c \notin Kept \ {b}
    BY <2>2 DEF Kept, Pool!Ready
  <2>4. /\ IsFiniteSet(Kept \ {b}) /\ Cardinality(Kept \ {b}) = Cardinality(Kept) - 1
    BY <2>3, KeptIsFinite, FS_RemoveElement
  <2>5. /\ IsFiniteSet((Kept \ {b}) \cup {c})
        /\ Cardinality((Kept \ {b}) \cup {c}) = Cardinality(Kept \ {b}) + 1
    BY <2>3, <2>4, FS_AddElement
  <2>6. Cardinality(Kept') <= Cardinality((Kept \ {b}) \cup {c}) /\ Cardinality(Kept') \in Nat
    BY <2>2, <2>5, FS_Subset, FS_CardinalityType
  <2> QED BY <1>0, <2>4, <2>5, <2>6, KeptIsFinite
<1> QED BY <1>0, <1>1, <1>2, <1>4, <1>5, QuietSteps

-----------------------------------------------------------------------------
(* What becomes of the containers of commands under way. *)

(* While no cleanup has been asked for: a container in use is not being    *)
(* removed and not gone; the daemon has that of a command that runs, and   *)
(* any that is ready.                                                      *)
InUseIsKept == \A b \in Calls : InUse(b) => ~Pool!BeingRemoved(b) /\ docker[b] # "gone"
RunningIsUp == \A c \in Calls : call[c] = "running" => docker[runsIn[c]] = "up"
ReadyIsUp == \A b \in Calls :
               status[b] = "ready" => docker[b] = "up" /\ ~Pool!BeingRemoved(b)

UndisturbedInv == serial /\ cleanups = 0 => InUseIsKept /\ RunningIsUp /\ ReadyIsUp

(* A removal of containers that nobody uses disturbs none.                 *)
LEMMA RemoveAllUndisturbed ==
  ASSUME PoolTypes, InUseIsKept, RunningIsUp, ReadyIsUp, NEW by,
         NEW boxes \in SUBSET Calls, \A b \in boxes : ~InUse(b), Pool!RemoveAll(boxes, by),
         UNCHANGED <<call, runsIn, docker>>
  PROVE  InUseIsKept' /\ RunningIsUp' /\ ReadyIsUp'
<1>1. \A b : Pool!BeingRemoved(b)' => Pool!BeingRemoved(b) \/ b \in boxes
  BY DEF Pool!BeingRemoved, Pool!RemoveAll
<1>2. \A b \in Calls : status'[b] = "ready" => status[b] = "ready" /\ b \notin boxes
  BY DEF Pool!RemoveAll
<1>3. \A b : InUse(b)' <=> InUse(b)
  BY DEF InUse, Active
<1> QED BY <1>1, <1>2, <1>3 DEF InUseIsKept, RunningIsUp, ReadyIsUp

(* So does a step that removes nothing more and ends commands, if the      *)
(* daemon loses no container that is not being removed.                    *)
LEMMA QuietUndisturbed ==
  ASSUME PoolTypes, OneCommand, InUseIsKept, RunningIsUp, ReadyIsUp, Quiet,
         removing' \subseteq removing,
         \A b \in Calls : \/ docker'[b] = docker[b]
                          \/ docker[b] = "asked" /\ docker'[b] # "gone"
                          \/ Pool!BeingRemoved(b),
         \A c \in Calls : call'[c] = "running" => call[c] = "running" \/ docker'[runsIn[c]] = "up",
         \A b \in Calls : status'[b] = "ready" =>
             \/ status[b] = "ready"
             \/ docker[b] = "up" /\ ~Pool!BeingRemoved(b)
  PROVE  InUseIsKept' /\ RunningIsUp' /\ ReadyIsUp'
<1>1. \A b : Pool!BeingRemoved(b)' => Pool!BeingRemoved(b)
  BY DEF Pool!BeingRemoved
<1>2. \A b : InUse(b)' => InUse(b)
  BY DEF Quiet, InUse
<1>3. InUseIsKept'
  BY <1>1, <1>2 DEF InUseIsKept
<1>4. RunningIsUp'
  <2> SUFFICES ASSUME NEW c \in Calls, call'[c] = "running" PROVE docker'[runsIn'[c]] = "up"
    BY DEF RunningIsUp
  <2>1. Active(c) /\ runsIn'[c] = runsIn[c] /\ runsIn[c] \in Calls
    BY DEF Quiet, Active, OneCommand
  <2>2. ~Pool!BeingRemoved(runsIn[c])
    BY <2>1 DEF InUseIsKept, InUse
  <2> QED BY <2>1, <2>2 DEF RunningIsUp
<1>5. ReadyIsUp'
  BY <1>1 DEF ReadyIsUp
<1> QED BY <1>3, <1>4, <1>5

(* A command gets a container that is up, or one of its own; and only      *)
(* containers nobody uses are removed.                                     *)
LEMMA UndisturbedStep ==
  ASSUME Pool!PoolAssumption, PoolTypes, PlacesInv, UndisturbedInv, [Pool!Next]_(Pool!vars)
  PROVE  UndisturbedInv'
<1> SUFFICES ASSUME serial, cleanups' = 0 PROVE InUseIsKept' /\ RunningIsUp' /\ ReadyIsUp'
  BY SerialStays DEF UndisturbedInv
<1>0. /\ cleanups = 0 /\ sweep = "off"
      /\ OneCommand /\ OwnPlace /\ ReadyIsIdle /\ Fresh
      /\ InUseIsKept /\ RunningIsUp /\ ReadyIsUp
  <2>1. cleanups = 0
    <3>1. cleanups' \in {cleanups, cleanups + 1}
      BY SerialStays
    <3>2. cleanups \in Nat
      BY DEF PoolTypes
    <3> QED BY <3>1, <3>2
  <2> QED BY <2>1 DEF UndisturbedInv, PlacesInv, PoolTypes
<1> USE DEF PoolTypes, Pool!owners, Pool!poolVars, Pool!dockerVars, Pool!cleaning
<1>1. ASSUME NEW c \in Calls, Pool!Reuse(c)
      PROVE  InUseIsKept' /\ RunningIsUp' /\ ReadyIsUp'
  <2> DEFINE box == containers[SessionOf[c]]
  <2>1. box \in Calls /\ status[box] = "ready"
    BY <1>1, TrackedIsCall DEF Pool!Reuse, Pool!Ready
  <2>2. /\ status' = [status EXCEPT ![box] = "busy"]
        /\ call' = [call EXCEPT ![c] = "running"] /\ runsIn' = [runsIn EXCEPT ![c] = box]
        /\ UNCHANGED <<docker, removing>>
    BY <1>1 DEF Pool!Reuse
  <2> HIDE DEF box
  <2>3. \A b : InUse(b)' => InUse(b) \/ b = box
    BY <2>2 DEF InUse, Active
  <2>4. \A b : Pool!BeingRemoved(b)' <=> Pool!BeingRemoved(b)
    BY <2>2 DEF Pool!BeingRemoved
  <2>5. InUseIsKept'
    BY <1>0, <2>1, <2>2, <2>3, <2>4 DEF InUseIsKept, ReadyIsUp
  <2>6. RunningIsUp'
    BY <1>0, <2>1, <2>2 DEF RunningIsUp, ReadyIsUp
  <2>7. ReadyIsUp'
    BY <1>0, <2>2, <2>4 DEF ReadyIsUp
  <2> QED BY <2>5, <2>6, <2>7
<1>2. ASSUME NEW c \in Calls, NEW evicted \in SUBSET Pool!Ready,
             Pool!NeedsContainer(c), Pool!Create(c, evicted)
      PROVE  InUseIsKept' /\ RunningIsUp' /\ ReadyIsUp'
  <2>1. /\ removing' = removing \cup {[box |-> b, by |-> "eviction"] : b \in evicted}
        /\ docker' = [docker EXCEPT ![c] = "asked"]
        /\ call' = [call EXCEPT ![c] = "creating"] /\ runsIn' = [runsIn EXCEPT ![c] = c]
        /\ \A b \in Calls : status'[b] = "ready" =>
              status[b] = "ready" /\ b # c /\ b \notin evicted
    BY <1>2 DEF Pool!Create
  <2>2. /\ c \notin Pool!Tracked /\ ~InUse(c) /\ ~Pool!BeingRemoved(c)
    BY <1>0, <1>2 DEF Pool!NeedsContainer, Pool!Starting, Fresh
  <2>3. \A b \in evicted : b \in Calls /\ b # c /\ ~InUse(b)
    BY <1>0, <2>2, TrackedIsCall DEF Pool!Ready, ReadyIsIdle
  <2>4. \A b : InUse(b)' => InUse(b) \/ b = c
    BY <2>1 DEF InUse, Active
  <2>5. \A b : Pool!BeingRemoved(b)' => Pool!BeingRemoved(b) \/ b \in evicted
    BY <2>1 DEF Pool!BeingRemoved
  <2>6. InUseIsKept'
    BY <1>0, <2>1, <2>2, <2>3, <2>4, <2>5 DEF InUseIsKept
  <2>7. RunningIsUp'
    <3> SUFFICES ASSUME NEW d \in Calls, call'[d] = "running" PROVE docker'[runsIn'[d]] = "up"
      BY DEF RunningIsUp
    <3>1. d # c /\ call[d] = "running" /\ runsIn'[d] = runsIn[d]
      BY <2>1
    <3>2. runsIn[d] \in Calls /\ runsIn[d] # c
      BY <1>0, <2>2, <3>1 DEF OneCommand, InUse, Active
    <3> QED BY <1>0, <2>1, <3>1, <3>2 DEF RunningIsUp
  <2>8. ReadyIsUp'
    BY <1>0, <2>1, <2>5 DEF ReadyIsUp
  <2> QED BY <2>6, <2>7, <2>8
<1>3. ASSUME NEW c \in Calls, Pool!CreateInRoom(c) \/ Pool!CreateEvicting(c)
      PROVE  InUseIsKept' /\ RunningIsUp' /\ ReadyIsUp'
  BY <1>2, <1>3 DEF Pool!CreateInRoom, Pool!CreateEvicting
<1>4. ASSUME NEW c \in Calls, Pool!JoinCreation(c) PROVE FALSE
  BY <1>4, StartsAlone DEF Pool!JoinCreation
<1>5. ASSUME NEW b \in Calls, Pool!CreateReturns(b), Quiet
      PROVE  InUseIsKept' /\ RunningIsUp' /\ ReadyIsUp'
  <2>1. docker[b] = "up"
    BY <1>0, <1>5 DEF Pool!CreateReturns, InUseIsKept, InUse, Active, Pool!WaitingFor
  <2> QED BY <1>0, <1>5, <2>1, QuietUndisturbed DEF Pool!CreateReturns, Pool!WaitingFor
<1>6. ASSUME NEW c \in Calls, Pool!CreateFails(c) \/ Pool!RefusedByPool(c), Quiet
      PROVE  InUseIsKept' /\ RunningIsUp' /\ ReadyIsUp'
  BY <1>0, <1>6, QuietUndisturbed DEF Pool!CreateFails, Pool!RefusedByPool
<1>7. ASSUME NEW c \in Calls, Pool!ExecEnds(c), Quiet
      PROVE  InUseIsKept' /\ RunningIsUp' /\ ReadyIsUp'
  <2>1. docker[runsIn[c]] = "up" /\ ~Pool!BeingRemoved(runsIn[c]) /\ runsIn[c] \in Calls
    BY <1>0, <1>7 DEF Pool!ExecEnds, InUseIsKept, RunningIsUp, InUse, Active, OneCommand
  <2> QED BY <1>0, <1>7, <2>1, QuietUndisturbed DEF Pool!ExecEnds
<1>8. ASSUME NEW b \in Calls, Pool!DaemonRuns(b), Quiet
      PROVE  InUseIsKept' /\ RunningIsUp' /\ ReadyIsUp'
  BY <1>0, <1>8, QuietUndisturbed DEF Pool!DaemonRuns
<1>9. ASSUME NEW r \in removing, Pool!DaemonRemoves(r), Quiet
       PROVE  InUseIsKept' /\ RunningIsUp' /\ ReadyIsUp'
  BY <1>0, <1>9, QuietUndisturbed DEF Pool!DaemonRemoves, Pool!BeingRemoved
<1>10. ASSUME NEW r \in removing, Pool!RemoveReturns(r), Quiet
       PROVE  InUseIsKept' /\ RunningIsUp' /\ ReadyIsUp'
  BY <1>0, <1>10, QuietUndisturbed DEF Pool!RemoveReturns
<1>11. ASSUME NEW s \in Pool!Sessions, Pool!OwnerDone(s)
       PROVE  InUseIsKept' /\ RunningIsUp' /\ ReadyIsUp'
  <2>1. Pool!RemoveAll({containers[s]} \ {None}, "owner") /\ {containers[s]} \ {None} \subseteq Calls
    BY <1>11 DEF Pool!OwnerDone
  <2>2. \A b \in {containers[s]} \ {None} : ~InUse(b)
    BY <1>0, <1>11 DEF Pool!OwnerDone, InUse, Active, OneCommand, OwnPlace
  <2> QED BY <1>0, <1>11, <2>1, <2>2, RemoveAllUndisturbed DEF Pool!OwnerDone
<1>12. CASE Pool!Reap
  <2>1. PICK idle \in (SUBSET Pool!Ready) \ {{}} : Pool!RemoveAll(idle, "reaper")
    BY <1>12 DEF Pool!Reap
  <2>2. idle \subseteq Calls /\ \A b \in idle : ~InUse(b)
    BY <1>0, TrackedIsCall DEF Pool!Ready, ReadyIsIdle
  <2> QED BY <1>0, <1>12, <2>1, <2>2, RemoveAllUndisturbed DEF Pool!Reap
<1>13. CASE Pool!CleanupBegins \/ Pool!CleanupLists \/ Pool!CleanupSweeps
  BY <1>0, <1>13 DEF Pool!CleanupBegins, Pool!CleanupLists, Pool!CleanupSweeps
<1>14. ASSUME Pool!Redetect \/ UNCHANGED Pool!vars, Quiet
       PROVE  InUseIsKept' /\ RunningIsUp' /\ ReadyIsUp'
  BY <1>0, <1>14, QuietUndisturbed DEF Pool!Redetect, Pool!vars
<1>15. CASE Quiet
  BY <1>1, <1>3, <1>4, <1>5, <1>6, <1>7, <1>8, <1>9, <1>10, <1>11, <1>12, <1>13, <1>14, <1>15
     DEF Pool!Next
<1> QED BY <1>0, <1>1, <1>3, <1>15, QuietSteps

-----------------------------------------------------------------------------
(* The theorems. *)

(* A step of the whole is a step of the pool, or changes nothing of its.   *)
LEMMA PoolAlone == [Next]_vars => [Pool!Next]_(Pool!vars)
<1> SUFFICES ASSUME [Next]_vars PROVE [Pool!Next]_(Pool!vars)
  OBVIOUS
<1>1. CASE PoolMoves
  BY <1>1 DEF PoolMoves
<1>2. UNCHANGED poolVars => UNCHANGED Pool!vars
  BY DEF poolVars, Pool!vars, Pool!owners, Pool!poolVars, Pool!dockerVars, Pool!cleaning
<1>3. ASSUME UNCHANGED vars \/ BreakerMoves \/ LinkedMoves \/ CacheMoves \/ AgentsMove
             \/ PrivateMoves \/ ModelsMove \/ SwarmMoves \/ BrowserMoves \/ NipMoves
      PROVE  UNCHANGED poolVars
  BY <1>3 DEF vars, BreakerMoves, LinkedMoves, CacheMoves, AgentsMove, PrivateMoves, ModelsMove,
      SwarmMoves, BrowserMoves, NipMoves
<1> QED BY <1>1, <1>2, <1>3 DEF Next

PoolInv == PoolTypes /\ PlacesInv /\ KeptInv /\ UndisturbedInv

LEMMA PoolInvariant == Spec => []PoolInv
<1>1. Pool!PoolAssumption
  BY ServicesAssumption
<1>2. Init => PoolInv
  <2> SUFFICES ASSUME Pool!Init PROVE PoolInv
    BY DEF Init
  <2> USE DEF Pool!Init
  <2>1. PoolTypes
    BY <1>1 DEF PoolTypes, Pool!PoolAssumption
  <2>2. Pool!Tracked = {} /\ \A b : ~InUse(b) /\ ~Pool!BeingRemoved(b)
    BY DEF Pool!Tracked, InUse, Active, Pool!BeingRemoved
  <2>3. Kept = {} /\ Cardinality({}) <= MaxContainers
    BY <1>1, <2>2, FS_EmptySet DEF Kept, Pool!PoolAssumption
  <2>4. PlacesInv
    BY <2>2 DEF PlacesInv, OneCommand, OwnPlace, ReadyIsIdle, Fresh, Active
  <2>5. UndisturbedInv
    BY <2>2 DEF UndisturbedInv, InUseIsKept, RunningIsUp, ReadyIsUp
  <2> QED BY <2>1, <2>3, <2>4, <2>5 DEF PoolInv, KeptInv
<1>3. PoolInv /\ [Next]_vars => PoolInv'
  BY <1>1, PoolAlone, PoolTypeStep, PlacesStep, KeptStep, UndisturbedStep DEF PoolInv
<1> QED BY <1>2, <1>3, PTL DEF Spec

(* Agents' sessions keep at most MaxContainers containers that are not     *)
(* being removed, whatever is evicted, reaped, cleaned up or fails.        *)
THEOREM PoolStaysBounded == Spec => []PoolBound
<1>1. PoolInv => PoolBound
  <2> SUFFICES ASSUME PoolInv, serial
               PROVE  Cardinality({b \in Pool!Tracked : status[b] # "stopping"}) <= MaxContainers
    BY SameCount DEF PoolBound, Pool!PoolBound
  <2> DEFINE held == {b \in Pool!Tracked : status[b] # "stopping"}
  <2>1. Pool!PoolAssumption /\ PoolTypes
    BY ServicesAssumption DEF PoolInv
  <2>2. held \subseteq Kept
    BY DEF Kept
  <2>3. Cardinality(held) <= Cardinality(Kept) /\ Cardinality(held) \in Nat
    BY <2>1, <2>2, KeptIsFinite, FS_Subset, FS_CardinalityType
  <2> HIDE DEF held
  <2>4. Cardinality(Kept) \in Nat /\ MaxContainers \in Nat /\ Cardinality(Kept) <= MaxContainers
    BY <2>1, KeptIsFinite DEF PoolInv, KeptInv, Pool!PoolAssumption
  <2>5. Cardinality(held) <= MaxContainers
    BY <2>3, <2>4
  <2> QED BY <2>5 DEF held
<1> QED BY <1>1, PoolInvariant, PTL

(* While a command of an agent's session runs, its container is up and     *)
(* nobody is removing it, unless a cleanup has been asked for.             *)
THEOREM CommandsStay == Spec => []AgentCommandsUndisturbed
<1>1. PoolInv => AgentCommandsUndisturbed
  <2> SUFFICES ASSUME PoolInv, serial, NEW c \in Calls, call[c] = "running", ~(cleanups > 0)
               PROVE  docker[runsIn[c]] = "up" /\ ~Pool!BeingRemoved(runsIn[c])
    BY DEF AgentCommandsUndisturbed, Pool!AgentCommandsUndisturbed, Pool!CommandsUndisturbed
  <2>1. cleanups = 0
    BY DEF PoolInv, PoolTypes
  <2>2. InUseIsKept /\ RunningIsUp /\ OneCommand
    BY <2>1 DEF PoolInv, UndisturbedInv, PlacesInv
  <2> QED BY <2>2 DEF InUseIsKept, RunningIsUp, OneCommand, InUse, Active
<1> QED BY <1>1, PoolInvariant, PTL

-----------------------------------------------------------------------------
(* The circuit breaker. *)

(* The instance of the breaker has its own name for the size of a set.     *)
LEMMA BreakerSize ==
  ASSUME NEW S
  PROVE  /\ Breaker!Cardinality(S) = Cardinality(S)
         /\ Breaker!IsFiniteSet(S) <=> IsFiniteSet(S)
BY DEF Breaker!Cardinality, Cardinality, Breaker!IsFiniteSet, IsFiniteSet

Accounted == inflight <= Cardinality(Breaker!Probes) + leaked

SlotsInv == Breaker!TypeOK /\ Accounted

(* The calls that are probes, after one call has changed what it is.       *)
LEMMA ProbesAfter ==
  ASSUME Breaker!BreakerAssumption, Breaker!TypeOK, NEW c \in Requests, NEW to,
         request' = [request EXCEPT ![c] = to]
  PROVE  /\ Cardinality(Breaker!Probes) \in Nat
         /\ Cardinality(Breaker!Probes') \in Nat
         /\ request[c] # "probe" /\ to = "probe"
              => Cardinality(Breaker!Probes') = Cardinality(Breaker!Probes) + 1
         /\ request[c] # "probe" /\ to # "probe" => Breaker!Probes' = Breaker!Probes
         /\ request[c] = "probe" /\ to # "probe"
              => Cardinality(Breaker!Probes') = Cardinality(Breaker!Probes) - 1
<1> USE DEF Breaker!TypeOK, Breaker!Probes
<1>1. IsFiniteSet(Breaker!Probes)
  <2>1. IsFiniteSet(Requests)
    BY BreakerSize DEF Breaker!BreakerAssumption
  <2> QED BY <2>1, FS_Subset
<1>2. CASE to = "probe"
  <2>1. Breaker!Probes' = Breaker!Probes \cup {c}
    BY <1>2
  <2> HIDE DEF Breaker!Probes
  <2>2. c \in Breaker!Probes <=> request[c] = "probe"
    BY DEF Breaker!Probes
  <2> QED BY <1>1, <1>2, <2>1, <2>2, FS_AddElement, FS_CardinalityType
<1>3. CASE to # "probe"
  <2>1. Breaker!Probes' = Breaker!Probes \ {c}
    BY <1>3
  <2> HIDE DEF Breaker!Probes
  <2>2. c \in Breaker!Probes <=> request[c] = "probe"
    BY DEF Breaker!Probes
  <2> QED BY <1>1, <1>3, <2>1, <2>2, FS_RemoveElement, FS_CardinalityType
<1> QED BY <1>2, <1>3

(* Every action keeps the types: the threshold closes the breaker before   *)
(* the successes reach it.                                                 *)
LEMMA BreakerTypeStep ==
  ASSUME Breaker!BreakerAssumption, Breaker!TypeOK, [Breaker!Next]_(Breaker!vars)
  PROVE  Breaker!TypeOK'
<1> USE Breaker!BreakerAssumption DEF Breaker!TypeOK, Breaker!BreakerAssumption,
        Breaker!TransitionToOpen, Breaker!TransitionToClosed
<1> DEFINE Counted == /\ failures' \in 0 .. FailureThreshold
                      /\ successes' \in 0 .. SuccessThreshold - 1
                      /\ inflight' \in Int /\ leaked' \in Nat
           Rest == /\ state' \in {"CLOSED", "OPEN", "HALF_OPEN"}
                   /\ timedOut' \in BOOLEAN
                   /\ request' \in [Requests -> {"idle", "plain", "probe"}]
<1>1. CASE Breaker!TimePasses \/ Breaker!Recover \/ Breaker!Trip \/ Breaker!Reset
  <2>1. Counted
    BY <1>1 DEF Breaker!TimePasses, Breaker!Recover, Breaker!Trip, Breaker!Reset
  <2>2. Rest
    BY <1>1 DEF Breaker!TimePasses, Breaker!Recover, Breaker!Trip, Breaker!Reset
  <2> QED BY <2>1, <2>2
<1>2. ASSUME NEW c \in Requests, Breaker!ExecuteClosed(c) \/ Breaker!ExecuteHalfOpen(c)
      PROVE  Breaker!TypeOK'
  <2>1. Counted
    BY <1>2 DEF Breaker!ExecuteClosed, Breaker!ExecuteHalfOpen, Breaker!AdmitProbe
  <2>2. Rest
    BY <1>2 DEF Breaker!ExecuteClosed, Breaker!ExecuteHalfOpen, Breaker!AdmitProbe
  <2> QED BY <2>1, <2>2
<1>3. ASSUME NEW c \in Requests, Breaker!PlainSucceeds(c) \/ Breaker!PlainFails(c)
      PROVE  Breaker!TypeOK'
  <2>1. Counted
    BY <1>3 DEF Breaker!PlainSucceeds, Breaker!PlainFails, Breaker!RecordFailure
  <2>2. Rest
    BY <1>3 DEF Breaker!PlainSucceeds, Breaker!PlainFails
  <2> QED BY <2>1, <2>2
<1>4. ASSUME NEW c \in Requests, Breaker!ProbeSucceeds(c) \/ Breaker!ProbeFails(c)
      PROVE  Breaker!TypeOK'
  <2>1. Counted
    BY <1>4 DEF Breaker!ProbeSucceeds, Breaker!ProbeFails, Breaker!RecordFailure
  <2>2. Rest
    BY <1>4 DEF Breaker!ProbeSucceeds, Breaker!ProbeFails
  <2> QED BY <2>1, <2>2
<1>5. CASE UNCHANGED Breaker!vars
  BY <1>5 DEF Breaker!vars
<1>6. CASE Breaker!ProbeThrows
  <2>1. Counted
    BY <1>6 DEF Breaker!ProbeThrows, Breaker!AdmitProbe
  <2>2. Rest
    BY <1>6 DEF Breaker!ProbeThrows, Breaker!AdmitProbe
  <2> QED BY <2>1, <2>2
<1> QED BY <1>1, <1>2, <1>3, <1>4, <1>5, <1>6 DEF Breaker!Next

(* Only a new probe takes a slot or a function that throws leaks one, a    *)
(* probe that ends gives one back, and a breaker that changes its state    *)
(* has none taken.                                                         *)
LEMMA SlotsStep ==
  ASSUME Breaker!BreakerAssumption, SlotsInv, [Breaker!Next]_(Breaker!vars)
  PROVE  Accounted'
<1> USE DEF SlotsInv, Accounted, Breaker!TransitionToOpen, Breaker!TransitionToClosed,
        Breaker!AdmitProbe
<1>0. inflight \in Int /\ leaked \in Nat
  BY DEF Breaker!TypeOK
<1>1. CASE /\ UNCHANGED request
           /\ \/ inflight' = 0 /\ leaked' = 0
              \/ inflight' = 1 /\ leaked' = 1
              \/ inflight' = inflight /\ leaked' = leaked
              \/ inflight' = inflight + 1 /\ leaked' = leaked + 1
  <2>1. Breaker!Probes' = Breaker!Probes
    BY <1>1 DEF Breaker!Probes
  <2>2. IsFiniteSet(Breaker!Probes)
    BY BreakerSize, FS_Subset DEF Breaker!BreakerAssumption, Breaker!Probes
  <2>3. Cardinality(Breaker!Probes) \in Nat
    BY <2>2, FS_CardinalityType
  <2> HIDE DEF Breaker!Probes
  <2> QED BY <1>0, <1>1, <2>1, <2>3
<1>2. ASSUME NEW c \in Requests, Breaker!ExecuteClosed(c) \/ Breaker!PlainSucceeds(c)
      PROVE  Accounted'
  BY <1>0, <1>2, ProbesAfter DEF Breaker!ExecuteClosed, Breaker!PlainSucceeds
<1>3. ASSUME NEW c \in Requests, Breaker!ExecuteHalfOpen(c)
      PROVE  Accounted'
  <2>1. Cardinality(Breaker!Probes') = Cardinality(Breaker!Probes) + 1
    BY <1>3, ProbesAfter DEF Breaker!ExecuteHalfOpen
  <2>2. Cardinality(Breaker!Probes) \in Nat
    BY <1>3, ProbesAfter DEF Breaker!ExecuteHalfOpen
  <2>3. \/ inflight' = 1 /\ leaked' = 0
        \/ inflight' = inflight + 1 /\ leaked' = leaked
    BY <1>0, <1>3 DEF Breaker!ExecuteHalfOpen
  <2> QED BY <1>0, <2>1, <2>2, <2>3
<1>4. ASSUME NEW c \in Requests, Breaker!PlainFails(c)
      PROVE  Accounted'
  <2>1. Breaker!Probes' = Breaker!Probes /\ Cardinality(Breaker!Probes) \in Nat
    <3>1. request[c] = "plain" /\ request' = [request EXCEPT ![c] = "idle"]
      BY <1>4 DEF Breaker!PlainFails
    <3>2. request[c] # "probe" /\ "idle" # "probe"
      BY <3>1
    <3>3. Breaker!Probes' = Breaker!Probes
      BY <3>1, <3>2, ProbesAfter
    <3> QED BY <3>1, <3>3, ProbesAfter
  <2>2. \/ inflight' = 0 /\ leaked' = 0
        \/ inflight' = inflight /\ leaked' = leaked
    BY <1>4 DEF Breaker!PlainFails
  <2> QED BY <1>0, <2>1, <2>2
<1>5. ASSUME NEW c \in Requests, Breaker!ProbeSucceeds(c) \/ Breaker!ProbeFails(c)
      PROVE  Accounted'
  <2>1. /\ Cardinality(Breaker!Probes') = Cardinality(Breaker!Probes) - 1
        /\ Cardinality(Breaker!Probes) \in Nat /\ Cardinality(Breaker!Probes') \in Nat
    BY <1>5, ProbesAfter DEF Breaker!ProbeSucceeds, Breaker!ProbeFails
  <2>2. \/ inflight' = 0 /\ leaked' = 0
        \/ inflight' = inflight - 1 /\ leaked' = leaked
    BY <1>5 DEF Breaker!ProbeSucceeds, Breaker!ProbeFails
  <2> QED BY <1>0, <2>1, <2>2
<1>6. CASE Breaker!TimePasses \/ Breaker!Recover \/ Breaker!Trip \/ Breaker!Reset
           \/ Breaker!ProbeThrows \/ UNCHANGED Breaker!vars
  BY <1>0, <1>1, <1>6 DEF Breaker!ProbeThrows, Breaker!TimePasses, Breaker!Recover, Breaker!Trip, Breaker!Reset, Breaker!vars
<1> QED BY <1>2, <1>3, <1>4, <1>5, <1>6 DEF Breaker!Next

(* A step of the whole is a step of the breaker, or changes nothing of     *)
(* its.                                                                    *)
LEMMA BreakerAlone == [Next]_vars => [Breaker!Next]_(Breaker!vars)
<1> SUFFICES ASSUME [Next]_vars PROVE [Breaker!Next]_(Breaker!vars)
  OBVIOUS
<1>1. CASE BreakerMoves
  BY <1>1 DEF BreakerMoves
<1>2. UNCHANGED breakerVars => UNCHANGED Breaker!vars
  BY DEF breakerVars, Breaker!vars
<1>3. ASSUME UNCHANGED vars \/ PoolMoves \/ LinkedMoves \/ CacheMoves \/ AgentsMove
             \/ PrivateMoves \/ ModelsMove \/ SwarmMoves \/ BrowserMoves \/ NipMoves
      PROVE  UNCHANGED breakerVars
  BY <1>3 DEF vars, PoolMoves, LinkedMoves, CacheMoves, AgentsMove, PrivateMoves, ModelsMove,
      SwarmMoves, BrowserMoves, NipMoves
<1> QED BY <1>1, <1>2, <1>3 DEF Next

(* The types, and that slots taken are accounted for.                      *)
LEMMA SlotsInvariant == Spec => []SlotsInv
<1>1. Breaker!BreakerAssumption
  BY ServicesAssumption
<1>2. Init => SlotsInv
  <2> SUFFICES ASSUME Init PROVE SlotsInv
    OBVIOUS
  <2>1. Breaker!TypeOK /\ inflight = 0 /\ leaked = 0 /\ Breaker!Probes = {}
    <3>1. 0 \in 0 .. FailureThreshold /\ 0 \in 0 .. SuccessThreshold - 1
      BY <1>1 DEF Breaker!BreakerAssumption
    <3>2. /\ state = "CLOSED" /\ timedOut = FALSE
          /\ failures = 0 /\ successes = 0 /\ inflight = 0 /\ leaked = 0
          /\ request = [c \in Requests |-> "idle"]
      BY DEF Init, Breaker!Init
    <3>3. timedOut \in BOOLEAN
      BY <3>2
    <3> QED BY <3>1, <3>2, <3>3 DEF Breaker!TypeOK, Breaker!Probes
  <2> QED BY <2>1, FS_EmptySet DEF SlotsInv, Accounted
<1>3. SlotsInv /\ [Next]_vars => SlotsInv'
  BY <1>1, BreakerAlone, BreakerTypeStep, SlotsStep DEF SlotsInv
<1> QED BY <1>2, <1>3, PTL DEF Spec

(* A slot that counts as taken is held by a probe that will end or was     *)
(* leaked by a function that threw, whatever probes of earlier periods,    *)
(* trips and resets come between.                                          *)
THEOREM TakenSlotsAccounted == Spec => []SlotsAccounted
<1>1. SlotsInv => SlotsAccounted
  BY BreakerSize DEF SlotsInv, Accounted, SlotsAccounted, Breaker!SlotsAccounted
<1> QED BY <1>1, SlotsInvariant, PTL

-----------------------------------------------------------------------------
(* The response cache. *)

(* The list without some keys holds only others of its keys.               *)
LEMMA WithoutLeaves ==
  ASSUME NEW S, NEW s \in Seq(S), NEW gone
  PROVE  Cache!Lru!Without(s, gone) \in Seq({s[i] : i \in 1 .. Len(s)} \ gone)
<1> DEFINE After(it, i) == IF i = 0 THEN <<>>
                           ELSE IF s[i] \in gone THEN it[i - 1] ELSE Append(it[i - 1], s[i])
           kept == CHOOSE it : it = [i \in 0 .. Len(s) |-> After(it, i)]
           Good == {n \in Nat : n <= Len(s) => \E it : it = [i \in 0 .. n |-> After(it, i)]}
           Left == {s[i] : i \in 1 .. Len(s)} \ gone
           Right == {n \in Nat : n <= Len(s) => kept[n] \in Seq(Left)}
<1>0. Len(s) \in Nat
  OBVIOUS
<1>1. 0 \in Good
  <2> DEFINE it == [i \in 0 .. 0 |-> <<>>]
  <2>1. it = [i \in 0 .. 0 |-> After(it, i)]
    OBVIOUS
  <2> QED BY <2>1
<1>2. ASSUME NEW n \in Nat, n \in Good PROVE n + 1 \in Good
  <2> SUFFICES ASSUME n + 1 <= Len(s)
               PROVE  \E it : it = [i \in 0 .. n + 1 |-> After(it, i)]
    <3>1. n + 1 \in Nat
      OBVIOUS
    <3> HIDE DEF After
    <3> QED BY <3>1
  <2>1. PICK it : it = [i \in 0 .. n |-> After(it, i)]
    BY <1>0, <1>2
  <2> DEFINE more == [i \in 0 .. n + 1 |-> After(it, i)]
  <2>2. \A i \in 0 .. n : more[i] = it[i]
    <3> SUFFICES ASSUME NEW i \in 0 .. n PROVE more[i] = it[i]
      OBVIOUS
    <3>1. i \in 0 .. n + 1
      OBVIOUS
    <3>2. it[i] = After(it, i)
      BY <2>1
    <3> HIDE DEF After
    <3> QED BY <3>1, <3>2
  <2>3. ASSUME NEW i \in 0 .. n + 1 PROVE After(it, i) = After(more, i)
    <3>1. CASE i = 0
      BY <3>1
    <3>2. CASE i # 0
      <4>1. i - 1 \in 0 .. n
        BY <3>2
      <4>2. more[i - 1] = it[i - 1]
        BY <2>2, <4>1
      <4> HIDE DEF more
      <4> QED BY <3>2, <4>2
    <3> QED BY <3>1, <3>2
  <2>4. more = [i \in 0 .. n + 1 |-> After(more, i)]
    BY <2>3
  <2> HIDE DEF more
  <2> QED BY <2>4
<1>3. \E it : it = [i \in 0 .. Len(s) |-> After(it, i)]
  <2>1. Nat \subseteq Good
    <3> HIDE DEF Good
    <3> QED BY <1>1, <1>2, EveryNatural
  <2>2. Len(s) \in Good
    BY <1>0, <2>1
  <2> HIDE DEF After
  <2> QED BY <2>2
<1>4. kept = [i \in 0 .. Len(s) |-> After(kept, i)]
  BY <1>3
<1> HIDE DEF kept
<1>5. 0 \in Right
  BY <1>0, <1>4
<1>6. ASSUME NEW n \in Nat, n \in Right PROVE n + 1 \in Right
  <2> SUFFICES ASSUME n + 1 <= Len(s) PROVE kept[n + 1] \in Seq(Left)
    OBVIOUS
  <2>1. kept[n] \in Seq(Left) /\ n + 1 \in 0 .. Len(s) /\ n + 1 \in 1 .. Len(s)
    BY <1>0, <1>6
  <2>2. kept[n + 1] = IF s[n + 1] \in gone THEN kept[n] ELSE Append(kept[n], s[n + 1])
    <3>1. kept[n + 1] = After(kept, n + 1)
      BY <1>4, <2>1
    <3>2. n + 1 # 0 /\ (n + 1) - 1 = n
      OBVIOUS
    <3> QED BY <3>1, <3>2
  <2>3. s[n + 1] \notin gone => s[n + 1] \in Left
    BY <2>1
  <2> HIDE DEF Left
  <2> QED BY <2>1, <2>2, <2>3
<1>7. kept[Len(s)] \in Seq(Left)
  <2>1. Nat \subseteq Right
    <3> HIDE DEF Right
    <3> QED BY <1>5, <1>6, EveryNatural
  <2> QED BY <1>0, <2>1
<1>8. Cache!Lru!Without(s, gone) = kept[Len(s)]
  BY DEF Cache!Lru!Without, kept
<1> QED BY <1>7, <1>8

-----------------------------------------------------------------------------
(* A tier of the cache, all its keys counted whether held or not.          *)
CacheBytes(t) == SumFunctionOnSet(t.bytes, CacheKeys)

(* A tier: its list, and what each key and the whole count.                *)
Tier == [lru : Seq(CacheKeys), bytes : [CacheKeys -> Nat], perKey : [CacheKeys -> Nat],
         expired : SUBSET CacheKeys, total : Int]

(* The total covers all bytes; bytesPerKey may be off for what is not held.*)
TierOK(t) ==
  /\ t \in Tier
  /\ CacheBytes(t) <= t.total
  /\ \A k \in Cache!Held(t) : t.perKey[k] = t.bytes[k]

(* A tier counts what it holds, and neither counts much beyond the budget. *)
CacheInv ==
  /\ TierOK(exact) /\ TierOK(semantic) /\ warmed \in Nat
  /\ CacheBytes(exact) + CacheBytes(semantic) < High + (2 + warmed) * Cache!Max(Sizes)

(* The instance of the cache has its own names for sums and sizes.         *)
LEMMA CacheSums ==
  ASSUME NEW t, NEW S
  PROVE  /\ Cache!Resident(t) = SumFunctionOnSet(t.bytes, Cache!Held(t))
         /\ Cache!MapThenSumSet(LAMBDA k : t.bytes[k], S) = SumFunctionOnSet(t.bytes, S)
         /\ Cache!MapThenSumSet(LAMBDA k : t.perKey[k], S) = SumFunctionOnSet(t.perKey, S)
         /\ Cache!IsFiniteSet(S) <=> IsFiniteSet(S)
<1>1. Cache!Resident(t) = SumFunctionOnSet(t.bytes, Cache!Held(t))
  BY DEF Cache!Resident, Cache!MapThenSumSet, Cache!MapThenFoldSet, SumFunctionOnSet,
         FoldFunctionOnSet, MapThenFoldSet
<1>2. Cache!MapThenSumSet(LAMBDA k : t.bytes[k], S) = SumFunctionOnSet(t.bytes, S)
  BY DEF Cache!MapThenSumSet, Cache!MapThenFoldSet, SumFunctionOnSet,
         FoldFunctionOnSet, MapThenFoldSet
<1>3. Cache!MapThenSumSet(LAMBDA k : t.perKey[k], S) = SumFunctionOnSet(t.perKey, S)
  BY DEF Cache!MapThenSumSet, Cache!MapThenFoldSet, SumFunctionOnSet,
         FoldFunctionOnSet, MapThenFoldSet
<1>4. Cache!IsFiniteSet(S) <=> IsFiniteSet(S)
  BY DEF Cache!IsFiniteSet, IsFiniteSet
<1> QED BY <1>1, <1>2, <1>3, <1>4

(* The keys a tier holds are those of its list.                            *)
LEMMA HeldKeys ==
  ASSUME NEW t
  PROVE  Cache!Held(t) = {t.lru[i] : i \in DOMAIN t.lru}
BY DEF Cache!Held, Cache!ToSet

(* A finite set of numbers has a largest.                                  *)
LEMMA Largest ==
  ASSUME NEW S \in SUBSET Nat, IsFiniteSet(S), S # {}
  PROVE  /\ Cache!Max(S) \in S
         /\ \A y \in S : y <= Cache!Max(S)
<1> DEFINE Good == {T \in SUBSET S : T = {} \/ \E m \in T : \A y \in T : m >= y}
<1>1. {} \in Good
  OBVIOUS
<1>2. ASSUME NEW T \in SUBSET S, NEW x \in S, T \in Good, x \notin T
      PROVE  T \cup {x} \in Good
  <2>1. CASE T = {}
    <3>1. \A y \in T \cup {x} : x >= y
      BY <2>1
    <3> QED BY <3>1
  <2>2. CASE T # {}
    <3>1. PICK m \in T : \A y \in T : m >= y
      BY <1>2, <2>2
    <3>2. CASE m >= x
      <4>1. m \in T \cup {x} /\ \A y \in T \cup {x} : m >= y
        BY <3>1, <3>2
      <4> QED BY <4>1
    <3>3. CASE ~(m >= x)
      <4>1. m \in Nat /\ x \in Nat /\ \A y \in T : y \in Nat
        OBVIOUS
      <4>2. x \in T \cup {x} /\ \A y \in T \cup {x} : x >= y
        BY <3>1, <3>3, <4>1
      <4> QED BY <4>2
    <3> QED BY <3>2, <3>3
  <2> QED BY <2>1, <2>2
<1>3. S \in Good
  <2> HIDE DEF Good
  <2> QED BY <1>1, <1>2, EveryPart
<1>4. \E m \in S : \A y \in S : m >= y
  BY <1>3
<1>5. Cache!Max(S) \in S /\ \A y \in S : Cache!Max(S) >= y
  BY <1>4 DEF Cache!Max
<1> QED BY <1>5

(* There are finitely many keys.                                           *)
LEMMA FiniteKeys ==
  ASSUME Cache!CacheAssumption
  PROVE  IsFiniteSet(CacheKeys)
BY CacheSums DEF Cache!CacheAssumption

(* What a tier holds is no more than all its keys count.                   *)
LEMMA TierSums ==
  ASSUME Cache!CacheAssumption, NEW t \in Tier
  PROVE  /\ CacheBytes(t) \in Nat
         /\ \A S \in SUBSET CacheKeys : SumFunctionOnSet(t.bytes, S) \in Nat
         /\ Cache!Held(t) \subseteq CacheKeys
         /\ Cache!Resident(t) <= CacheBytes(t)
<1>1. IsFiniteSet(CacheKeys) /\ \A k \in CacheKeys : t.bytes[k] \in Nat
  BY FiniteKeys DEF Tier
<1>2. Cache!Held(t) \subseteq CacheKeys
  BY HeldKeys DEF Tier
<1>3. CacheBytes(t) \in Nat /\ \A D \in SUBSET CacheKeys :
        SumFunctionOnSet(t.bytes, D) <= SumFunctionOnSet(t.bytes, CacheKeys)
  BY <1>1, SumOfNaturals DEF CacheBytes
<1>4. ASSUME NEW D \in SUBSET CacheKeys PROVE SumFunctionOnSet(t.bytes, D) \in Nat
  <2>1. IsFiniteSet(D)
    BY <1>1, FS_Subset
  <2> QED BY <1>1, <2>1, SumOfNaturals
<1>5. Cache!Resident(t) <= CacheBytes(t)
  BY <1>2, <1>3, CacheSums DEF CacheBytes
<1> QED BY <1>2, <1>3, <1>4, <1>5

-----------------------------------------------------------------------------
(* A cleared tier counts nothing, whatever bytesPerKey it keeps.           *)
LEMMA EmptyTier ==
  ASSUME Cache!CacheAssumption, NEW old \in [CacheKeys -> Nat]
  PROVE  /\ TierOK(Cache!Empty) /\ CacheBytes(Cache!Empty) = 0
         /\ TierOK([Cache!Empty EXCEPT !.perKey = old])
         /\ CacheBytes([Cache!Empty EXCEPT !.perKey = old]) = 0
<1>1. ASSUME NEW t \in Tier, t.lru = <<>>, \A k \in CacheKeys : t.bytes[k] = 0, t.total = 0
      PROVE  TierOK(t) /\ CacheBytes(t) = 0
  <2>1. CacheBytes(t) = 0
    BY <1>1, FiniteKeys, SumZero DEF CacheBytes
  <2>2. Cache!Held(t) = {}
    BY <1>1, HeldKeys
  <2> QED BY <1>1, <2>1, <2>2 DEF TierOK
<1>2. /\ Cache!Empty \in Tier /\ Cache!Empty.lru = <<>> /\ Cache!Empty.total = 0
      /\ \A k \in CacheKeys : Cache!Empty.bytes[k] = 0
  BY DEF Cache!Empty, Tier
<1>3. TierOK(Cache!Empty) /\ CacheBytes(Cache!Empty) = 0
  BY <1>1, <1>2
<1> DEFINE left == [Cache!Empty EXCEPT !.perKey = old]
<1>4. left \in Tier /\ left.lru = <<>> /\ left.total = 0 /\ \A k \in CacheKeys : left.bytes[k] = 0
  <2>1. \A t \in Tier : LET u == [t EXCEPT !.perKey = old]
                       IN  /\ u \in Tier /\ u.lru = t.lru /\ u.total = t.total
                           /\ u.bytes = t.bytes
    BY DEF Tier
  <2> QED BY <1>2, <2>1
<1> HIDE DEF left
<1>5. TierOK(left) /\ CacheBytes(left) = 0
  BY <1>1, <1>4
<1> QED BY <1>3, <1>5 DEF left

(* A use changes the order only.                                           *)
LEMMA TouchedTier ==
  ASSUME NEW t, TierOK(t), NEW k \in CacheKeys, t.perKey[k] = t.bytes[k]
  PROVE  TierOK(Cache!Touched(t, k)) /\ CacheBytes(Cache!Touched(t, k)) = CacheBytes(t)
<1> DEFINE s == Cache!Lru!Without(t.lru, {k})
           u == Cache!Touched(t, k)
<1>0. t \in Tier /\ t.lru \in Seq(CacheKeys)
  BY DEF TierOK, Tier
<1>1. s \in Seq({t.lru[i] : i \in 1 .. Len(t.lru)} \ {k})
  BY <1>0, WithoutLeaves
<1>2. u = [t EXCEPT !.lru = <<k>> \o s]
  BY DEF Cache!Touched, Cache!Lru!Used
<1>3. \A i \in 1 .. Len(t.lru) : t.lru[i] \in CacheKeys /\ t.lru[i] \in Cache!Held(t)
  BY <1>0, HeldKeys
<1> HIDE DEF s
<1>4. /\ <<k>> \o s \in Seq(CacheKeys)
      /\ \A i \in DOMAIN (<<k>> \o s) : (<<k>> \o s)[i] = k \/ (<<k>> \o s)[i] \in Cache!Held(t)
  <2>1. s \in Seq(CacheKeys) /\ \A i \in 1 .. Len(s) : s[i] \in Cache!Held(t)
    BY <1>1, <1>3
  <2>2. \A i \in DOMAIN (<<k>> \o s) : \/ (<<k>> \o s)[i] = k
                                     \/ \E j \in 1 .. Len(s) : (<<k>> \o s)[i] = s[j]
    BY <2>1
  <2> QED BY <2>1, <2>2
<1>5. u \in Tier /\ u.lru = <<k>> \o s /\ u.bytes = t.bytes /\ u.perKey = t.perKey /\ u.total = t.total
  BY <1>0, <1>2, <1>4 DEF Tier
<1> HIDE DEF u
<1>6. \A x \in Cache!Held(u) : x = k \/ x \in Cache!Held(t)
  BY <1>4, <1>5, HeldKeys
<1> QED BY <1>5, <1>6 DEF TierOK, CacheBytes, u

(* An entry that expires is held and counted until it is removed.          *)
LEMMA ExpiredTier ==
  ASSUME NEW t, TierOK(t), NEW k \in CacheKeys, NEW u, u = [t EXCEPT !.expired = @ \cup {k}]
  PROVE  TierOK(u) /\ CacheBytes(u) = CacheBytes(t)
<1>1. u \in Tier /\ u.lru = t.lru /\ u.bytes = t.bytes /\ u.perKey = t.perKey /\ u.total = t.total
  BY DEF TierOK, Tier
<1>2. Cache!Held(u) = Cache!Held(t)
  BY <1>1, HeldKeys
<1> QED BY <1>1, <1>2 DEF TierOK, CacheBytes

(* A sweep takes off the total what the entries it removes counted.        *)
LEMMA SweptTier ==
  ASSUME Cache!CacheAssumption, NEW t, TierOK(t), NEW gone \in SUBSET CacheKeys
  PROVE  /\ TierOK(Cache!Swept(t, gone))
         /\ CacheBytes(Cache!Swept(t, gone)) <= CacheBytes(t)
         /\ Cache!Swept(t, gone).bytes = [k \in CacheKeys |-> IF k \in gone THEN 0 ELSE t.bytes[k]]
         /\ Cache!Swept(t, gone).perKey = t.perKey
<1> DEFINE s == Cache!Lru!Without(t.lru, gone)
           u == Cache!Swept(t, gone)
           held == SumFunctionOnSet(t.bytes, gone)
           bytes == [k \in CacheKeys |-> IF k \in gone THEN 0 ELSE t.bytes[k]]
<1>0. /\ t \in Tier /\ t.lru \in Seq(CacheKeys) /\ IsFiniteSet(CacheKeys)
      /\ \A k \in CacheKeys : t.bytes[k] \in Nat
  BY FiniteKeys DEF TierOK, Tier
<1>1. u = [t EXCEPT !.lru = s, !.bytes = bytes, !.expired = t.expired \ gone, !.total = @ - held]
  <2>1. Cache!MapThenSumSet(LAMBDA k : t.bytes[k], gone) = held
    BY CacheSums
  <2> QED BY <2>1 DEF Cache!Swept
<1>2. s \in Seq({t.lru[i] : i \in 1 .. Len(t.lru)} \ gone)
  BY <1>0, WithoutLeaves
<1>3. /\ s \in Seq(CacheKeys)
      /\ \A i \in DOMAIN s : s[i] \in Cache!Held(t) /\ s[i] \notin gone
  <2>1. \A i \in 1 .. Len(t.lru) : t.lru[i] \in CacheKeys /\ t.lru[i] \in Cache!Held(t)
    BY <1>0, HeldKeys
  <2> HIDE DEF s
  <2> QED BY <1>2, <2>1
<1>4. held \in Nat /\ held \in Int /\ bytes \in [CacheKeys -> Nat]
  <2>1. held \in Nat
    BY <1>0, TierSums
  <2>2. bytes \in [CacheKeys -> Nat]
    BY <1>0
  <2> HIDE DEF held
  <2> QED BY <2>1, <2>2
<1> HIDE DEF s, held
<1>5. /\ u \in Tier /\ u.lru = s /\ u.bytes = bytes /\ u.perKey = t.perKey
      /\ u.total = t.total - held
  <2> HIDE DEF bytes
  <2>1. t.expired \ gone \in SUBSET CacheKeys /\ t.total - held \in Int
    BY <1>0, <1>4 DEF Tier
  <2> HIDE DEF u
  <2> QED BY <1>0, <1>1, <1>3, <1>4, <2>1 DEF Tier
<1>6. CacheBytes(u) = CacheBytes(t) - held
  <2>1. SumFunctionOnSet(t.bytes, CacheKeys) = held + SumFunctionOnSet(t.bytes, CacheKeys \ gone)
    <3>1. \A k \in CacheKeys : t.bytes[k] \in Int
      BY <1>0
    <3> QED BY <1>0, <3>1, SumSplit DEF held
  <2>2. SumFunctionOnSet(bytes, CacheKeys) = SumFunctionOnSet(t.bytes, CacheKeys \ gone)
    <3> DEFINE rest == CacheKeys \ gone
    <3>1. /\ rest \in SUBSET CacheKeys
          /\ \A k \in rest : t.bytes[k] \in Int /\ bytes[k] = t.bytes[k]
          /\ \A k \in CacheKeys \ rest : bytes[k] = 0
      BY <1>0
    <3> HIDE DEF bytes, rest
    <3>2. SumFunctionOnSet(bytes, CacheKeys) = SumFunctionOnSet(t.bytes, rest)
      BY <1>0, <3>1, SumMasked
    <3> QED BY <3>2 DEF rest
  <2>3. SumFunctionOnSet(t.bytes, CacheKeys \ gone) \in Int
    <3>1. CacheKeys \ gone \in SUBSET CacheKeys
      OBVIOUS
    <3>2. SumFunctionOnSet(t.bytes, CacheKeys \ gone) \in Nat
      BY <1>0, <3>1, TierSums
    <3> QED BY <3>2
  <2> HIDE DEF bytes, u
  <2> QED BY <1>4, <1>5, <2>1, <2>2, <2>3 DEF CacheBytes
<1>7. CacheBytes(t) \in Nat /\ CacheBytes(t) <= t.total /\ t.total \in Int
  BY <1>0, TierSums DEF TierOK, Tier
<1>8. \A k \in Cache!Held(u) : u.perKey[k] = u.bytes[k]
  <2> SUFFICES ASSUME NEW k \in Cache!Held(u) PROVE u.perKey[k] = u.bytes[k]
    OBVIOUS
  <2> HIDE DEF u
  <2>1. k \in Cache!Held(t) /\ k \notin gone
    BY <1>3, <1>5, HeldKeys
  <2>2. k \in CacheKeys
    BY <1>0, <2>1, TierSums
  <2> QED BY <1>5, <2>1, <2>2 DEF TierOK
<1> HIDE DEF u, bytes
<1>9. TierOK(u) /\ CacheBytes(u) <= CacheBytes(t) /\ u.bytes = bytes /\ u.perKey = t.perKey
  BY <1>4, <1>5, <1>6, <1>7, <1>8 DEF TierOK
<1> QED BY <1>9 DEF u, bytes

(* The total is never pushed below zero.                                   *)
LEMMA LargerOfTwo ==
  ASSUME NEW a \in Int
  PROVE  Cache!Max({0, a}) \in Int /\ Cache!Max({0, a}) >= a
<1>1. \E x \in {0, a} : \A y \in {0, a} : x >= y
  <2>1. CASE a >= 0
    BY <2>1
  <2>2. CASE ~(a >= 0)
    BY <2>2
  <2> QED BY <2>1, <2>2
<1>2. Cache!Max({0, a}) \in {0, a} /\ \A y \in {0, a} : Cache!Max({0, a}) >= y
  BY <1>1 DEF Cache!Max
<1> QED BY <1>2

(* A stored answer adds its bytes at most, whatever it replaces or evicts. *)
LEMMA StoredTier ==
  ASSUME Cache!CacheAssumption, NEW t, TierOK(t), NEW k \in CacheKeys, NEW b \in Nat
  PROVE  /\ TierOK(Cache!Stored(t, k, b))
         /\ CacheBytes(Cache!Stored(t, k, b)) <= CacheBytes(t) + b
<1> DEFINE out == Cache!Lru!Pushed(t.lru, k)
           placed == Cache!Lru!Placed(t.lru, k)
           u == Cache!Stored(t, k, b)
           freed == SumFunctionOnSet(t.perKey, out)
           bytes == [x \in CacheKeys |-> IF x = k THEN b ELSE IF x \in out THEN 0 ELSE t.bytes[x]]
           perKey == [x \in CacheKeys |-> IF x = k THEN b ELSE IF x \in out THEN 0 ELSE t.perKey[x]]
           alone == [x \in CacheKeys |-> IF x = k THEN b ELSE t.bytes[x]]
<1>0. /\ t \in Tier /\ t.lru \in Seq(CacheKeys) /\ IsFiniteSet(CacheKeys)
      /\ \A x \in CacheKeys : t.bytes[x] \in Nat /\ t.perKey[x] \in Nat
      /\ MaxEntries \in Nat \ {0} /\ CacheBytes(t) \in Nat
      /\ CacheBytes(t) <= t.total /\ t.total \in Int
  BY FiniteKeys, TierSums DEF TierOK, Tier, Cache!CacheAssumption
<1>1. /\ Cache!Held(t) \subseteq CacheKeys
      /\ \A i \in 1 .. Len(t.lru) : t.lru[i] \in Cache!Held(t)
  BY <1>0, HeldKeys, TierSums
<1>2. out = {} \/ \E z \in Cache!Held(t) : z # k /\ out = {z}
  <2>1. out = IF k \in Cache!Held(t) \/ Len(t.lru) < MaxEntries THEN {} ELSE {t.lru[Len(t.lru)]}
    BY HeldKeys DEF Cache!Lru!Pushed, Cache!Lru!Range, Cache!Lru!Last
  <2>2. CASE ~(k \in Cache!Held(t) \/ Len(t.lru) < MaxEntries)
    <3>1. Len(t.lru) \in 1 .. Len(t.lru)
      BY <1>0, <2>2
    <3>2. t.lru[Len(t.lru)] \in Cache!Held(t)
      BY <1>1, <3>1
    <3> QED BY <2>1, <2>2, <3>2
  <2> QED BY <2>1, <2>2
<1>3. /\ placed \in Seq(CacheKeys)
      /\ \A i \in DOMAIN placed : placed[i] = k \/ placed[i] \in Cache!Held(t)
  <2>1. ASSUME NEW s \in Seq(Cache!Held(t))
        PROVE  /\ <<k>> \o s \in Seq(CacheKeys)
               /\ \A i \in DOMAIN (<<k>> \o s) :
                    (<<k>> \o s)[i] = k \/ (<<k>> \o s)[i] \in Cache!Held(t)
    <3>1. s \in Seq(CacheKeys) /\ \A i \in 1 .. Len(s) : s[i] \in Cache!Held(t)
      BY <1>1
    <3>2. \A i \in DOMAIN (<<k>> \o s) : \/ (<<k>> \o s)[i] = k
                                       \/ \E j \in 1 .. Len(s) : (<<k>> \o s)[i] = s[j]
      BY <3>1
    <3> QED BY <3>1, <3>2
  <2>2. CASE out = {}
    <3>1. Cache!Lru!Without(t.lru, {k}) \in Seq({t.lru[i] : i \in 1 .. Len(t.lru)} \ {k})
      BY <1>0, WithoutLeaves
    <3>2. Cache!Lru!Without(t.lru, {k}) \in Seq(Cache!Held(t))
      BY <1>1, <3>1
    <3>3. placed = <<k>> \o Cache!Lru!Without(t.lru, {k})
      BY <2>2 DEF Cache!Lru!Placed, Cache!Lru!Used
    <3> HIDE DEF placed
    <3> QED BY <2>1, <3>2, <3>3
  <2>3. CASE out # {}
    <3>1. placed = <<k>> \o SubSeq(t.lru, 1, Len(t.lru) - 1)
      BY <2>3 DEF Cache!Lru!Placed, Cache!Lru!Front
    <3>2. t.lru \in Seq(Cache!Held(t))
      BY <1>0, <1>1
    <3>3. SubSeq(t.lru, 1, Len(t.lru) - 1) \in Seq(Cache!Held(t))
      BY <3>2
    <3> HIDE DEF placed
    <3> QED BY <2>1, <3>1, <3>3
  <2> QED BY <2>2, <2>3
<1>4. u = [lru |-> placed, bytes |-> bytes, perKey |-> perKey,
           expired |-> t.expired \ (out \cup {k}), total |-> Cache!Max({0, t.total - freed}) + b]
  <2>1. Cache!MapThenSumSet(LAMBDA x : t.perKey[x], out) = freed
    BY CacheSums
  <2> QED BY <2>1 DEF Cache!Stored
<1> HIDE DEF placed, u
<1>5. /\ bytes \in [CacheKeys -> Nat] /\ perKey \in [CacheKeys -> Nat]
      /\ alone \in [CacheKeys -> Nat] /\ t.expired \ (out \cup {k}) \in SUBSET CacheKeys
  BY <1>0 DEF Tier
<1>6. SumFunctionOnSet(alone, CacheKeys) = CacheBytes(t) - t.bytes[k] + b
  <2>1. /\ \A x \in CacheKeys : /\ t.bytes[x] \in Int /\ alone[x] \in Int
                                /\ x # k => alone[x] = t.bytes[x]
        /\ alone[k] = b
    BY <1>0
  <2> HIDE DEF alone
  <2> QED BY <1>0, <2>1, SumChange DEF CacheBytes
<1>7. /\ freed \in Nat
      /\ SumFunctionOnSet(bytes, CacheKeys) = SumFunctionOnSet(alone, CacheKeys) - freed
      /\ freed <= CacheBytes(t)
  <2>1. CASE out = {}
    <3>1. freed = 0
      BY <2>1, FS_EmptySet, SumSteps
    <3>2. bytes = alone
      BY <2>1
    <3>3. SumFunctionOnSet(alone, CacheKeys) \in Int
      BY <1>0, <1>6
    <3> HIDE DEF alone, bytes, freed
    <3> QED BY <1>0, <3>1, <3>2, <3>3
  <2>2. CASE \E z \in Cache!Held(t) : z # k /\ out = {z}
    <3>1. PICK z \in Cache!Held(t) : z # k /\ out = {z}
      BY <2>2
    <3>2. z \in CacheKeys /\ t.perKey[z] = t.bytes[z]
      BY <1>1, <3>1 DEF TierOK
    <3>3. freed = t.bytes[z]
      <4>1. IsFiniteSet({z}) /\ t.perKey[z] \in Int /\ {z} \ {z} = {}
        <5>1. IsFiniteSet({z})
          BY FS_Singleton
        <5>2. t.perKey[z] \in Nat
          BY <1>0, <3>2
        <5> QED BY <5>1, <5>2
      <4>2. SumFunctionOnSet(t.perKey, {z}) = t.perKey[z] + SumFunctionOnSet(t.perKey, {z} \ {z})
        BY <4>1, SumTake
      <4>3. SumFunctionOnSet(t.perKey, {}) = 0
        BY FS_EmptySet, SumSteps
      <4> HIDE DEF out
      <4> QED BY <3>1, <3>2, <4>1, <4>2, <4>3
    <3>4. /\ \A x \in CacheKeys : /\ alone[x] \in Int /\ bytes[x] \in Int
                                  /\ x # z => bytes[x] = alone[x]
          /\ bytes[z] = 0 /\ alone[z] = t.bytes[z]
      BY <1>0, <3>1, <3>2
    <3>5. freed <= CacheBytes(t)
      <4>1. \A x \in CacheKeys : t.bytes[x] \in Int
        BY <1>0
      <4>2. CacheBytes(t) = t.bytes[z] + SumFunctionOnSet(t.bytes, CacheKeys \ {z})
        BY <1>0, <3>2, <4>1, SumTake DEF CacheBytes
      <4>3. SumFunctionOnSet(t.bytes, CacheKeys \ {z}) \in Nat
        BY <1>0, TierSums
      <4> HIDE DEF freed
      <4> QED BY <1>0, <3>2, <3>3, <4>2, <4>3
    <3> HIDE DEF alone, bytes, freed
    <3>6. SumFunctionOnSet(bytes, CacheKeys) = SumFunctionOnSet(alone, CacheKeys) - alone[z] + bytes[z]
      BY <1>0, <3>2, <3>4, SumChange
    <3>7. SumFunctionOnSet(alone, CacheKeys) \in Int
      BY <1>0, <1>6
    <3> QED BY <1>0, <3>2, <3>3, <3>4, <3>5, <3>6, <3>7
  <2> QED BY <1>2, <2>1, <2>2
<1>8. /\ Cache!Max({0, t.total - freed}) \in Int
      /\ Cache!Max({0, t.total - freed}) >= t.total - freed
  <2>1. t.total - freed \in Int
    BY <1>0, <1>7
  <2> HIDE DEF freed
  <2> QED BY <2>1, LargerOfTwo
<1>9. \A x \in CacheKeys : x = k \/ x \in Cache!Held(t) => perKey[x] = bytes[x]
  BY DEF TierOK
<1> DEFINE top == Cache!Max({0, t.total - freed})
           exp == t.expired \ (out \cup {k})
<1> HIDE DEF bytes, perKey, alone, freed, exp, top
<1>10. u = [lru |-> placed, bytes |-> bytes, perKey |-> perKey, expired |-> exp, total |-> top + b]
  BY <1>4 DEF exp, top
<1>11. top \in Int /\ top >= t.total - freed /\ exp \in SUBSET CacheKeys
  BY <1>5, <1>8 DEF exp, top
<1>12. /\ u \in Tier /\ u.lru = placed /\ u.bytes = bytes /\ u.perKey = perKey
       /\ u.total = top + b
  BY <1>3, <1>5, <1>10, <1>11 DEF Tier
<1>13. \A x \in Cache!Held(u) : u.perKey[x] = u.bytes[x]
  <2>1. \A x \in Cache!Held(u) : x = k \/ x \in Cache!Held(t)
    BY <1>3, <1>12, HeldKeys
  <2> QED BY <1>1, <1>9, <1>12, <2>1
<1>14. /\ CacheBytes(u) = CacheBytes(t) - t.bytes[k] + b - freed
       /\ t.bytes[k] \in Nat
  BY <1>0, <1>6, <1>7, <1>12 DEF CacheBytes
<1>15. CacheBytes(u) <= u.total /\ CacheBytes(u) <= CacheBytes(t) + b
  <2> DEFINE c == CacheBytes(t)
             d == CacheBytes(u)
  <2>1. /\ c \in Nat /\ c <= t.total /\ t.total \in Int /\ freed \in Nat /\ freed <= c
        /\ top \in Int /\ top >= t.total - freed /\ u.total = top + b
        /\ d = c - t.bytes[k] + b - freed /\ t.bytes[k] \in Nat
    BY <1>0, <1>7, <1>11, <1>12, <1>14
  <2> HIDE DEF c, d
  <2>2. d <= u.total /\ d <= c + b
    BY <2>1
  <2> QED BY <2>2 DEF c, d
<1>16. TierOK(u)
  BY <1>12, <1>13, <1>15 DEF TierOK
<1> QED BY <1>15, <1>16 DEF u

(* Steps after which no tier counts more than it did.                      *)
LEMMA NoMoreBytes ==
  ASSUME Cache!CacheAssumption, CacheInv, TierOK(exact'), TierOK(semantic'), warmed' = warmed,
         CacheBytes(exact') <= CacheBytes(exact), CacheBytes(semantic') <= CacheBytes(semantic)
  PROVE  CacheInv'
<1>1. /\ CacheBytes(exact) \in Nat /\ CacheBytes(semantic) \in Nat
      /\ CacheBytes(exact') \in Nat /\ CacheBytes(semantic') \in Nat
  BY TierSums DEF CacheInv, TierOK
<1>2. Cache!Max(Sizes) \in Nat /\ High \in Nat /\ warmed \in Nat
  BY Largest, CacheSums DEF Cache!CacheAssumption, CacheInv
<1> DEFINE room == High + (2 + warmed) * Cache!Max(Sizes)
<1>3. room \in Int /\ CacheBytes(exact) + CacheBytes(semantic) < room
  BY <1>2 DEF CacheInv
<1>4. CacheBytes(exact') + CacheBytes(semantic') < room
  <2> HIDE DEF room
  <2> QED BY <1>1, <1>3
<1>5. CacheBytes(exact)' = CacheBytes(exact') /\ CacheBytes(semantic)' = CacheBytes(semantic')
      /\ TierOK(exact)' /\ TierOK(semantic)'
  BY DEF CacheBytes, TierOK, Tier
<1> QED BY <1>2, <1>4, <1>5 DEF CacheInv

(* Every operation of the cache keeps the counts.                          *)
LEMMA CacheStep ==
  ASSUME Cache!CacheAssumption, CacheInv, Cache!Next
  PROVE  CacheInv'
<1>0. /\ TierOK(exact) /\ TierOK(semantic) /\ exact \in Tier /\ semantic \in Tier
      /\ exact.perKey \in [CacheKeys -> Nat] /\ semantic.perKey \in [CacheKeys -> Nat]
      /\ exact.expired \subseteq CacheKeys /\ semantic.expired \subseteq CacheKeys
      /\ Cache!Held(exact) \subseteq CacheKeys /\ Cache!Held(semantic) \subseteq CacheKeys
      /\ CacheBytes(exact) \in Nat /\ CacheBytes(semantic) \in Nat
      /\ CacheBytes(exact) <= exact.total /\ CacheBytes(semantic) <= semantic.total
      /\ exact.total \in Int /\ semantic.total \in Int /\ warmed \in Nat
  BY TierSums DEF CacheInv, TierOK, Tier
<1>1. /\ Cache!Max(Sizes) \in Nat /\ High \in Nat \ {0}
      /\ \A b \in Sizes : b \in Nat /\ b <= Cache!Max(Sizes)
  BY Largest, CacheSums DEF Cache!CacheAssumption
<1>2. /\ TierOK(Cache!ExactCleared) /\ CacheBytes(Cache!ExactCleared) = 0
      /\ TierOK(Cache!SemanticCleared) /\ CacheBytes(Cache!SemanticCleared) = 0
  BY <1>0, EmptyTier DEF Cache!ExactCleared, Cache!SemanticCleared
<1>3. ASSUME NEW k \in CacheKeys, Cache!HitExact(k)
      PROVE  CacheInv'
  <2>1. /\ k \in Cache!Held(exact) /\ exact' = Cache!Touched(exact, k)
        /\ semantic' = semantic /\ warmed' = warmed
    BY <1>3 DEF Cache!HitExact
  <2>2. TierOK(exact') /\ CacheBytes(exact') = CacheBytes(exact)
    BY <1>0, <2>1, TouchedTier DEF TierOK
  <2>3. CacheBytes(exact') <= CacheBytes(exact) /\ CacheBytes(semantic') <= CacheBytes(semantic)
    BY <1>0, <2>1, <2>2
  <2> QED BY <1>0, <2>1, <2>2, <2>3, NoMoreBytes
<1>4. ASSUME NEW k \in CacheKeys, Cache!MissExact(k)
      PROVE  CacheInv'
  <2>1. PICK context \in SUBSET Cache!Held(semantic) :
          LET left == Cache!Swept(semantic, context \cap semantic.expired) IN
          \/ semantic' = left
          \/ \E x \in context \ semantic.expired : semantic' = Cache!Touched(left, x)
    BY <1>4 DEF Cache!MissExact
  <2> DEFINE gone == context \cap semantic.expired
             mine == {k} \cap Cache!Held(exact)
             left == Cache!Swept(semantic, gone)
  <2>2. gone \in SUBSET CacheKeys /\ mine \in SUBSET CacheKeys
    BY <1>0
  <2>3. exact' = Cache!Swept(exact, mine) /\ warmed' = warmed
    BY <1>4 DEF Cache!MissExact
  <2>4. TierOK(exact') /\ CacheBytes(exact') <= CacheBytes(exact)
    <3> HIDE DEF mine
    <3> QED BY <1>0, <2>2, <2>3, SweptTier
  <2>5. /\ TierOK(left) /\ CacheBytes(left) <= CacheBytes(semantic)
        /\ left.bytes = [x \in CacheKeys |-> IF x \in gone THEN 0 ELSE semantic.bytes[x]]
        /\ left.perKey = semantic.perKey
    <3> HIDE DEF gone
    <3> QED BY <1>0, <2>2, SweptTier
  <2>6. \/ semantic' = left
        \/ \E x \in context \ semantic.expired : semantic' = Cache!Touched(left, x)
    BY <2>1
  <2>7. ASSUME NEW x \in context \ semantic.expired
        PROVE  x \in CacheKeys /\ left.perKey[x] = left.bytes[x]
    <3>1. x \in CacheKeys /\ x \notin gone /\ semantic.perKey[x] = semantic.bytes[x]
      BY <1>0 DEF TierOK
    <3> HIDE DEF left, gone
    <3> QED BY <2>5, <3>1
  <2> HIDE DEF left
  <2>8. TierOK(semantic') /\ CacheBytes(semantic') <= CacheBytes(semantic)
    <3>1. CASE semantic' = left
      BY <2>5, <3>1
    <3>2. ASSUME NEW x \in context \ semantic.expired, semantic' = Cache!Touched(left, x)
          PROVE  TierOK(semantic') /\ CacheBytes(semantic') <= CacheBytes(semantic)
      BY <2>5, <2>7, <3>2, TouchedTier
    <3> QED BY <2>6, <3>1, <3>2
  <2> QED BY <2>3, <2>4, <2>8, NoMoreBytes
<1>5. ASSUME NEW k \in CacheKeys, NEW x \in CacheKeys, NEW b \in Sizes, Cache!Answer(k, x, b)
      PROVE  CacheInv'
  <2> DEFINE e == Cache!RoomyExact
             m == Cache!RoomySemantic
  <2>1. exact' = Cache!Stored(e, k, b) /\ semantic' = Cache!Stored(m, x, b) /\ warmed' = warmed
    BY <1>5 DEF Cache!Answer
  <2>2. TierOK(e) /\ TierOK(m) /\ CacheBytes(e) \in Nat /\ CacheBytes(m) \in Nat
    <3>1. TierOK(e) /\ TierOK(m)
      BY <1>0, <1>2 DEF Cache!RoomyExact, Cache!RoomySemantic
    <3> HIDE DEF e, m
    <3> QED BY <3>1, TierSums DEF TierOK
  <2>3. CacheBytes(e) + CacheBytes(m) < High
    <3>1. CASE ~Cache!OverBudget
      <4>1. e = exact /\ m = semantic
        BY <3>1 DEF Cache!RoomyExact, Cache!RoomySemantic
      <4>2. ~(exact.total + semantic.total >= High)
        BY <3>1 DEF Cache!OverBudget
      <4> HIDE DEF e, m
      <4>3. CacheBytes(exact) + CacheBytes(semantic) < High
        BY <1>0, <1>1, <4>2
      <4> QED BY <4>1, <4>3
    <3>2. CASE Cache!OverBudget
      <4>1. m = Cache!SemanticCleared
        BY <3>2 DEF Cache!RoomySemantic
      <4>2. CASE exact.total >= High
        <5>1. e = Cache!ExactCleared
          BY <3>2, <4>2 DEF Cache!RoomyExact
        <5> HIDE DEF e, m
        <5>2. CacheBytes(e) = 0 /\ CacheBytes(m) = 0
          BY <1>2, <4>1, <5>1
        <5> QED BY <1>1, <5>2
      <4>3. CASE ~(exact.total >= High)
        <5>1. e = exact
          BY <4>3 DEF Cache!RoomyExact
        <5> HIDE DEF e, m
        <5>2. CacheBytes(e) = CacheBytes(exact) /\ CacheBytes(m) = 0
          BY <1>2, <4>1, <5>1
        <5> QED BY <1>0, <1>1, <4>3, <5>2
      <4> QED BY <4>2, <4>3
    <3> QED BY <3>1, <3>2
  <2> HIDE DEF e, m
  <2>4. /\ TierOK(exact') /\ CacheBytes(exact') <= CacheBytes(e) + b
        /\ TierOK(semantic') /\ CacheBytes(semantic') <= CacheBytes(m) + b
    BY <1>1, <2>1, <2>2, StoredTier
  <2>5. CacheBytes(exact') \in Nat /\ CacheBytes(semantic') \in Nat
    BY <2>4, TierSums DEF TierOK
  <2>6. High + 2 * Cache!Max(Sizes) <= High + (2 + warmed) * Cache!Max(Sizes)
    <3>1. (2 + warmed) * Cache!Max(Sizes) = 2 * Cache!Max(Sizes) + warmed * Cache!Max(Sizes)
      BY <1>0, <1>1
    <3>2. warmed * Cache!Max(Sizes) \in Nat
      BY <1>0, <1>1
    <3> QED BY <1>0, <1>1, <3>1, <3>2
  <2>7. CacheBytes(exact') + CacheBytes(semantic') < High + 2 * Cache!Max(Sizes)
    BY <1>1, <2>2, <2>3, <2>4, <2>5
  <2>8. CacheBytes(exact') + CacheBytes(semantic') < High + (2 + warmed) * Cache!Max(Sizes)
    <3> DEFINE low == High + 2 * Cache!Max(Sizes)
               room == High + (2 + warmed) * Cache!Max(Sizes)
    <3>1. low \in Int /\ room \in Int
      BY <1>0, <1>1
    <3>2. low <= room /\ CacheBytes(exact') + CacheBytes(semantic') < low
      BY <2>6, <2>7
    <3> HIDE DEF low, room
    <3>3. CacheBytes(exact') + CacheBytes(semantic') < room
      BY <2>5, <3>1, <3>2
    <3> QED BY <3>3 DEF room
  <2>9. CacheBytes(exact)' = CacheBytes(exact') /\ CacheBytes(semantic)' = CacheBytes(semantic')
        /\ TierOK(exact)' /\ TierOK(semantic)'
    BY <2>4 DEF CacheBytes, TierOK, Tier
  <2> QED BY <1>0, <2>1, <2>8, <2>9 DEF CacheInv
<1>6. ASSUME NEW k \in CacheKeys, NEW b \in Sizes, Cache!Warm(k, b)
      PROVE  CacheInv'
  <2>1. exact' = Cache!Stored(exact, k, b) /\ semantic' = semantic /\ warmed' = warmed + 1
    BY <1>6 DEF Cache!Warm
  <2>2. TierOK(exact') /\ CacheBytes(exact') <= CacheBytes(exact) + b
    BY <1>0, <1>1, <2>1, StoredTier
  <2>3. CacheBytes(exact') \in Nat
    BY <2>2, TierSums DEF TierOK
  <2>4. High + (2 + (warmed + 1)) * Cache!Max(Sizes)
          = High + (2 + warmed) * Cache!Max(Sizes) + Cache!Max(Sizes)
    BY <1>0, <1>1
  <2>5. CacheBytes(exact') + CacheBytes(semantic) < High + (2 + (warmed + 1)) * Cache!Max(Sizes)
    <3> DEFINE room == High + (2 + warmed) * Cache!Max(Sizes)
               more == High + (2 + (warmed + 1)) * Cache!Max(Sizes)
    <3>1. room \in Int /\ more = room + Cache!Max(Sizes) /\ CacheBytes(exact) + CacheBytes(semantic) < room
      BY <1>0, <1>1, <2>4 DEF CacheInv
    <3> HIDE DEF room, more
    <3>2. CacheBytes(exact') + CacheBytes(semantic) < more
      BY <1>0, <1>1, <2>2, <2>3, <3>1
    <3> QED BY <3>2 DEF more
  <2>6. CacheBytes(exact)' = CacheBytes(exact') /\ CacheBytes(semantic)' = CacheBytes(semantic)
        /\ TierOK(exact)' /\ TierOK(semantic)' /\ warmed' \in Nat
    BY <1>0, <2>1, <2>2 DEF CacheBytes, TierOK, Tier
  <2> QED BY <2>1, <2>5, <2>6 DEF CacheInv
<1>7. ASSUME Cache!Expire
      PROVE  CacheInv'
  <2>1. /\ warmed' = warmed
        /\ \/ \E k \in CacheKeys : /\ exact' = [exact EXCEPT !.expired = @ \cup {k}]
                                    /\ semantic' = semantic
           \/ \E k \in CacheKeys : /\ semantic' = [semantic EXCEPT !.expired = @ \cup {k}]
                                    /\ exact' = exact
    BY <1>0, <1>7 DEF Cache!Expire
  <2>2. /\ TierOK(exact') /\ CacheBytes(exact') = CacheBytes(exact)
        /\ TierOK(semantic') /\ CacheBytes(semantic') = CacheBytes(semantic)
    BY <1>0, <2>1, ExpiredTier
  <2>3. CacheBytes(exact') <= CacheBytes(exact) /\ CacheBytes(semantic') <= CacheBytes(semantic)
    BY <1>0, <2>2
  <2> QED BY <2>1, <2>2, <2>3, NoMoreBytes
<1>8. ASSUME Cache!Sweep
      PROVE  CacheInv'
  <2> DEFINE e == Cache!Swept(exact, exact.expired)
             m == Cache!Swept(semantic, semantic.expired)
  <2>1. /\ TierOK(e) /\ CacheBytes(e) <= CacheBytes(exact)
        /\ TierOK(m) /\ CacheBytes(m) <= CacheBytes(semantic)
    BY <1>0, SweptTier
  <2>2. /\ warmed' = warmed
        /\ exact' = e \/ exact' = Cache!ExactCleared
        /\ semantic' = m \/ semantic' = Cache!SemanticCleared
    BY <1>8 DEF Cache!Sweep
  <2> HIDE DEF e, m
  <2>3. TierOK(exact') /\ TierOK(semantic')
    BY <1>2, <2>1, <2>2
  <2>4. CacheBytes(exact') <= CacheBytes(exact)
    BY <1>0, <1>2, <2>1, <2>2
  <2>5. CacheBytes(semantic') <= CacheBytes(semantic)
    BY <1>0, <1>2, <2>1, <2>2
  <2> QED BY <2>2, <2>3, <2>4, <2>5, NoMoreBytes
<1>9. ASSUME Cache!Clear
      PROVE  CacheInv'
  <2>1. /\ warmed' = warmed
        /\ exact' = exact \/ exact' = Cache!ExactCleared
        /\ semantic' = semantic \/ semantic' = Cache!SemanticCleared
    BY <1>9 DEF Cache!Clear
  <2>2. TierOK(exact') /\ TierOK(semantic')
    BY <1>0, <1>2, <2>1
  <2>3. CacheBytes(exact') <= CacheBytes(exact)
    BY <1>0, <1>2, <2>1
  <2>4. CacheBytes(semantic') <= CacheBytes(semantic)
    BY <1>0, <1>2, <2>1
  <2> QED BY <2>1, <2>2, <2>3, <2>4, NoMoreBytes
<1> QED BY <1>3, <1>4, <1>5, <1>6, <1>7, <1>8, <1>9 DEF Cache!Next

(* Whatever moves, the cache sees its own steps.                           *)
LEMMA CacheAlone == [Next]_vars => [Cache!Next]_(Cache!vars)
<1> SUFFICES ASSUME [Next]_vars PROVE [Cache!Next]_(Cache!vars)
  OBVIOUS
<1>1. CASE CacheMoves
  BY <1>1 DEF CacheMoves
<1>2. UNCHANGED cacheVars => UNCHANGED Cache!vars
  BY DEF cacheVars, Cache!vars
<1>3. ASSUME UNCHANGED vars \/ PoolMoves \/ BreakerMoves \/ LinkedMoves \/ AgentsMove
             \/ PrivateMoves \/ ModelsMove \/ SwarmMoves \/ BrowserMoves \/ NipMoves
      PROVE  UNCHANGED cacheVars
  BY <1>3 DEF vars, PoolMoves, BreakerMoves, LinkedMoves, AgentsMove, PrivateMoves, ModelsMove,
      SwarmMoves, BrowserMoves, NipMoves
<1> QED BY <1>1, <1>2, <1>3 DEF Next

LEMMA CacheInvariant == Spec => []CacheInv
<1>1. Cache!CacheAssumption
  BY ServicesAssumption
<1>2. Init => CacheInv
  <2> SUFFICES ASSUME Init PROVE CacheInv
    OBVIOUS
  <2>1. exact = Cache!Empty /\ semantic = Cache!Empty /\ warmed = 0
    BY DEF Init, Cache!Init
  <2>2. TierOK(Cache!Empty) /\ CacheBytes(Cache!Empty) = 0
    <3>1. [k \in CacheKeys |-> 0] \in [CacheKeys -> Nat]
      OBVIOUS
    <3> QED BY <1>1, <3>1, EmptyTier
  <2>3. High \in Nat \ {0} /\ Cache!Max(Sizes) \in Nat
    BY <1>1, Largest, CacheSums DEF Cache!CacheAssumption
  <2> QED BY <2>1, <2>2, <2>3 DEF CacheInv
<1>3. CacheInv /\ [Next]_vars => CacheInv'
  <2>1. CacheInv /\ UNCHANGED Cache!vars => CacheInv'
    BY DEF CacheInv, CacheBytes, TierOK, Tier, Cache!vars, Cache!Held
  <2> QED BY <1>1, <2>1, CacheAlone, CacheStep
<1> QED BY <1>2, <1>3, PTL DEF Spec

(* What is evicted, expired, overwritten or restored, an entry held is     *)
(* counted, and the tiers stay within the budget and the last answers.     *)
THEOREM CacheKeepsBudget == Spec => []BudgetKept
<1>1. Cache!CacheAssumption
  BY ServicesAssumption
<1>2. CacheInv => BudgetKept
  <2> SUFFICES ASSUME CacheInv PROVE BudgetKept
    OBVIOUS
  <2>1. /\ exact \in Tier /\ semantic \in Tier
        /\ CacheBytes(exact) <= exact.total /\ CacheBytes(semantic) <= semantic.total
        /\ exact.total \in Int /\ semantic.total \in Int
    BY DEF CacheInv, TierOK, Tier
  <2>2. /\ CacheBytes(exact) \in Nat /\ Cache!Resident(exact) <= CacheBytes(exact)
        /\ CacheBytes(semantic) \in Nat /\ Cache!Resident(semantic) <= CacheBytes(semantic)
    BY <1>1, <2>1, TierSums
  <2>3. Cache!Resident(exact) \in Nat /\ Cache!Resident(semantic) \in Nat
    <3>1. \A t \in Tier : Cache!Resident(t) \in Nat
      BY <1>1, TierSums, CacheSums
    <3> QED BY <2>1, <3>1
  <2> DEFINE room == High + (2 + warmed) * Cache!Max(Sizes)
  <2>4. room \in Int /\ CacheBytes(exact) + CacheBytes(semantic) < room
    <3>1. High \in Nat /\ Cache!Max(Sizes) \in Nat /\ warmed \in Nat
      BY <1>1, Largest, CacheSums DEF Cache!CacheAssumption, CacheInv
    <3> QED BY <3>1 DEF CacheInv
  <2> HIDE DEF room
  <2>5. /\ Cache!Resident(exact) <= exact.total /\ Cache!Resident(semantic) <= semantic.total
        /\ Cache!Resident(exact) + Cache!Resident(semantic) < room
    BY <2>1, <2>2, <2>3, <2>4
  <2> QED BY <2>5 DEF BudgetKept, Cache!BudgetKept, room
<1> QED BY <1>2, CacheInvariant, PTL

-----------------------------------------------------------------------------
(* The types of all the components. *)

(* Of the pool, what PoolTypes leaves out.                                 *)
PoolRest ==
  /\ recent \in Seq(Calls) /\ Pool!IsInjective(recent)
  /\ \A c \in Calls : Active(c) => runsIn[c] # None
  /\ closed \subseteq Pool!Sessions /\ reaper \in BOOLEAN
  /\ listed \subseteq Calls /\ cleanups \in 0 .. MaxCleanups /\ poolFaults \in 0 .. MaxPoolFaults

(* The order of use with an object taken out and put last.                 *)
LEMMA TouchKeepsOrder ==
  ASSUME recent \in Seq(Calls), Pool!IsInjective(recent), NEW b \in Calls, Pool!Touch(b)
  PROVE  recent' \in Seq(Calls) /\ Pool!IsInjective(recent')
<1> DEFINE s == recent
           r == Pool!RemoveFirst(s, b)
           t == Append(r, b)
<1>0. s \in Seq(Calls) /\ Len(s) \in Nat /\ \A i, j \in 1 .. Len(s) : s[i] = s[j] => i = j
  BY DEF Pool!IsInjective
<1>1. /\ r \in Seq(Calls) /\ \A i, j \in 1 .. Len(r) : r[i] = r[j] => i = j
      /\ \A j \in 1 .. Len(r) : r[j] # b
  <2>1. CASE ~\E i \in 1 .. Len(s) : s[i] = b
    <3>1. r = s
      BY <2>1 DEF Pool!RemoveFirst
    <3> QED BY <1>0, <2>1, <3>1
  <2>2. CASE \E i \in 1 .. Len(s) : s[i] = b
    <3>1. PICK i \in 1 .. Len(s) : s[i] = b
      BY <2>2
    <3>2. {j \in 1 .. Len(s) : s[j] = b} = {i}
      BY <1>0, <3>1
    <3>3. Pool!Min({i}) = i
      BY <1>0 DEF Pool!Min
    <3>4. r = Skipping(s, i, Len(s))
      <4>1. r = Pool!RemoveAt(s, Pool!Min({i}))
        BY <2>2, <3>2 DEF Pool!RemoveFirst, Pool!SelectInSeq
      <4>2. r = SubSeq(s, 1, i - 1) \o SubSeq(s, i + 1, Len(s))
        BY <3>3, <4>1 DEF Pool!RemoveAt
      <4>3. ~(Len(s) < i)
        BY <1>0
      <4> QED BY <4>2, <4>3 DEF Skipping
    <3>5. /\ r \in Seq(Calls) /\ Len(r) = Len(s) - 1
          /\ \A j \in 1 .. Len(r) : r[j] = IF j < i THEN s[j] ELSE s[j + 1]
      <4>1. i \in 1 .. Len(s) + 1 /\ Len(s) \in 0 .. Len(s) /\ ~(Len(s) < i)
        BY <1>0
      <4> DEFINE q == Skipping(s, i, Len(s))
      <4>2. /\ q \in Seq(Calls) /\ Len(q) = IF Len(s) < i THEN Len(s) ELSE Len(s) - 1
            /\ \A j \in 1 .. Len(q) : q[j] = IF j < i THEN s[j] ELSE s[j + 1]
        <5>1. s \in Seq(Calls)
          BY <1>0
        <5> HIDE DEF s
        <5> QED BY <4>1, <5>1, SkippingIs
      <4> HIDE DEF q
      <4>3. r = q /\ Len(q) = Len(s) - 1
        BY <3>4, <4>1, <4>2 DEF q
      <4> HIDE DEF r
      <4> QED BY <4>2, <4>3
    <3> HIDE DEF r
    <3>6. ASSUME NEW j \in 1 .. Len(r)
          PROVE  \E m \in 1 .. Len(s) : m # i /\ r[j] = s[m] /\ m = IF j < i THEN j ELSE j + 1
      <4>1. CASE j < i
        <5>1. j \in 1 .. Len(s) /\ j # i
          BY <1>0, <3>5, <4>1
        <5> QED BY <3>5, <4>1, <5>1
      <4>2. CASE ~(j < i)
        <5>1. j + 1 \in 1 .. Len(s) /\ j + 1 # i
          BY <1>0, <3>5, <4>2
        <5> QED BY <3>5, <4>2, <5>1
      <4> QED BY <4>1, <4>2
    <3>7. \A j \in 1 .. Len(r) : r[j] # b
      BY <1>0, <3>1, <3>6
    <3>8. ASSUME NEW j \in 1 .. Len(r), NEW m \in 1 .. Len(r), r[j] = r[m] PROVE j = m
      <4>1. (IF j < i THEN j ELSE j + 1) = (IF m < i THEN m ELSE m + 1)
        BY <1>0, <3>6, <3>8
      <4>2. j \in Nat /\ m \in Nat /\ i \in Nat
        OBVIOUS
      <4> QED BY <4>1, <4>2
    <3> QED BY <3>5, <3>7, <3>8
  <2> QED BY <2>1, <2>2
<1> HIDE DEF r
<1>2. /\ t \in Seq(Calls) /\ Len(t) = Len(r) + 1 /\ t[Len(r) + 1] = b
      /\ \A j \in 1 .. Len(r) : t[j] = r[j]
  BY <1>1
<1> HIDE DEF t
<1>3. ASSUME NEW i \in 1 .. Len(t), NEW j \in 1 .. Len(t), t[i] = t[j] PROVE i = j
  <2>1. /\ i \in 1 .. Len(r) \/ i = Len(r) + 1
        /\ j \in 1 .. Len(r) \/ j = Len(r) + 1
    BY <1>1, <1>2
  <2> QED BY <1>1, <1>2, <1>3, <2>1
<1>4. recent' = t
  BY DEF Pool!Touch, t, r
<1>5. DOMAIN t = 1 .. Len(t)
  BY <1>2
<1> QED BY <1>2, <1>3, <1>4, <1>5 DEF Pool!IsInjective

(* Every action of the pool keeps the rest as well: only touching an       *)
(* object changes the order.                                               *)
LEMMA PoolRestStep ==
  ASSUME Pool!PoolAssumption, PoolTypes, PoolRest, [Pool!Next]_(Pool!vars)
  PROVE  PoolRest'
<1> DEFINE Order == recent \in Seq(Calls) /\ Pool!IsInjective(recent)
           Placed == \A c \in Calls : Active(c) => runsIn[c] # None
           Counted == /\ closed \subseteq Pool!Sessions /\ listed \subseteq Calls
                      /\ cleanups \in 0 .. MaxCleanups /\ poolFaults \in 0 .. MaxPoolFaults
<1> USE DEF Pool!owners, Pool!poolVars, Pool!dockerVars, Pool!cleaning
<1>0. /\ Order /\ Placed /\ Counted /\ reaper \in BOOLEAN
      /\ MaxCleanups \in Nat /\ MaxPoolFaults \in Nat /\ None \notin Calls
      /\ call \in [Calls -> {"new", "creating", "running", "done", "failed"}]
      /\ runsIn \in [Calls -> Calls \cup {None}]
  BY DEF PoolRest, PoolTypes, Pool!PoolAssumption
<1>1. ASSUME Order', Placed', Counted', reaper' \in BOOLEAN PROVE PoolRest'
  BY <1>1 DEF PoolRest, Active
<1>2. UNCHANGED recent => Order'
  BY <1>0
<1>3. UNCHANGED <<call, runsIn>> => Placed'
  BY <1>0 DEF Active
<1>4. UNCHANGED <<closed, listed, cleanups, poolFaults>> => Counted'
  BY <1>0
<1>5. UNCHANGED reaper => reaper' \in BOOLEAN
  BY <1>0
<1> HIDE DEF Order
<1>6. ASSUME NEW c \in Calls, Pool!Reuse(c) PROVE PoolRest'
  <2>1. containers[SessionOf[c]] \in Calls
    BY <1>6, TrackedIsCall DEF Pool!Reuse
  <2>2. Order'
    BY <1>6, <2>1, TouchKeepsOrder DEF Pool!Reuse, PoolRest, Order
  <2>3. Placed'
    BY <1>0, <1>6, <2>1 DEF Pool!Reuse, Active
  <2> QED BY <1>1, <1>4, <1>5, <1>6, <2>2, <2>3 DEF Pool!Reuse
<1>7. ASSUME NEW c \in Calls, Pool!JoinCreation(c) PROVE PoolRest'
  <2>1. Placed'
    BY <1>0, <1>7 DEF Pool!JoinCreation, Pool!Creating, Active
  <2> QED BY <1>1, <1>2, <1>4, <1>5, <1>7, <2>1 DEF Pool!JoinCreation
<1>8. ASSUME NEW c \in Calls, Pool!CreateInRoom(c) \/ Pool!CreateEvicting(c) PROVE PoolRest'
  <2>1. PICK evicted : Pool!Create(c, evicted)
    BY <1>8 DEF Pool!CreateInRoom, Pool!CreateEvicting
  <2>2. Order'
    BY <2>1, TouchKeepsOrder DEF Pool!Create, PoolRest, Order
  <2>3. Placed'
    BY <1>0, <2>1 DEF Pool!Create, Active
  <2> QED BY <1>1, <1>4, <1>5, <2>1, <2>2, <2>3 DEF Pool!Create
<1>9. ASSUME NEW c \in Calls, Pool!RefusedByPool(c) PROVE PoolRest'
  <2>1. Placed'
    BY <1>0, <1>9 DEF Pool!RefusedByPool, Active
  <2> QED BY <1>1, <1>2, <1>4, <1>5, <1>9, <2>1 DEF Pool!RefusedByPool
<1>10. ASSUME NEW b \in Calls, Pool!CreateReturns(b) PROVE PoolRest'
  <2>1. Order'
    BY <1>10, TouchKeepsOrder DEF Pool!CreateReturns, PoolRest, Order
  <2>2. Placed'
    BY <1>0, <1>10 DEF Pool!CreateReturns, Pool!WaitingFor, Active
  <2> QED BY <1>1, <1>4, <1>5, <1>10, <2>1, <2>2 DEF Pool!CreateReturns
<1>11. ASSUME NEW b \in Calls, Pool!CreateFails(b) PROVE PoolRest'
  <2>1. Placed'
    BY <1>0, <1>11 DEF Pool!CreateFails, Pool!WaitingFor, Active
  <2>2. Counted'
    BY <1>0, <1>11 DEF Pool!CreateFails
  <2> QED BY <1>1, <1>2, <1>5, <1>11, <2>1, <2>2 DEF Pool!CreateFails
<1>12. ASSUME NEW c \in Calls, Pool!ExecEnds(c) PROVE PoolRest'
  <2>1. Placed'
    BY <1>0, <1>12 DEF Pool!ExecEnds, Active
  <2> QED BY <1>1, <1>2, <1>4, <1>5, <1>12, <2>1 DEF Pool!ExecEnds
<1>13. ASSUME NEW c \in Calls, Pool!DaemonRuns(c) PROVE PoolRest'
  BY <1>1, <1>2, <1>3, <1>4, <1>5, <1>13 DEF Pool!DaemonRuns
<1>14. ASSUME NEW r \in removing, Pool!RemoveReturns(r) \/ Pool!DaemonRemoves(r) PROVE PoolRest'
  <2>1. Counted'
    BY <1>0, <1>14 DEF Pool!RemoveReturns, Pool!DaemonRemoves
  <2> QED BY <1>1, <1>2, <1>3, <1>5, <1>14, <2>1 DEF Pool!RemoveReturns, Pool!DaemonRemoves
<1>15. ASSUME NEW s \in Pool!Sessions, Pool!OwnerDone(s) PROVE PoolRest'
  <2>1. Counted'
    BY <1>0, <1>15 DEF Pool!OwnerDone
  <2> QED BY <1>1, <1>2, <1>3, <1>5, <1>15, <2>1 DEF Pool!OwnerDone
<1>16. CASE Pool!Reap
  BY <1>1, <1>2, <1>3, <1>4, <1>5, <1>16 DEF Pool!Reap
<1>17. CASE Pool!CleanupBegins
  <2>1. Counted'
    BY <1>0, <1>17 DEF Pool!CleanupBegins
  <2>2. reaper' \in BOOLEAN
    BY <1>17 DEF Pool!CleanupBegins
  <2> QED BY <1>1, <1>2, <1>3, <1>17, <2>1, <2>2 DEF Pool!CleanupBegins
<1>18. CASE Pool!CleanupLists \/ Pool!CleanupSweeps
  <2>1. Counted'
    BY <1>0, <1>18 DEF Pool!CleanupLists, Pool!CleanupSweeps
  <2> QED BY <1>1, <1>2, <1>3, <1>5, <1>18, <2>1 DEF Pool!CleanupLists, Pool!CleanupSweeps
<1>19. CASE Pool!Redetect
  <2>1. reaper' \in BOOLEAN
    BY <1>19 DEF Pool!Redetect
  <2> QED BY <1>1, <1>2, <1>3, <1>4, <1>19, <2>1 DEF Pool!Redetect
<1>20. CASE UNCHANGED Pool!vars
  BY <1>1, <1>2, <1>3, <1>4, <1>5, <1>20 DEF Pool!vars
<1> QED BY <1>6, <1>7, <1>8, <1>9, <1>10, <1>11, <1>12, <1>13, <1>14, <1>15, <1>16, <1>17, <1>18,
           <1>19, <1>20 DEF Pool!Next

-----------------------------------------------------------------------------
(* The A2A tasks: one that can be found has been sent, so that a new one   *)
(* is not there yet.                                                       *)
AgentsInv == A2A!TypeOK /\ \A i \in 1 .. Len(registry) : send[registry[i]] # "new"

(* A message sent enters the registry last, and may push the first out.    *)
LEMMA RegistryStep ==
  ASSUME A2A!TaskAssumption, AgentsInv, NEW t \in Tasks, A2A!Send(t)
  PROVE  /\ registry' \in Seq(Tasks) /\ Len(registry') <= MaxTasks
         /\ \A i, j \in 1 .. Len(registry') : registry'[i] = registry'[j] => i = j
         /\ \A i \in 1 .. Len(registry') : registry'[i] = t \/ send[registry'[i]] # "new"
<1> DEFINE s == registry
           longer == Append(s, t)
<1>0. /\ s \in Seq(Tasks) /\ Len(s) \in Nat /\ Len(s) <= MaxTasks /\ MaxTasks \in Nat \ {0}
      /\ \A i, j \in 1 .. Len(s) : s[i] = s[j] => i = j
      /\ \A i \in 1 .. Len(s) : s[i] # t /\ send[s[i]] # "new"
  BY DEF AgentsInv, A2A!TypeOK, A2A!IsInjective, A2A!TaskAssumption, A2A!Send
<1>1. /\ longer \in Seq(Tasks) /\ Len(longer) = Len(s) + 1 /\ longer[Len(s) + 1] = t
      /\ \A i \in 1 .. Len(s) : longer[i] = s[i]
  BY <1>0
<1>2. registry' = IF Len(longer) > MaxTasks THEN Tail(longer) ELSE longer
  BY DEF A2A!Send
<1> HIDE DEF longer
<1>3. /\ \A i, j \in 1 .. Len(longer) : longer[i] = longer[j] => i = j
      /\ \A i \in 1 .. Len(longer) : longer[i] = t \/ send[longer[i]] # "new"
  <2>1. \A i \in 1 .. Len(longer) : i \in 1 .. Len(s) \/ i = Len(s) + 1
    BY <1>0, <1>1
  <2> QED BY <1>0, <1>1, <2>1
<1>4. CASE ~(Len(longer) > MaxTasks)
  <2>1. registry' = longer /\ Len(longer) <= MaxTasks
    BY <1>0, <1>1, <1>2, <1>4
  <2> QED BY <1>1, <1>3, <2>1
<1>5. CASE Len(longer) > MaxTasks
  <2> DEFINE tail == Tail(longer)
  <2>1. /\ tail \in Seq(Tasks) /\ Len(tail) = Len(s)
        /\ \A i \in 1 .. Len(s) : i + 1 \in 1 .. Len(longer) /\ tail[i] = longer[i + 1]
    BY <1>0, <1>1
  <2> HIDE DEF tail
  <2>2. \A i, j \in 1 .. Len(s) : i + 1 = j + 1 => i = j
    BY <1>0
  <2>3. registry' = tail
    BY <1>2, <1>5 DEF tail
  <2> QED BY <1>0, <1>3, <2>1, <2>2, <2>3
<1> QED BY <1>4, <1>5

(* Every action of the A2A tasks keeps their invariant.                    *)
LEMMA AgentsStep ==
  ASSUME A2A!TaskAssumption, AgentsInv, [A2A!Next]_(A2A!vars)
  PROVE  AgentsInv'
<1> DEFINE Registry == /\ registry \in Seq(Tasks) /\ Len(registry) <= MaxTasks
                       /\ \A i, j \in 1 .. Len(registry) : registry[i] = registry[j] => i = j
                       /\ \A i \in 1 .. Len(registry) : send[registry[i]] # "new"
           Rest == /\ task \in [Tasks -> {"none", "working"} \cup A2A!Terminal]
                   /\ send \in [Tasks -> {"new", "waiting", "answered", "error"}]
                   /\ run \in [Tasks -> {"none", "running", "over"}]
                   /\ cancelled \subseteq Tasks
<1>0. /\ registry \in Seq(Tasks) => DOMAIN registry = 1 .. Len(registry)
      /\ registry' \in Seq(Tasks) => DOMAIN registry' = 1 .. Len(registry')
  OBVIOUS
<1>1. Registry /\ Rest
  BY <1>0 DEF AgentsInv, A2A!TypeOK, A2A!IsInjective
<1>2. ASSUME Registry', Rest' PROVE AgentsInv'
  BY <1>0, <1>2 DEF AgentsInv, A2A!TypeOK, A2A!IsInjective
<1>3. ASSUME UNCHANGED registry, \A t \in Tasks : send'[t] = "new" => send[t] = "new"
      PROVE  Registry'
  <2>1. \A i \in 1 .. Len(registry) : registry[i] \in Tasks
    BY <1>1
  <2> QED BY <1>1, <1>3, <2>1
<1>4. ASSUME NEW t \in Tasks, A2A!Send(t) PROVE AgentsInv'
  <2>1. Rest'
    BY <1>1, <1>4 DEF A2A!Send
  <2>2. Registry'
    <3>1. send' = [send EXCEPT ![t] = "waiting"]
      BY <1>4 DEF A2A!Send
    <3>2. \A x \in Tasks : send'[x] = IF x = t THEN "waiting" ELSE send[x]
      BY <1>1, <3>1
    <3>3. registry' \in Seq(Tasks) => \A i \in 1 .. Len(registry') : registry'[i] \in Tasks
      OBVIOUS
    <3> QED BY <1>4, <3>2, <3>3, RegistryStep
  <2> QED BY <1>2, <2>1, <2>2
<1>5. ASSUME NEW t \in Tasks, NEW st \in A2A!Terminal, A2A!Settle(t, st)
      PROVE  /\ task' \in [Tasks -> {"none", "working"} \cup A2A!Terminal]
             /\ send' \in [Tasks -> {"new", "waiting", "answered", "error"}]
             /\ cancelled' \subseteq Tasks /\ Registry'
  <2>1. /\ task' \in [Tasks -> {"none", "working"} \cup A2A!Terminal]
        /\ send' \in [Tasks -> {"new", "waiting", "answered", "error"}]
        /\ cancelled' \subseteq Tasks
        /\ UNCHANGED registry /\ \A x \in Tasks : send'[x] = "new" => send[x] = "new"
    BY <1>1, <1>5 DEF A2A!Settle
  <2> QED BY <1>3, <2>1
<1> HIDE DEF Registry
<1>6. ASSUME NEW t \in Tasks, A2A!RunReports(t) PROVE AgentsInv'
  <2>1. run' \in [Tasks -> {"none", "running", "over"}]
    BY <1>1, <1>6 DEF A2A!RunReports
  <2>2. CASE send[t] = "waiting"
    <3>1. PICK st \in {"completed", "failed"} : A2A!Settle(t, st)
      BY <1>6, <2>2 DEF A2A!RunReports
    <3>2. st \in A2A!Terminal
      BY DEF A2A!Terminal
    <3> QED BY <1>2, <1>5, <2>1, <3>1, <3>2
  <2>3. CASE send[t] # "waiting"
    <3>1. UNCHANGED <<task, registry, send, cancelled>>
      BY <1>6, <2>3 DEF A2A!RunReports
    <3> QED BY <1>1, <1>2, <1>3, <2>1, <3>1
  <2> QED BY <2>2, <2>3
<1>7. ASSUME NEW t \in Tasks, A2A!RunEndsSilently(t) PROVE AgentsInv'
  <2>1. Rest' /\ UNCHANGED <<registry, send>>
    BY <1>1, <1>7 DEF A2A!RunEndsSilently
  <2> QED BY <1>2, <1>3, <2>1
<1>8. ASSUME NEW t \in Tasks, A2A!TimesOut(t) PROVE AgentsInv'
  <2>1. "failed" \in A2A!Terminal
    BY DEF A2A!Terminal
  <2>2. A2A!Settle(t, "failed") /\ UNCHANGED run
    BY <1>8 DEF A2A!TimesOut
  <2> QED BY <1>1, <1>2, <1>5, <2>1, <2>2
<1>9. ASSUME NEW t \in Tasks, A2A!Cancel(t) PROVE AgentsInv'
  <2>1. Rest' /\ UNCHANGED <<registry, send>>
    BY <1>1, <1>9 DEF A2A!Cancel, A2A!Terminal
  <2> QED BY <1>2, <1>3, <2>1
<1>10. CASE UNCHANGED A2A!vars
  <2>1. Rest' /\ UNCHANGED <<registry, send>>
    BY <1>1, <1>10 DEF A2A!vars
  <2> QED BY <1>2, <1>3, <2>1
<1> QED BY <1>4, <1>6, <1>7, <1>8, <1>9, <1>10 DEF A2A!Next

(* The other components leave the tasks alone.                             *)
LEMMA AgentsAlone == [Next]_vars => [A2A!Next]_(A2A!vars)
<1> SUFFICES ASSUME [Next]_vars PROVE [A2A!Next]_(A2A!vars)
  OBVIOUS
<1>1. CASE AgentsMove
  BY <1>1 DEF AgentsMove
<1>2. UNCHANGED agentVars => UNCHANGED A2A!vars
  BY DEF agentVars, A2A!vars
<1>3. ASSUME UNCHANGED vars \/ PoolMoves \/ BreakerMoves \/ LinkedMoves \/ CacheMoves
             \/ PrivateMoves \/ ModelsMove \/ SwarmMoves \/ BrowserMoves \/ NipMoves
      PROVE  UNCHANGED agentVars
  BY <1>3 DEF vars, PoolMoves, BreakerMoves, LinkedMoves, CacheMoves, PrivateMoves, ModelsMove,
      SwarmMoves, BrowserMoves, NipMoves
<1> QED BY <1>1, <1>2, <1>3 DEF Next

-----------------------------------------------------------------------------
(* No more entries are restored from Redis than there are.                 *)
Warmth == warmed \in 0 .. WarmLimit

(* Every variable of every component keeps its type, whichever moves: the  *)
(* pool's order of use and the registry of tasks name nothing twice, and   *)
(* the ends of the linked list are keys of its map.                        *)
THEOREM TypeCorrect == Spec => []TypeOK
<1>1. Spec => [](PoolTypes /\ PoolRest)
  <2>1. Pool!PoolAssumption
    BY ServicesAssumption
  <2>2. Init => PoolRest
    <3> SUFFICES ASSUME Pool!Init PROVE PoolRest
      BY DEF Init
    <3>1. recent \in Seq(Calls) /\ Pool!IsInjective(recent)
      BY DEF Pool!Init, Pool!IsInjective
    <3>2. \A c \in Calls : ~Active(c)
      BY DEF Pool!Init, Active
    <3>3. reaper \in BOOLEAN
      BY DEF Pool!Init
    <3> QED BY <2>1, <3>1, <3>2, <3>3 DEF Pool!Init, PoolRest, Pool!PoolAssumption
  <2>3. PoolInv /\ PoolRest /\ [Next]_vars => PoolRest'
    BY <2>1, PoolAlone, PoolRestStep DEF PoolInv
  <2>4. PoolInv => PoolTypes
    BY DEF PoolInv
  <2> QED BY <2>2, <2>3, <2>4, PoolInvariant, PTL DEF Spec
<1>2. Spec => []AgentsInv
  <2>1. A2A!TaskAssumption
    BY ServicesAssumption
  <2>2. Init => AgentsInv
    <3> SUFFICES ASSUME A2A!Init PROVE AgentsInv
      BY DEF Init
    <3>1. registry = <<>> /\ Len(registry) = 0 /\ registry \in Seq(Tasks) /\ 0 <= MaxTasks
      BY <2>1 DEF A2A!Init, A2A!TaskAssumption
    <3> QED BY <3>1 DEF A2A!Init, AgentsInv, A2A!TypeOK, A2A!IsInjective
  <2>3. AgentsInv /\ [Next]_vars => AgentsInv'
    BY <2>1, AgentsAlone, AgentsStep
  <2> QED BY <2>2, <2>3, PTL DEF Spec
<1>3. PoolTypes /\ PoolRest => Pool!TypeOK
  BY DEF PoolTypes, PoolRest, Active, Pool!TypeOK
<1>4. LinkedInv => Linked!TypeOK
  <2> SUFFICES ASSUME LinkedInv PROVE Linked!TypeOK
    OBVIOUS
  <2>1. PICK s : SpeltBy(s)
    BY DEF LinkedInv
  <2>2. s \in Seq(Keys) /\ Len(s) \in Nat /\ Spells(list, s) /\ map = Elements(s)
    BY <2>1 DEF SpeltBy, Spells
  <2>3. list.head \in map \cup {None} /\ list.tail \in map \cup {None}
    <3>1. CASE Len(s) = 0
      BY <2>2, <3>1 DEF Spells
    <3>2. CASE Len(s) # 0
      <4>1. 1 \in 1 .. Len(s) /\ Len(s) \in 1 .. Len(s)
        BY <2>2, <3>2
      <4>2. s[1] \in map /\ s[Len(s)] \in map
        BY <2>2, <4>1 DEF Elements
      <4> QED BY <2>2, <3>2, <4>2 DEF Spells
    <3> QED BY <3>1, <3>2
  <2> QED BY <2>2, <2>3, ElementsAreKeys DEF Linked!TypeOK, Spells, Lists
<1>5. /\ AgentsInv => A2A!TypeOK
      /\ SlotsInv => Breaker!TypeOK
      /\ PrivateInv => Private!TypeOK
      /\ ModelInv => Connections!TypeOK
      /\ SwarmInv => Swarms!TypeOK
      /\ BrowserInv => Browser!TypeOK
      /\ NipInv => Nip!TypeOK
  BY DEF AgentsInv, SlotsInv, PrivateInv, ModelInv, SwarmInv, BrowserInv, NipInv
<1>6. Spec => []Warmth
  <2>1. Cache!CacheAssumption
    BY ServicesAssumption
  <2>2. Init => Warmth
    BY <2>1 DEF Init, Cache!Init, Cache!CacheAssumption, Warmth
  <2>3. ASSUME Warmth, Cache!Next PROVE Warmth'
    <3>1. CASE warmed' = warmed
      BY <2>3, <3>1 DEF Warmth
    <3>2. CASE warmed < WarmLimit /\ warmed' = warmed + 1
      BY <2>1, <2>3, <3>2 DEF Warmth, Cache!CacheAssumption
    <3> QED BY <2>3, <3>1, <3>2, Zenon DEF Cache!Next, Cache!HitExact, Cache!MissExact,
            Cache!Warm, Cache!Answer, Cache!Expire, Cache!Sweep, Cache!Clear
  <2>4. Warmth /\ UNCHANGED Cache!vars => Warmth'
    BY DEF Cache!vars, Warmth
  <2>5. Warmth /\ [Next]_vars => Warmth'
    BY <2>3, <2>4, CacheAlone
  <2> QED BY <2>2, <2>5, PTL DEF Spec
<1>7. CacheInv /\ Warmth => Cache!TypeOK
  <2> SUFFICES ASSUME CacheInv, Warmth PROVE Cache!TypeOK
    OBVIOUS
  <2>1. \A t \in {exact, semantic} : t \in Tier /\ t.total \in Int /\ CacheBytes(t) <= t.total
    BY DEF CacheInv, TierOK, Tier
  <2>2. \A t \in {exact, semantic} : CacheBytes(t) \in Nat
    BY <2>1, TierSums, ServicesAssumption
  <2>3. \A t \in {exact, semantic} : t \in Tier /\ t.total \in Nat
    BY <2>1, <2>2
  <2>4. \A t \in {exact, semantic} : t \in Cache!Tier
    BY <2>3 DEF Tier, Cache!Tier
  <2> QED BY <2>4 DEF Cache!TypeOK, Warmth
<1>8. PoolTypes /\ PoolRest /\ LinkedInv /\ CacheInv /\ Warmth /\ AgentsInv /\ SlotsInv
         /\ PrivateInv /\ ModelInv /\ SwarmInv /\ BrowserInv /\ NipInv => TypeOK
  BY <1>3, <1>4, <1>5, <1>7 DEF TypeOK
<1> QED BY <1>1, <1>2, <1>6, <1>8, CacheInvariant, LinkedInvariant, SlotsInvariant, PrivateInvariant, ModelInvariant,
           SwarmInvariant, BrowserInvariant, NipInvariant, PTL
=============================================================================
