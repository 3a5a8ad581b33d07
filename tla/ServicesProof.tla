---------------------------- MODULE ServicesProof ----------------------------
(***************************************************************************)
(* Proofs about six of the components of Services, for every value of the  *)
(* constants: the supervisor and its apps, the model connections, the      *)
(* agents of a swarm, the browser's contexts, the NIP sessions and the     *)
(* linked list of the caches.  For each, an inductive invariant of the     *)
(* component's own steps, and then the theorem: a step of another          *)
(* component changes none of its variables.                                *)
(***************************************************************************)
EXTENDS Services, FiniteSetTheorems, SequenceTheorems, SumLemmas, TLAPS

(* The instances of a module that extends FiniteSets have their own name   *)
(* for the size of a set.                                                  *)
LEMMA SameSize ==
  ASSUME NEW S
  PROVE  /\ Swarms!Cardinality(S) = Cardinality(S)
         /\ Browser!Cardinality(S) = Cardinality(S)
         /\ Connections!Cardinality(S) = Cardinality(S)
         /\ Nip!Cardinality(S) = Cardinality(S)
         /\ Nip!IsFiniteSet(S) <=> IsFiniteSet(S)
BY DEF Swarms!Cardinality, Browser!Cardinality, Connections!Cardinality, Nip!Cardinality,
    Cardinality, Nip!IsFiniteSet, IsFiniteSet

(* A set whose members are all equal has one at most.                      *)
LEMMA AtMostOne ==
  ASSUME NEW S, \A x, y \in S : x = y
  PROVE  /\ Cardinality(S) \in 0 .. 1
         /\ S = {} <=> Cardinality(S) = 0
<1>1. CASE S = {}
  BY <1>1, FS_EmptySet
<1>2. CASE S # {}
  <2>1. PICK x \in S : S = {x}
    BY <1>2
  <2> QED BY <2>1, FS_Singleton
<1> QED BY <1>1, <1>2

-----------------------------------------------------------------------------
(* The supervisor and its apps. *)

(* Every action keeps the types: only a supervisor that has the lease      *)
(* supervises.                                                             *)
LEMMA PrivateTypeStep ==
  ASSUME Private!ServiceAssumption, Private!TypeOK, [Private!Next]_(Private!vars)
  PROVE  Private!TypeOK'
<1> USE Private!ServiceAssumption DEF Private!TypeOK, Private!ServiceAssumption,
        Private!supVars, Private!appVars, Private!cmdVars, Private!WriteState,
        Private!Fault, Private!Alive, Private!Exits, Private!ShutDown
<1>1. CASE UNCHANGED Private!vars
  BY <1>1 DEF Private!vars
<1>2. ASSUME NEW s \in Supervisors, Private!Begin(s) PROVE Private!TypeOK'
  BY <1>2 DEF Private!Begin
<1>3. ASSUME NEW s \in Supervisors, Private!Refused(s) PROVE Private!TypeOK'
  BY <1>3 DEF Private!Refused
<1>4. ASSUME NEW s \in Supervisors, Private!SeesStopFile(s) PROVE Private!TypeOK'
  BY <1>4 DEF Private!SeesStopFile
<1>5. ASSUME NEW s \in Supervisors, Private!Signalled(s) PROVE Private!TypeOK'
  BY <1>5 DEF Private!Signalled
<1>6. ASSUME NEW s \in Supervisors, Private!Spawn(s) PROVE Private!TypeOK'
  <2>1. Private!FreeName \in Apps
    BY <1>6 DEF Private!Spawn, Private!FreeName
  <2> QED BY <1>6, <2>1 DEF Private!Spawn
<1>7. ASSUME NEW s \in Supervisors, Private!SpawnFails(s) \/ Private!ProbeReady(s)
      PROVE  Private!TypeOK'
  BY <1>7 DEF Private!SpawnFails, Private!ProbeReady
<1>8. ASSUME NEW s \in Supervisors, Private!ProbeGivesUp(s) PROVE Private!TypeOK'
  BY <1>8 DEF Private!ProbeGivesUp
<1>9. ASSUME NEW s \in Supervisors, Private!LoopEnds(s) PROVE Private!TypeOK'
  BY <1>9 DEF Private!LoopEnds
<1>10. ASSUME NEW s \in Supervisors, Private!Terminate(s) \/ Private!KillChild(s)
       PROVE  Private!TypeOK'
  <2>1. child[s] \in Apps
    BY <1>10 DEF Private!Terminate, Private!KillChild, Private!Terminating
  <2> QED BY <1>10, <2>1 DEF Private!Terminate, Private!KillChild
<1>11. ASSUME NEW s \in Supervisors, Private!Replaced(s) PROVE Private!TypeOK'
  BY <1>11 DEF Private!Replaced
<1>12. ASSUME NEW s \in Supervisors, Private!Ends(s) PROVE Private!TypeOK'
  BY <1>12 DEF Private!Ends
<1>13. ASSUME NEW s \in Supervisors, Private!KillSupervisor(s) PROVE Private!TypeOK'
  BY <1>13 DEF Private!KillSupervisor
<1>14. ASSUME NEW a \in Apps, Private!Lock(a) \/ Private!Listen(a) \/ Private!ShutsDownItself(a)
       PROVE  Private!TypeOK'
  BY <1>14 DEF Private!Lock, Private!Listen, Private!ShutsDownItself
<1>15. ASSUME NEW a \in Apps, Private!Drained(a) \/ Private!Closed(a) \/ Private!Hang(a)
        \/ Private!Die(a) PROVE Private!TypeOK'
  BY <1>15 DEF Private!Drained, Private!Closed, Private!Hang, Private!Die
<1>16. CASE Private!StopCommand \/ Private!StopConfirmed
  BY <1>16 DEF Private!StopCommand, Private!StopConfirmed
<1> QED BY <1>1, <1>2, <1>3, <1>4, <1>5, <1>6, <1>7, <1>8, <1>9, <1>10, <1>11, <1>12, <1>13,
           <1>14, <1>15, <1>16 DEF Private!Next

(* What keeps a second app from serving is the lock, held from before the  *)
(* app listens until its requests are over, by whichever supervisor it was *)
(* started and whatever became of that one.                                *)
Serving == {"locked", "up", "hung", "draining"}
ServingHoldsLock == \A a \in Apps : app[a] \in Serving => lock = a

PrivateInv == Private!TypeOK /\ ServingHoldsLock

(* Only an app that takes the lock begins to serve, and none gives it back *)
(* before its requests are over.                                           *)
LEMMA ServingStep ==
  ASSUME Private!ServiceAssumption, PrivateInv, [Private!Next]_(Private!vars)
  PROVE  ServingHoldsLock'
<1> USE Private!ServiceAssumption DEF PrivateInv, Private!TypeOK, ServingHoldsLock, Serving,
        Private!ServiceAssumption, Private!supVars,
        Private!appVars, Private!Alive
<1>1. CASE UNCHANGED Private!appVars
  BY <1>1
<1>2. ASSUME NEW s \in Supervisors, Private!Spawn(s) PROVE ServingHoldsLock'
  <2>1. Private!FreeName \in Apps
    BY <1>2 DEF Private!Spawn, Private!FreeName
  <2> QED BY <1>2, <2>1 DEF Private!Spawn
<1>3. ASSUME NEW a \in Apps, Private!ShutDown(a) PROVE ServingHoldsLock'
  BY <1>3 DEF Private!ShutDown
<1>4. ASSUME NEW a \in Apps, Private!Exits(a) PROVE ServingHoldsLock'
  BY <1>4 DEF Private!Exits
<1>5. ASSUME NEW s \in Supervisors, Private!Terminate(s) \/ Private!KillChild(s)
      PROVE  ServingHoldsLock'
  <2>1. child[s] \in Apps
    BY <1>5 DEF Private!Terminate, Private!KillChild, Private!Terminating
  <2> QED BY <1>3, <1>4, <1>5, <2>1 DEF Private!Terminate, Private!KillChild
<1>6. ASSUME NEW a \in Apps, Private!Lock(a) PROVE ServingHoldsLock'
  BY <1>6 DEF Private!Lock
<1>7. ASSUME NEW a \in Apps, Private!Listen(a) \/ Private!Drained(a) \/ Private!Hang(a)
      PROVE  ServingHoldsLock'
  BY <1>7 DEF Private!Listen, Private!Drained, Private!Hang
<1>8. ASSUME NEW a \in Apps, Private!ShutsDownItself(a) \/ Private!Closed(a) \/ Private!Die(a)
      PROVE  ServingHoldsLock'
  BY <1>3, <1>4, <1>8 DEF Private!ShutsDownItself, Private!Closed, Private!Die
<1>9. ASSUME NEW s \in Supervisors,
             Private!Begin(s) \/ Private!Refused(s) \/ Private!SeesStopFile(s)
                 \/ Private!Signalled(s) \/ Private!SpawnFails(s)
             \/ Private!ProbeReady(s) \/ Private!ProbeGivesUp(s) \/ Private!LoopEnds(s)
                 \/ Private!Replaced(s) \/ Private!Ends(s)
             \/ Private!KillSupervisor(s)
      PROVE  UNCHANGED Private!appVars
  BY <1>9 DEF Private!Begin, Private!Refused, Private!SeesStopFile, Private!Signalled,
      Private!SpawnFails, Private!ProbeReady, Private!ProbeGivesUp,
              Private!LoopEnds, Private!Replaced, Private!Ends, Private!KillSupervisor
<1>10. CASE Private!StopCommand \/ Private!StopConfirmed
  BY <1>1, <1>10 DEF Private!StopCommand, Private!StopConfirmed
<1>11. CASE UNCHANGED Private!vars
  BY <1>1, <1>11 DEF Private!vars
<1> QED BY <1>1, <1>2, <1>5, <1>6, <1>7, <1>8, <1>9, <1>10, <1>11 DEF Private!Next

(* A step of the whole is a step of the supervisor or an app, or changes   *)
(* nothing of theirs.                                                      *)
LEMMA PrivateAlone == [Next]_vars => [Private!Next]_(Private!vars)
<1> SUFFICES ASSUME [Next]_vars PROVE [Private!Next]_(Private!vars)
  OBVIOUS
<1>1. CASE PrivateMoves
  BY <1>1 DEF PrivateMoves
<1>2. UNCHANGED privateVars => UNCHANGED Private!vars
  BY DEF privateVars, Private!vars, Private!supVars, Private!appVars, Private!cmdVars
<1>3. ASSUME UNCHANGED vars \/ PoolMoves \/ BreakerMoves \/ LinkedMoves \/ CacheMoves
             \/ AgentsMove \/ ModelsMove \/ SwarmMoves \/ BrowserMoves
             \/ NipMoves
      PROVE  UNCHANGED privateVars
  BY <1>3 DEF vars, PoolMoves, BreakerMoves, LinkedMoves, CacheMoves, AgentsMove, ModelsMove,
      SwarmMoves, BrowserMoves, NipMoves
<1> QED BY <1>1, <1>2, <1>3 DEF Next

(* The types, and that what serves holds the lock.                         *)
LEMMA PrivateInvariant == Spec => []PrivateInv
<1>1. Private!ServiceAssumption
  BY ServicesAssumption
<1>2. Init => PrivateInv
  BY <1>1 DEF Init, Private!Init, PrivateInv, Private!TypeOK, ServingHoldsLock, Serving,
      Private!ServiceAssumption
<1>3. PrivateInv /\ [Next]_vars => PrivateInv'
  BY <1>1, PrivateAlone, PrivateTypeStep, ServingStep DEF PrivateInv
<1> QED BY <1>2, <1>3, PTL DEF Spec

(* Two apps never serve at a time, whatever supervisors are killed and     *)
(* whatever apps hang or die.                                              *)
THEOREM OneAppServes == Spec => []OneServes
<1>1. PrivateInv => OneServes
  BY DEF PrivateInv, ServingHoldsLock, Serving, OneServes, Private!OneServes
<1> QED BY <1>1, PrivateInvariant, PTL

(* A supervisor that has not begun or is done has no app; one that is on   *)
(* record as stopped is done, and so is one whose stop was confirmed; and  *)
(* every stop goes back to somebody who asked for that supervisor's.       *)
StopInv ==
  /\ Private!TypeOK
  /\ \A s \in Supervisors : sup[s] \in {"new", "done"} => child[s] = None
  /\ file.state = "stopped" => file.instance \in Supervisors /\ sup[file.instance] = "done"
  /\ \A s \in confirmed : sup[s] = "done"
  /\ stopping \subseteq asked /\ stopFile \in asked \cup {None}

(* A supervisor that is done stays done, and the others write their own    *)
(* names.                                                                  *)
LEMMA StopStep ==
  ASSUME Private!ServiceAssumption, StopInv, Private!TypeOK', [Private!Next]_(Private!vars)
  PROVE  StopInv'
<1> USE Private!ServiceAssumption DEF StopInv, Private!TypeOK, Private!ServiceAssumption
<1>1. CASE UNCHANGED <<Private!supVars, file, Private!cmdVars>>
  BY <1>1 DEF Private!supVars, Private!cmdVars
<1>2. ASSUME NEW s \in Supervisors, Private!Begin(s) \/ Private!Refused(s) PROVE StopInv'
  BY <1>2 DEF Private!Begin, Private!Refused, Private!WriteState, Private!cmdVars
<1>3. ASSUME NEW s \in Supervisors, Private!SeesStopFile(s) \/ Private!Signalled(s)
      PROVE  StopInv'
  BY <1>3 DEF Private!SeesStopFile, Private!Signalled, Private!cmdVars
<1>4. ASSUME NEW s \in Supervisors, Private!Spawn(s) PROVE StopInv'
  BY <1>4 DEF Private!Spawn, Private!WriteState, Private!cmdVars
<1>5. ASSUME NEW s \in Supervisors, Private!SpawnFails(s) \/ Private!ProbeReady(s)
      PROVE  StopInv'
  BY <1>5 DEF Private!SpawnFails, Private!ProbeReady, Private!WriteState, Private!supVars,
              Private!cmdVars
<1>6. ASSUME NEW s \in Supervisors, Private!ProbeGivesUp(s) \/ Private!LoopEnds(s)
      PROVE  StopInv'
  BY <1>6 DEF Private!ProbeGivesUp, Private!LoopEnds, Private!WriteState, Private!cmdVars
<1>7. ASSUME NEW s \in Supervisors, Private!Terminate(s) \/ Private!KillChild(s)
      PROVE  StopInv'
  BY <1>1, <1>7 DEF Private!Terminate, Private!KillChild
<1>8. ASSUME NEW s \in Supervisors,
             Private!Replaced(s) \/ Private!Ends(s) \/ Private!KillSupervisor(s)
      PROVE  StopInv'
  BY <1>8 DEF Private!Replaced, Private!Ends, Private!KillSupervisor, Private!WriteState,
              Private!cmdVars
<1>9. ASSUME NEW a \in Apps,
             \/ Private!Lock(a) \/ Private!Listen(a) \/ Private!ShutsDownItself(a)
             \/ Private!Drained(a) \/ Private!Closed(a) \/ Private!Hang(a) \/ Private!Die(a)
      PROVE  UNCHANGED <<Private!supVars, file, Private!cmdVars>>
  BY <1>9 DEF Private!Lock, Private!Listen, Private!ShutsDownItself, Private!Drained,
              Private!Closed, Private!Hang, Private!Die
<1>10. CASE Private!StopCommand \/ Private!StopConfirmed
  BY <1>10 DEF Private!StopCommand, Private!StopConfirmed, Private!supVars
<1>11. CASE UNCHANGED Private!vars
  BY <1>1, <1>11 DEF Private!vars
<1> QED BY <1>1, <1>2, <1>3, <1>4, <1>5, <1>6, <1>7, <1>8, <1>9, <1>10, <1>11 DEF Private!Next

(* When a stop command reports that the supervisor it asked has stopped,   *)
(* neither that supervisor nor its app runs.                               *)
THEOREM StoppedIsQuiet == Spec => []StoppedMeansQuiet
<1>1. Private!ServiceAssumption
  BY ServicesAssumption
<1>2. Init => StopInv
  BY <1>1 DEF Init, Private!Init, StopInv, Private!TypeOK, Private!ServiceAssumption
<1>3. StopInv /\ [Next]_vars => StopInv'
  BY <1>1, PrivateAlone, PrivateTypeStep, StopStep DEF StopInv
<1>4. StopInv => StoppedMeansQuiet
  BY DEF StopInv, Private!TypeOK, StoppedMeansQuiet, Private!StoppedMeansQuiet
<1> QED BY <1>2, <1>3, <1>4, PTL DEF Spec

-----------------------------------------------------------------------------
(* The model connections. *)

Row == [enabled : BOOLEAN, connected : BOOLEAN, access : Connections!Access]

(* What is known of the holders of a role, given the rows. *)
Fit(holders, rows) ==
  /\ holders \subseteq Models
  /\ \A m, n \in holders : m = n
  /\ \A m \in holders : Connections!Routable(rows[m], TRUE)

RolesInv == Fit(defaults, row) /\ Fit(orchestrators, row)

(* A model that can serve in this environment can in one with the          *)
(* variable.                                                               *)
LEMMA RoutableAnywhere ==
  ASSUME NEW r, NEW e, Connections!Routable(r, e)
  PROVE  Connections!Routable(r, TRUE)
BY DEF Connections!Routable, Connections!Credential

(* A row that is gone serves nowhere.                                      *)
LEMMA NoneRoutes == \A e : ~Connections!Routable(None, e)
BY DEF Connections!Routable

(* Other credentials that are there keep a model that can serve able to.   *)
LEMMA RoutableKept ==
  ASSUME NEW r \in Row, NEW access \in Connections!Access, NEW e, Connections!Routable(r, TRUE),
         Connections!Credential([r EXCEPT !.access = access], e),
             [r EXCEPT !.access = access] # None
  PROVE  Connections!Routable([r EXCEPT !.access = access], TRUE)
<1> DEFINE q == [r EXCEPT !.access = access]
<1>1. q.enabled = r.enabled /\ q.connected = r.connected
  BY DEF Row
<1>2. r.enabled /\ r.connected
  BY DEF Connections!Routable
<1>3. Connections!Credential(q, TRUE)
  BY DEF Connections!Credential
<1> HIDE DEF q
<1> QED BY <1>1, <1>2, <1>3 DEF Connections!Routable, q

(* Reconciliation leaves no holder or one, which can serve, whoever held   *)
(* the roles before and whatever became of the rows.                       *)
LEMMA Reconciled ==
  ASSUME NEW defs, NEW orchs, NEW preferred, Connections!Reconcile(defs, orchs, preferred)
  PROVE  RolesInv'
<1> DEFINE ready == {m \in Models : Connections!Routable(row'[m], env)}
<1>1. CASE ready = {}
  <2>1. defaults' = {} /\ orchestrators' = {}
    BY <1>1 DEF Connections!Reconcile
  <2> QED BY <2>1 DEF RolesInv, Fit
<1>2. CASE ready # {}
  <2>1. \E d, o \in ready : defaults' = {d} /\ orchestrators' = {o}
    BY <1>2 DEF Connections!Reconcile
  <2>2. \A m \in ready : m \in Models /\ Connections!Routable(row'[m], TRUE)
    BY RoutableAnywhere
  <2> QED BY <2>1, <2>2 DEF RolesInv, Fit
<1> QED BY <1>1, <1>2

ModelInv == Connections!TypeOK /\ RolesInv

(* The rest of the types, which no property of the roles needs but the     *)
(* rows.                                                                   *)
RowsTyped ==
  /\ row \in [Models -> Row \cup {None}]
  /\ env \in BOOLEAN /\ probes \subseteq Models

(* The types are these and those of the roles.                             *)
LEMMA ModelTypeParts ==
  Connections!TypeOK <=> RowsTyped /\ defaults \subseteq Models /\ orchestrators \subseteq Models
BY DEF Connections!TypeOK, RowsTyped, Row

(* testConnection keeps types and roles, whatever it finds.                *)
LEMMA ProbedStep ==
  ASSUME Connections!ModelAssumption, ModelInv, NEW m \in Models, row[m] # None,
      NEW access \in Connections!Access,
         Connections!Probed(m, [row[m] EXCEPT !.access = access]), UNCHANGED env
  PROVE  ModelInv'
<1> DEFINE r == [row[m] EXCEPT !.access = access]
<1>1. row[m] \in Row /\ row \in [Models -> Row \cup {None}]
  BY ModelTypeParts DEF ModelInv, RowsTyped
<1>2. r \in Row /\ [r EXCEPT !.connected = FALSE] \in Row
  BY <1>1 DEF Row
<1>3. CASE Connections!Credential(r, env)
  <2>1. /\ row' = [row EXCEPT ![m] = r]
        /\ probes' = probes \cup {m}
        /\ UNCHANGED <<defaults, orchestrators>>
    BY <1>3 DEF Connections!Probed
  <2>2. RowsTyped' /\ defaults' \subseteq Models /\ orchestrators' \subseteq Models
    BY <1>1, <1>2, <2>1, ModelTypeParts DEF ModelInv, RowsTyped
  <2>3. ASSUME NEW holders, Fit(holders, row) PROVE Fit(holders, row')
    <3>1. ASSUME NEW n \in holders PROVE Connections!Routable(row'[n], TRUE)
      <4>1. CASE n # m
        BY <1>1, <2>1, <2>3, <4>1 DEF Fit
      <4>2. CASE n = m
        <5>1. Connections!Routable(row[m], TRUE)
          BY <2>3, <4>2 DEF Fit
        <5>2. r # None
          BY <1>2 DEF Connections!ModelAssumption, Row
        <5> QED BY <1>1, <1>3, <2>1, <4>2, <5>1, <5>2, RoutableKept
      <4> QED BY <4>1, <4>2
    <3> QED BY <2>3, <3>1 DEF Fit
  <2>4. RolesInv'
    BY <2>1, <2>3 DEF ModelInv, RolesInv
  <2> QED BY <2>2, <2>4 DEF ModelInv, Connections!TypeOK, RowsTyped, Row
<1>4. CASE ~Connections!Credential(r, env)
  <2>1. /\ row' = [row EXCEPT ![m] = [r EXCEPT !.connected = FALSE]]
        /\ Connections!Reconcile(defaults, orchestrators, None)
        /\ UNCHANGED probes
    BY <1>4 DEF Connections!Probed
  <2>2. RolesInv'
    BY <2>1, Reconciled
  <2>3. RowsTyped'
    BY <1>1, <1>2, <2>1, ModelTypeParts DEF ModelInv, RowsTyped
  <2> QED BY <2>2, <2>3 DEF ModelInv, RolesInv, Fit, Connections!TypeOK, RowsTyped, Row
<1> QED BY <1>3, <1>4

(* Where a request ends in a reconciliation, only the rows' types are left *)
(* to show.                                                                *)
LEMMA ReconciledStep ==
  ASSUME NEW defs, NEW orchs, NEW preferred, Connections!Reconcile(defs, orchs, preferred),
      RowsTyped'
  PROVE  ModelInv'
<1>1. RolesInv'
  BY Reconciled
<1> QED BY <1>1 DEF ModelInv, RolesInv, Fit, Connections!TypeOK, RowsTyped, Row

(* A change of one row to one that can serve, or of one nobody relies on,  *)
(* keeps the roles of the others.                                          *)
LEMMA FitAfter ==
  ASSUME NEW holders, Fit(holders, row), NEW m \in Models, NEW r,
         row \in [Models -> Row \cup {None}], row' = [row EXCEPT ![m] = r],
         Connections!Routable(r, TRUE) \/ m \notin holders
  PROVE  Fit(holders, row')
BY DEF Fit

(* A change of a connection keeps the roles, reconciled or not.            *)
LEMMA UpdateStep ==
  ASSUME ModelInv, NEW m \in Models, Connections!Update(m)
  PROVE  ModelInv'
<1> DEFINE After(holders, wish) == CASE wish = "keep" -> holders
                                     [] wish = "take" -> {m}
                                     [] wish = "drop" -> holders \ {m}
<1>1. PICK enabled \in BOOLEAN, d \in {"keep", "take", "drop"}, o \in {"keep", "take", "drop"} :
        LET r == [row[m] EXCEPT !.enabled = enabled] IN
        /\ "take" \in {d, o} => Connections!Routable(r, env)
        /\ row' = [row EXCEPT ![m] = r]
        /\ IF Connections!Routable(r, env) /\ "drop" \notin {d, o}
           THEN defaults' = After(defaults, d) /\ orchestrators' = After(orchestrators, o)
           ELSE Connections!Reconcile(After(defaults, d), After(orchestrators, o), None)
  BY DEF Connections!Update
<1> DEFINE r == [row[m] EXCEPT !.enabled = enabled]
<1>2. row[m] \in Row /\ row \in [Models -> Row \cup {None}]
  BY ModelTypeParts DEF ModelInv, RowsTyped, Connections!Update
<1>3. r \in Row
  BY <1>2 DEF Row
<1>4. RowsTyped'
  BY <1>1, <1>2, <1>3, ModelTypeParts DEF ModelInv, RowsTyped, Connections!Update
<1>5. CASE Connections!Routable(r, env) /\ "drop" \notin {d, o}
  <2>1. defaults' = After(defaults, d) /\ orchestrators' = After(orchestrators, o)
    BY <1>1, <1>5
  <2>2. Connections!Routable(r, TRUE)
    BY <1>5, RoutableAnywhere
  <2>3. Fit(defaults, row') /\ Fit(orchestrators, row')
    BY <1>1, <1>2, <2>2, FitAfter DEF ModelInv, RolesInv
  <2>4. Fit({m}, row')
    BY <1>1, <1>2, <2>2 DEF Fit
  <2>5. RolesInv'
    BY <1>5, <2>1, <2>3, <2>4 DEF RolesInv
  <2> QED BY <1>4, <2>5 DEF ModelInv, RolesInv, Fit, Connections!TypeOK, RowsTyped, Row
<1>6. CASE ~(Connections!Routable(r, env) /\ "drop" \notin {d, o})
  <2>1. Connections!Reconcile(After(defaults, d), After(orchestrators, o), None)
    BY <1>1, <1>6
  <2> QED BY <1>4, <2>1, ReconciledStep
<1> QED BY <1>5, <1>6

(* One step per request. *)
LEMMA RolesStep ==
  ASSUME Connections!ModelAssumption, ModelInv, [Connections!Next]_(Connections!vars)
  PROVE  ModelInv'
<1>1. row \in [Models -> Row \cup {None}] /\ RowsTyped
  BY ModelTypeParts DEF ModelInv, RowsTyped
<1>2. CASE UNCHANGED Connections!vars
  BY <1>2 DEF Connections!vars, ModelInv, Connections!TypeOK, RolesInv, Fit
<1>3. CASE Connections!Restart
  BY <1>3 DEF Connections!Restart, ModelInv, Connections!TypeOK, RolesInv, Fit
<1>4. ASSUME NEW m \in Models, Connections!Create(m) PROVE ModelInv'
  <2>1. PICK access \in Connections!Access :
          row' = [row EXCEPT ![m] = [enabled |-> TRUE, connected |-> FALSE, access |-> access]]
    BY <1>4 DEF Connections!Create
  <2>2. [enabled |-> TRUE, connected |-> FALSE, access |-> access] \in Row
    BY DEF Row
  <2>3. RowsTyped'
    BY <1>1, <1>4, <2>1, <2>2 DEF Connections!Create, RowsTyped
  <2>4. m \notin defaults /\ m \notin orchestrators
    BY <1>4, NoneRoutes DEF Connections!Create, ModelInv, RolesInv, Fit
  <2>5. Fit(defaults, row') /\ Fit(orchestrators, row')
    BY <1>1, <2>1, <2>4, FitAfter DEF ModelInv, RolesInv
  <2> QED BY <1>4, <2>3, <2>5
          DEF Connections!Create, ModelInv, RolesInv, Fit, Connections!TypeOK, RowsTyped, Row
<1>5. ASSUME NEW m \in Models, Connections!Connect(m) PROVE ModelInv'
  BY <1>5, ProbedStep DEF Connections!Connect
<1>6. ASSUME NEW m \in Models, Connections!Test(m) PROVE ModelInv'
  <2>1. row[m] \in Row
    BY <1>1, <1>6 DEF Connections!Test
  <2>2. row[m].access \in Connections!Access /\ row[m] = [row[m] EXCEPT !.access = row[m].access]
    BY <2>1 DEF Row
  <2> QED BY <1>6, <2>2, ProbedStep DEF Connections!Test
<1>7. ASSUME NEW m \in Models, Connections!Update(m) PROVE ModelInv'
  BY <1>7, UpdateStep
<1>8. ASSUME NEW m \in Models, Connections!Disconnect(m) PROVE ModelInv'
  <2>1. row[m] \in Row
    BY <1>1, <1>8 DEF Connections!Disconnect
  <2>2. [row[m] EXCEPT !.connected = FALSE, !.access.given = FALSE] \in Row
    BY <2>1 DEF Row, Connections!Access
  <2>3. RowsTyped'
    BY <1>1, <1>8, <2>2 DEF Connections!Disconnect, RowsTyped
  <2> QED BY <1>8, <2>3, ReconciledStep DEF Connections!Disconnect
<1>9. ASSUME NEW m \in Models, Connections!Delete(m) PROVE ModelInv'
  <2>1. RowsTyped'
    BY <1>1, <1>9 DEF Connections!Delete, RowsTyped
  <2> QED BY <1>9, <2>1, ReconciledStep DEF Connections!Delete
<1>10. ASSUME NEW m \in Models, Connections!ProbeEnds(m) PROVE ModelInv'
  <2>1. PICK ok \in BOOLEAN :
          /\ row' = IF row[m] = None THEN row
                    ELSE [row EXCEPT ![m] = [row[m] EXCEPT !.connected = ok]]
          /\ Connections!Reconcile(defaults, orchestrators, IF ok THEN m ELSE None)
    BY <1>10 DEF Connections!ProbeEnds
  <2>2. row[m] # None => [row[m] EXCEPT !.connected = ok] \in Row
    BY <1>1 DEF Row
  <2>3. row' \in [Models -> Row \cup {None}]
    BY <1>1, <2>1, <2>2
  <2>4. RowsTyped'
    BY <1>1, <1>10, <2>3 DEF Connections!ProbeEnds, RowsTyped
  <2> QED BY <2>1, <2>4, ReconciledStep
<1> QED BY <1>2, <1>3, <1>4, <1>5, <1>6, <1>7, <1>8, <1>9, <1>10 DEF Connections!Next

(* A step of the whole is a step of the model connections, or changes      *)
(* nothing of theirs.                                                      *)
LEMMA ModelsAlone == [Next]_vars => [Connections!Next]_(Connections!vars)
<1> SUFFICES ASSUME [Next]_vars PROVE [Connections!Next]_(Connections!vars)
  OBVIOUS
<1>1. CASE ModelsMove
  BY <1>1 DEF ModelsMove
<1>2. UNCHANGED modelVars => UNCHANGED Connections!vars
  BY DEF modelVars, Connections!vars
<1>3. ASSUME UNCHANGED vars \/ PoolMoves \/ BreakerMoves \/ LinkedMoves \/ CacheMoves
             \/ AgentsMove \/ PrivateMoves \/ SwarmMoves \/ BrowserMoves
             \/ NipMoves
      PROVE  UNCHANGED modelVars
  BY <1>3 DEF vars, PoolMoves, BreakerMoves, LinkedMoves, CacheMoves, AgentsMove, PrivateMoves,
      SwarmMoves, BrowserMoves, NipMoves
<1> QED BY <1>1, <1>2, <1>3 DEF Next

(* The types, and that the holders of a role fit it.                       *)
LEMMA ModelInvariant == Spec => []ModelInv
<1>1. Connections!ModelAssumption
  BY ServicesAssumption
<1>2. Init => ModelInv
  BY <1>1 DEF Init, Connections!Init, ModelInv, Connections!TypeOK, RolesInv, Fit
<1>3. ModelInv /\ [Next]_vars => ModelInv'
  BY <1>1, ModelsAlone, RolesStep
<1> QED BY <1>2, <1>3, PTL DEF Spec

(* However connections, late probes, updates, deletions and restarts       *)
(* follow each other, a core role has at most one holder, which can serve. *)
THEOREM RolesHeldByServing == Spec => []CoreRoles
<1>1. ModelInv => CoreRoles
  <2> SUFFICES ASSUME ModelInv, NEW holders \in {defaults, orchestrators}
               PROVE  /\ Cardinality(holders) <= 1
                      /\ \A m \in holders : Connections!Routable(row[m], TRUE)
    BY SameSize DEF CoreRoles, Connections!CoreRoles
  <2>1. Fit(holders, row)
    BY DEF ModelInv, RolesInv
  <2>2. Cardinality(holders) \in 0 .. 1
    BY <2>1, AtMostOne DEF Fit
  <2>3. Cardinality(holders) <= 1
    BY <2>2
  <2>4. \A m \in holders : Connections!Routable(row[m], TRUE)
    BY <2>1 DEF Fit
  <2> QED BY <2>3, <2>4
<1> QED BY <1>1, ModelInvariant, PTL

-----------------------------------------------------------------------------
(* The agents of a swarm. *)

(* What runSwarm's loop assigns by one way: each task to an idle agent of  *)
(* its own.                                                                *)
LEMMA AwardsAreFair ==
  ASSUME NEW tasks, NEW to \in Swarms!Awards(tasks)
  PROVE  /\ DOMAIN to = tasks
         /\ to \in [tasks -> Swarms!With("idle")]
         /\ \A t, u \in tasks : to[t] = to[u] => t = u
BY DEF Swarms!Awards, Swarms!Injection, Swarms!IsInjective

(* A wave: some of the tasks chosen are awarded, the others handed out.    *)
Assigned(chosen, direct, l) ==
  \E to \in Swarms!Awards(chosen \ direct), handed \in Swarms!Awards(direct) :
      /\ Swarms!Claims(to, handed)
      /\ doubled' = doubled \cup (Swarms!Range(to) \cap Swarms!Range(handed))
      /\ execs' = execs \cup Swarms!Executions(to, l) \cup Swarms!Executions(handed, l)

(* A wave is of tasks that can be started.                                 *)
LEMMA WaveIsAvailable ==
  ASSUME NEW chosen \in Swarms!Wave
  PROVE  chosen \subseteq Swarms!Available /\ chosen \subseteq SwarmTasks
BY DEF Swarms!Wave, Swarms!kSubset, Swarms!Available, Swarms!Tasked

(* Claims: whoever is awarded or handed a task works, and on a task of the *)
(* wave.                                                                   *)
LEMMA ClaimsAre ==
  ASSUME Swarms!TypeOK, NEW chosen \in SUBSET SwarmTasks, NEW direct \in SUBSET chosen,
         NEW to \in Swarms!Awards(chosen \ direct), NEW handed \in Swarms!Awards(direct),
         Swarms!Claims(to, handed)
  PROVE  /\ \A a \in SwarmAgents :
              agent'[a] = IF a \in Swarms!Range(to) \cup Swarms!Range(handed)
                          THEN "working" ELSE agent[a]
         /\ agent' \in [SwarmAgents ->
              {"new", "idle", "working", "completed", "failed", "terminated", "removed"}]
         /\ current' \in [SwarmAgents -> SwarmTasks \cup {None}]
         /\ work' \in [SwarmTasks ->
                        [status : {"new", "pending", "running", "completed", "failed"},
                         by : SwarmAgents \cup {None}]]
<1> DEFINE claimant == [t \in DOMAIN to \cup DOMAIN handed |->
                            IF t \in DOMAIN to THEN to[t] ELSE handed[t]]
           Of(a) == {t \in DOMAIN claimant : claimant[t] = a}
           Last(a) == IF Of(a) \cap DOMAIN handed # {} THEN Of(a) \cap DOMAIN handed ELSE Of(a)
<1>1. /\ DOMAIN to = chosen \ direct /\ DOMAIN handed = direct
      /\ to \in [chosen \ direct -> Swarms!With("idle")]
      /\ handed \in [direct -> Swarms!With("idle")]
  BY AwardsAreFair
<1>2. /\ agent' = [a \in SwarmAgents |-> IF Of(a) # {} THEN "working" ELSE agent[a]]
      /\ current' = [a \in SwarmAgents |->
                        IF Of(a) # {} THEN CHOOSE t \in Last(a) : TRUE ELSE current[a]]
      /\ work' = [t \in SwarmTasks |->
            IF t \in DOMAIN claimant THEN [status |-> "running", by |-> claimant[t]] ELSE work[t]]
  BY DEF Swarms!Claims
<1>3. DOMAIN claimant = chosen /\ claimant \in [chosen -> SwarmAgents]
  BY <1>1 DEF Swarms!With
<1>4. ASSUME NEW a \in SwarmAgents
      PROVE  Of(a) # {} <=> a \in Swarms!Range(to) \cup Swarms!Range(handed)
  <2>1. a \in Swarms!Range(to) => \E t \in chosen : claimant[t] = a
    BY <1>1 DEF Swarms!Range
  <2>2. a \in Swarms!Range(handed) => \E t \in chosen : claimant[t] = a
    BY <1>1 DEF Swarms!Range
  <2>3. ASSUME NEW t \in chosen, claimant[t] = a
        PROVE  a \in Swarms!Range(to) \cup Swarms!Range(handed)
    BY <1>1, <2>3 DEF Swarms!Range
  <2> HIDE DEF claimant
  <2> QED BY <1>3, <2>1, <2>2, <2>3
<1> HIDE DEF claimant
<1>5. ASSUME NEW a \in SwarmAgents, Of(a) # {} PROVE (CHOOSE t \in Last(a) : TRUE) \in SwarmTasks
  <2>1. Last(a) # {} /\ Last(a) \subseteq SwarmTasks
    BY <1>3, <1>5
  <2> HIDE DEF Last
  <2> QED BY <2>1
<1>6. current' \in [SwarmAgents -> SwarmTasks \cup {None}]
  <2> HIDE DEF Of, Last
  <2> QED BY <1>2, <1>5 DEF Swarms!TypeOK
<1>7. work' \in [SwarmTasks ->
                    [status : {"new", "pending", "running", "completed", "failed"},
                     by : SwarmAgents \cup {None}]]
  BY <1>2, <1>3 DEF Swarms!TypeOK
<1>8. \A a \in SwarmAgents :
        agent'[a] = IF a \in Swarms!Range(to) \cup Swarms!Range(handed) THEN "working" ELSE agent[a]
  <2> HIDE DEF Of
  <2> QED BY <1>2, <1>4
<1>9. agent' \in [SwarmAgents ->
        {"new", "idle", "working", "completed", "failed", "terminated", "removed"}]
  <2> HIDE DEF Of
  <2> QED BY <1>2 DEF Swarms!TypeOK
<1> QED BY <1>6, <1>7, <1>8, <1>9

(* The flags and the streak of failures, where they start anew.            *)
LEMMA FreshType ==
  ASSUME Swarms!SwarmAssumption, Swarms!TypeOK, Swarms!StartSwarm
  PROVE  /\ session' \in {"idle", "running", "completed", "failed", "terminated"}
         /\ error' \in BOOLEAN /\ broken' \in BOOLEAN
         /\ streak' \in 0 .. CircuitBreakerThreshold
<1>1. CASE session = "running"
  BY <1>1 DEF Swarms!StartSwarm, Swarms!TypeOK, Swarms!session
<1>2. CASE session # "running"
  <2>1. error' \in BOOLEAN /\ broken' \in BOOLEAN
    BY <1>2 DEF Swarms!StartSwarm
  <2>2. session' = "running" /\ streak' = 0
    BY <1>2 DEF Swarms!StartSwarm
  <2>3. 0 \in 0 .. CircuitBreakerThreshold
    BY DEF Swarms!SwarmAssumption
  <2> QED BY <2>1, <2>2, <2>3
<1> QED BY <1>1, <1>2

(* Every action keeps the types. *)
LEMMA SwarmTypeStep ==
  ASSUME Swarms!SwarmAssumption, Swarms!TypeOK, [Swarms!Next]_(Swarms!vars)
  PROVE  Swarms!TypeOK'
<1> USE Swarms!SwarmAssumption DEF Swarms!SwarmAssumption, Swarms!TypeOK, Swarms!session,
        Swarms!With, Swarms!Working, Swarms!Present
<1>1. CASE UNCHANGED Swarms!vars
  BY <1>1 DEF Swarms!vars
<1>2. CASE Swarms!Start
  BY <1>2, FreshType DEF Swarms!Start
<1>3. ASSUME NEW e \in BOOLEAN,
             NEW ag \in [SwarmAgents -> {"new", "idle", "working", "completed", "failed",
                 "terminated",
                                    "removed"}],
             Swarms!StopSwarm(e, ag), UNCHANGED <<current, work, execs, doubled>>,
             turn' \in [Loops -> 0 .. MaxTurns \cup {Off}]
      PROVE  Swarms!TypeOK'
  BY <1>3 DEF Swarms!StopSwarm
<1>4. CASE Swarms!Stop
  BY <1>3, <1>4 DEF Swarms!Stop
<1>5. CASE Swarms!Terminate
  BY <1>5 DEF Swarms!Terminate
<1>6. CASE Swarms!Detect
  BY <1>6 DEF Swarms!Detect
<1>7. ASSUME NEW t \in SwarmTasks, Swarms!AddTask(t) PROVE Swarms!TypeOK'
  BY <1>7 DEF Swarms!AddTask
<1>8. ASSUME NEW a \in SwarmAgents, Swarms!AddAgent(a) PROVE Swarms!TypeOK'
  BY <1>8 DEF Swarms!AddAgent
<1>9. ASSUME NEW a \in SwarmAgents, Swarms!RemoveAgent(a) PROVE Swarms!TypeOK'
  BY <1>9 DEF Swarms!RemoveAgent
<1>10. ASSUME NEW l \in Loops, Swarms!Run(l) PROVE Swarms!TypeOK'
  <2>1. turn' \in [Loops -> 0 .. MaxTurns \cup {Off}]
    BY <1>10 DEF Swarms!Run
  <2> QED BY <1>10, <2>1, FreshType DEF Swarms!Run
<1>11. ASSUME NEW l \in Loops, NEW e \in BOOLEAN,
              NEW ag \in [SwarmAgents -> {"new", "idle", "working", "completed", "failed",
                                     "terminated", "removed"}],
              Swarms!Leaves(l, e, ag)
       PROVE  Swarms!TypeOK'
  <2>1. turn' \in [Loops -> 0 .. MaxTurns \cup {Off}]
    BY <1>11 DEF Swarms!Leaves
  <2>2. CASE session = "running"
    BY <1>3, <1>11, <2>1, <2>2 DEF Swarms!Leaves
  <2>3. CASE session # "running"
    BY <1>11, <2>1, <2>3 DEF Swarms!Leaves
  <2> QED BY <2>2, <2>3
<1>12. ASSUME NEW l \in Loops, Swarms!WallClock(l) \/ Swarms!CircuitBroken(l) PROVE Swarms!TypeOK'
  BY <1>11, <1>12 DEF Swarms!WallClock, Swarms!CircuitBroken
<1>13. ASSUME NEW l \in Loops, Swarms!BudgetExhausted(l) PROVE Swarms!TypeOK'
  BY <1>11, <1>13 DEF Swarms!BudgetExhausted
<1>14. ASSUME NEW l \in Loops, Swarms!NothingLeft(l) \/ Swarms!TurnsExhausted(l)
       PROVE  Swarms!TypeOK'
  BY <1>11, <1>14 DEF Swarms!NothingLeft, Swarms!TurnsExhausted
<1>15. ASSUME NEW l \in Loops, Swarms!Waits(l) PROVE Swarms!TypeOK'
  BY <1>15 DEF Swarms!Waits, Swarms!Open, Swarms!MayGoOn, Swarms!Awake
<1>16. ASSUME NEW l \in Loops, Swarms!Assigns(l) PROVE Swarms!TypeOK'
  <2>a. PICK chosen \in Swarms!Wave : \E direct \in SUBSET chosen :
            Assigned(chosen, direct, l)
    BY <1>16 DEF Swarms!Assigns, Assigned
  <2>b. PICK direct \in SUBSET chosen : Assigned(chosen, direct, l)
    BY <2>a
  <2>1. PICK to \in Swarms!Awards(chosen \ direct), handed \in Swarms!Awards(direct) :
          /\ Swarms!Claims(to, handed)
          /\ doubled' = doubled \cup (Swarms!Range(to) \cap Swarms!Range(handed))
          /\ execs' = execs \cup Swarms!Executions(to, l) \cup Swarms!Executions(handed, l)
    BY <2>b DEF Assigned
  <2>2. chosen \subseteq SwarmTasks
    BY WaveIsAvailable
  <2>3. /\ DOMAIN to \subseteq SwarmTasks /\ to \in [DOMAIN to -> SwarmAgents]
        /\ DOMAIN handed \subseteq SwarmTasks /\ handed \in [DOMAIN handed -> SwarmAgents]
    BY <2>2, AwardsAreFair
  <2>4. execs' \subseteq [agent : SwarmAgents, task : SwarmTasks, loop : Loops]
    BY <2>1, <2>3 DEF Swarms!Executions
  <2>5. doubled' \subseteq SwarmAgents
    BY <2>1, <2>3 DEF Swarms!Range
  <2>6. turn' \in [Loops -> 0 .. MaxTurns \cup {Off}]
    BY <1>16 DEF Swarms!Assigns, Swarms!Open, Swarms!MayGoOn, Swarms!Awake
  <2>7. agent' \in [SwarmAgents ->
            {"new", "idle", "working", "completed", "failed", "terminated", "removed"}]
    BY <2>1, <2>2, ClaimsAre
  <2>8. /\ current' \in [SwarmAgents -> SwarmTasks \cup {None}]
        /\ work' \in [SwarmTasks ->
                    [status : {"new", "pending", "running", "completed", "failed"},
                     by : SwarmAgents \cup {None}]]
    BY <2>1, <2>2, ClaimsAre
  <2> QED BY <1>16, <2>4, <2>5, <2>6, <2>7, <2>8 DEF Swarms!Assigns
<1>17. ASSUME NEW x \in execs, Swarms!Completes(x) PROVE Swarms!TypeOK'
  <2>1. /\ execs' \subseteq execs /\ error' = error /\ broken' = broken /\ turn' = turn
        /\ doubled' = doubled
    BY <1>17 DEF Swarms!Completes, Swarms!ExecutionEnds
  <2>2. CASE Swarms!Present(x.agent) /\ work[x.task].by = x.agent
    <3>1. streak' = 0
      BY <1>17, <2>2 DEF Swarms!Completes
    <3>2. session' \in {session, "completed", "failed"}
      BY <1>17, <2>2 DEF Swarms!Completes, Swarms!CheckCompletion
    <3>3. /\ work' = [work EXCEPT ![x.task].status = "completed"]
          /\ agent' = [agent EXCEPT ![x.agent] = "idle"]
          /\ current' = [current EXCEPT ![x.agent] = None]
      BY <1>17, <2>2 DEF Swarms!Completes
    <3>4. x.agent \in SwarmAgents /\ x.task \in SwarmTasks
      OBVIOUS
    <3>5. streak' \in 0 .. CircuitBreakerThreshold
      BY <3>1
    <3>6. /\ work' \in [SwarmTasks ->
                        [status : {"new", "pending", "running", "completed", "failed"},
                         by : SwarmAgents \cup {None}]]
          /\ current' \in [SwarmAgents -> SwarmTasks \cup {None}]
      BY <3>3, <3>4
    <3> QED BY <2>1, <3>2, <3>3, <3>4, <3>5, <3>6
  <2>3. CASE ~(Swarms!Present(x.agent) /\ work[x.task].by = x.agent)
    BY <1>17, <2>1, <2>3 DEF Swarms!Completes
  <2> QED BY <2>2, <2>3
<1>18. ASSUME NEW x \in execs, Swarms!Fails(x) PROVE Swarms!TypeOK'
  <2>1. execs' \subseteq execs /\ error' = error /\ turn' = turn /\ doubled' = doubled
    BY <1>18 DEF Swarms!Fails, Swarms!ExecutionEnds
  <2>2. CASE Swarms!Present(x.agent)
    <3>1. streak' \in 0 .. CircuitBreakerThreshold
      BY <1>18, <2>2 DEF Swarms!Fails
    <3>2. session' \in {session, "completed", "failed"}
      BY <1>18, <2>2 DEF Swarms!Fails, Swarms!CheckCompletion
    <3>3. /\ work' = [work EXCEPT ![x.task].status = "failed"]
          /\ agent' = [agent EXCEPT ![x.agent] = "idle"]
          /\ current' = [current EXCEPT ![x.agent] = None]
      BY <1>18, <2>2 DEF Swarms!Fails
    <3>4. broken' \in BOOLEAN
      BY <1>18, <2>2 DEF Swarms!Fails
    <3> QED BY <2>1, <3>1, <3>2, <3>3, <3>4
  <2>3. CASE ~Swarms!Present(x.agent)
    BY <1>18, <2>1, <2>3 DEF Swarms!Fails
  <2> QED BY <2>2, <2>3
<1>19. ASSUME NEW l \in Loops, Swarms!Rejects(l) PROVE Swarms!TypeOK'
  BY <1>19 DEF Swarms!Rejects
<1> QED BY <1>1, <1>2, <1>4, <1>5, <1>6, <1>7, <1>8, <1>9, <1>10, <1>12, <1>13, <1>14, <1>15,
           <1>16, <1>17, <1>18, <1>19 DEF Swarms!Next

(* The session begins with the types.                                      *)
LEMMA SwarmTypeInit == Swarms!SwarmAssumption /\ Swarms!Init => Swarms!TypeOK
<1> SUFFICES ASSUME Swarms!SwarmAssumption, Swarms!Init PROVE Swarms!TypeOK
  OBVIOUS
<1>1. error \in BOOLEAN /\ broken \in BOOLEAN
  BY DEF Swarms!Init
<1>2. streak \in 0 .. CircuitBreakerThreshold /\ turn \in [Loops -> 0 .. MaxTurns \cup {Off}]
  BY DEF Swarms!Init, Swarms!SwarmAssumption
<1> QED BY <1>1, <1>2 DEF Swarms!Init, Swarms!TypeOK

(* An agent that can be assigned a task, now or after it is added, has no  *)
(* execution in flight, and no agent has two, unless it is doubled.        *)
Free(a) == agent[a] \in {"new", "idle"}
FreeAgentsRest == \A x \in execs : x.agent \notin doubled => ~Free(x.agent)
OneExecutionEach ==
  \A x, y \in execs : x.agent = y.agent /\ x.agent \notin doubled => x = y

SwarmInv == Swarms!TypeOK /\ FreeAgentsRest /\ OneExecutionEach

(* Whatever makes no agent free and starts nothing keeps both.             *)
LEMMA NobodyFreed ==
  ASSUME SwarmInv, execs' \subseteq execs, doubled \subseteq doubled',
         \A a \in SwarmAgents : agent'[a] \in {"new", "idle"} => Free(a)
  PROVE  FreeAgentsRest' /\ OneExecutionEach'
BY DEF SwarmInv, Swarms!TypeOK, FreeAgentsRest, OneExecutionEach, Free

(* The agent whose only execution ends may be free.                        *)
LEMMA EndFrees ==
  ASSUME SwarmInv, NEW x \in execs, Swarms!ExecutionEnds(x), doubled \subseteq doubled',
         \A a \in SwarmAgents : agent'[a] \in {"new", "idle"} => Free(a) \/ a = x.agent
  PROVE  FreeAgentsRest' /\ OneExecutionEach'
BY DEF SwarmInv, Swarms!TypeOK, FreeAgentsRest, OneExecutionEach, Free, Swarms!ExecutionEnds

(* An assignment goes to idle agents, one task each, and only the end of   *)
(* its execution frees an agent.                                           *)
LEMMA RestStep ==
  ASSUME Swarms!SwarmAssumption, SwarmInv, [Swarms!Next]_(Swarms!vars)
  PROVE  FreeAgentsRest' /\ OneExecutionEach'
<1> USE DEF SwarmInv, Swarms!TypeOK, Free, Swarms!session, Swarms!With, Swarms!Working,
        Swarms!Present
<1>1. CASE UNCHANGED Swarms!vars
  BY <1>1, NobodyFreed DEF Swarms!vars
<1>2. CASE Swarms!Start \/ Swarms!Terminate \/ Swarms!Detect
  BY <1>2, NobodyFreed DEF Swarms!Start, Swarms!Terminate, Swarms!Detect
<1>3. CASE Swarms!Stop
  BY <1>3, NobodyFreed DEF Swarms!Stop, Swarms!StopSwarm
<1>4. ASSUME NEW t \in SwarmTasks, Swarms!AddTask(t) PROVE FreeAgentsRest' /\ OneExecutionEach'
  BY <1>4, NobodyFreed DEF Swarms!AddTask
<1>5. ASSUME NEW a \in SwarmAgents, Swarms!RemoveAgent(a)
      PROVE  FreeAgentsRest' /\ OneExecutionEach'
  BY <1>5, NobodyFreed DEF Swarms!RemoveAgent
<1>13. ASSUME NEW a \in SwarmAgents, Swarms!AddAgent(a)
       PROVE  FreeAgentsRest' /\ OneExecutionEach'
  <2>1. /\ agent' = [agent EXCEPT ![a] = "idle"] /\ execs' = execs
        /\ doubled \subseteq doubled'
    BY <1>13 DEF Swarms!AddAgent
  <2>2. \A x \in execs : x.agent = a => a \in doubled'
    BY <1>13 DEF Swarms!AddAgent
  <2>3. FreeAgentsRest'
    <3> SUFFICES ASSUME NEW x \in execs, x.agent \notin doubled'
                 PROVE  agent'[x.agent] \notin {"new", "idle"}
      BY <2>1 DEF FreeAgentsRest
    <3>1. x.agent # a /\ x.agent \in SwarmAgents
      BY <2>2
    <3>2. agent'[x.agent] = agent[x.agent]
      BY <2>1, <3>1
    <3> QED BY <2>1, <3>2 DEF FreeAgentsRest
  <2>4. OneExecutionEach'
    BY <2>1 DEF OneExecutionEach
  <2> QED BY <2>3, <2>4
<1>6. ASSUME NEW l \in Loops, Swarms!Run(l) \/ Swarms!Waits(l) \/ Swarms!Rejects(l)
      PROVE  FreeAgentsRest' /\ OneExecutionEach'
  BY <1>6, NobodyFreed DEF Swarms!Run, Swarms!Waits, Swarms!Rejects
<1>7. ASSUME NEW l \in Loops, NEW e, NEW ag, Swarms!Leaves(l, e, ag),
             \A a \in SwarmAgents : ag[a] \in {"new", "idle"} => Free(a)
      PROVE  FreeAgentsRest' /\ OneExecutionEach'
  BY <1>7, NobodyFreed DEF Swarms!Leaves, Swarms!StopSwarm
<1>8. ASSUME NEW l \in Loops, Swarms!WallClock(l) \/ Swarms!CircuitBroken(l)
        \/ Swarms!NothingLeft(l) \/ Swarms!TurnsExhausted(l)
      PROVE  FreeAgentsRest' /\ OneExecutionEach'
  BY <1>7, <1>8
      DEF Swarms!WallClock, Swarms!CircuitBroken, Swarms!NothingLeft, Swarms!TurnsExhausted
<1>9. ASSUME NEW l \in Loops, Swarms!BudgetExhausted(l) PROVE FreeAgentsRest' /\ OneExecutionEach'
  <2> DEFINE ag == [a \in SwarmAgents |-> IF a \in Swarms!Working THEN "completed" ELSE agent[a]]
  <2>1. \A a \in SwarmAgents : ag[a] \in {"new", "idle"} => Free(a)
    OBVIOUS
  <2>2. Swarms!Leaves(l, TRUE, ag)
    BY <1>9 DEF Swarms!BudgetExhausted
  <2> QED BY <1>7, <2>1, <2>2
<1>10. ASSUME NEW l \in Loops, Swarms!Assigns(l) PROVE FreeAgentsRest' /\ OneExecutionEach'
  <2>a. PICK chosen \in Swarms!Wave : \E direct \in SUBSET chosen :
            Assigned(chosen, direct, l)
    BY <1>10 DEF Swarms!Assigns, Assigned
  <2>b. PICK direct \in SUBSET chosen : Assigned(chosen, direct, l)
    BY <2>a
  <2>1. PICK to \in Swarms!Awards(chosen \ direct), handed \in Swarms!Awards(direct) :
          /\ Swarms!Claims(to, handed)
          /\ doubled' = doubled \cup (Swarms!Range(to) \cap Swarms!Range(handed))
          /\ execs' = execs \cup Swarms!Executions(to, l) \cup Swarms!Executions(handed, l)
    BY <2>b DEF Assigned
  <2>2. chosen \subseteq SwarmTasks
    BY WaveIsAvailable
  <2>3. /\ DOMAIN to = chosen \ direct /\ to \in [chosen \ direct -> Swarms!With("idle")]
        /\ \A t, u \in chosen \ direct : to[t] = to[u] => t = u
        /\ DOMAIN handed = direct /\ handed \in [direct -> Swarms!With("idle")]
        /\ \A t, u \in direct : handed[t] = handed[u] => t = u
    BY AwardsAreFair
  <2>4. \A a \in SwarmAgents :
          agent'[a] = IF a \in Swarms!Range(to) \cup Swarms!Range(handed)
                      THEN "working" ELSE agent[a]
    <3>1. Swarms!TypeOK
      BY DEF SwarmInv
    <3> HIDE DEF SwarmInv, Swarms!TypeOK, Swarms!With, Swarms!Working, Free
    <3> QED BY <2>1, <2>2, <3>1, ClaimsAre
  <2>5. \A a \in Swarms!Range(to) \cup Swarms!Range(handed) : a \in SwarmAgents /\ agent[a] = "idle"
    BY <2>3 DEF Swarms!Range
  <2>6. ASSUME NEW x \in execs', x \notin execs
        PROVE  \/ x.agent \in Swarms!Range(to)
                   /\ \E t \in chosen \ direct : x = [agent |-> to[t], task |-> t, loop |-> l]
               \/ x.agent \in Swarms!Range(handed)
                   /\ \E t \in direct : x = [agent |-> handed[t], task |-> t, loop |-> l]
    BY <2>1, <2>3, <2>6 DEF Swarms!Executions, Swarms!Range
  <2>7. \A x \in execs : x.agent \notin doubled =>
            /\ x.agent \in SwarmAgents
            /\ x.agent \notin Swarms!Range(to) \cup Swarms!Range(handed)
            /\ agent[x.agent] \notin {"new", "idle"}
    BY <2>5 DEF FreeAgentsRest
  <2>8. FreeAgentsRest'
    <3> SUFFICES ASSUME NEW x \in execs', x.agent \notin doubled'
                 PROVE  agent'[x.agent] \notin {"new", "idle"}
      BY DEF FreeAgentsRest
    <3>1. CASE x \in execs
      BY <2>1, <2>4, <2>7, <3>1
    <3>2. CASE x \notin execs
      BY <2>4, <2>5, <2>6, <3>2
    <3> QED BY <3>1, <3>2
  <2>9. OneExecutionEach'
    <3> SUFFICES ASSUME NEW x \in execs', NEW y \in execs', x.agent = y.agent,
                        x.agent \notin doubled'
                 PROVE  x = y
      BY DEF OneExecutionEach
    <3>1. x.agent \notin doubled /\ x.agent \notin Swarms!Range(to) \cap Swarms!Range(handed)
      BY <2>1
    <3>2. CASE x \in execs /\ y \in execs
      BY <3>1, <3>2 DEF OneExecutionEach
    <3>3. CASE x \notin execs /\ y \notin execs
      BY <2>3, <2>6, <3>1, <3>3
    <3>4. CASE (x \in execs) # (y \in execs)
      BY <2>6, <2>7, <3>1, <3>4
    <3> QED BY <3>2, <3>3, <3>4
  <2> QED BY <2>8, <2>9
<1>11. ASSUME NEW x \in execs, Swarms!Completes(x) PROVE FreeAgentsRest' /\ OneExecutionEach'
  BY <1>11, EndFrees DEF Swarms!Completes
<1>12. ASSUME NEW x \in execs, Swarms!Fails(x) PROVE FreeAgentsRest' /\ OneExecutionEach'
  BY <1>12, EndFrees DEF Swarms!Fails
<1> QED BY <1>1, <1>2, <1>3, <1>4, <1>5, <1>6, <1>8, <1>9, <1>10, <1>11, <1>12, <1>13
    DEF Swarms!Next

(* A step of the whole is a step of the swarm, or changes nothing of       *)
(* theirs.                                                                 *)
LEMMA SwarmAlone == [Next]_vars => [Swarms!Next]_(Swarms!vars)
<1> SUFFICES ASSUME [Next]_vars PROVE [Swarms!Next]_(Swarms!vars)
  OBVIOUS
<1>1. CASE SwarmMoves
  BY <1>1 DEF SwarmMoves
<1>2. UNCHANGED swarmVars => UNCHANGED Swarms!vars
  BY DEF swarmVars, Swarms!vars, Swarms!session
<1>3. ASSUME UNCHANGED vars \/ PoolMoves \/ BreakerMoves \/ LinkedMoves \/ CacheMoves
             \/ AgentsMove \/ PrivateMoves \/ ModelsMove \/ BrowserMoves
             \/ NipMoves
      PROVE  UNCHANGED swarmVars
  BY <1>3 DEF vars, PoolMoves, BreakerMoves, LinkedMoves, CacheMoves, AgentsMove, PrivateMoves,
      ModelsMove, BrowserMoves, NipMoves
<1> QED BY <1>1, <1>2, <1>3 DEF Next

(* The types, and that free agents rest and others work on one thing.      *)
LEMMA SwarmInvariant == Spec => []SwarmInv
<1>1. Swarms!SwarmAssumption
  BY ServicesAssumption
<1>2. Init => SwarmInv
  BY <1>1, SwarmTypeInit DEF Init, Swarms!Init, SwarmInv, FreeAgentsRest, OneExecutionEach
<1>3. SwarmInv /\ [Next]_vars => SwarmInv'
  BY <1>1, SwarmAlone, SwarmTypeStep, RestStep DEF SwarmInv
<1> QED BY <1>2, <1>3, PTL DEF Spec

(* No agent works on two things at once, or is up for a task while it      *)
(* works, whatever loops, operators and the detector do, unless it was     *)
(* added again meanwhile or handed a second task in a wave.                *)
THEOREM AgentsWorkAlone == Spec => []OneTaskPerAgent
<1>1. SwarmInv => OneTaskPerAgent
  <2> SUFFICES ASSUME SwarmInv, NEW a \in SwarmAgents \ doubled
               PROVE  Cardinality({x \in execs : x.agent = a})
                        + (IF agent[a] = "idle" THEN 1 ELSE 0) <= 1
    BY SameSize DEF OneTaskPerAgent, Swarms!OneTaskPerAgent
  <2> DEFINE own == {x \in execs : x.agent = a}
  <2>1. Cardinality(own) \in 0 .. 1 /\ (own = {} <=> Cardinality(own) = 0)
    BY AtMostOne DEF SwarmInv, OneExecutionEach
  <2>2. own # {} => agent[a] # "idle"
    BY DEF SwarmInv, FreeAgentsRest, Free
  <2> QED BY <2>1, <2>2
<1> QED BY <1>1, SwarmInvariant, PTL

-----------------------------------------------------------------------------
(* The browser's contexts. *)

(* Every action keeps the types: whatever is named has been created.       *)
LEMMA BrowserTypeStep ==
  ASSUME Browser!BrowserAssumption, Browser!TypeOK, [Browser!Next]_(Browser!vars)
  PROVE  Browser!TypeOK'
<1> USE Browser!BrowserAssumption DEF Browser!BrowserAssumption, Browser!TypeOK,
        Browser!Contexts, Browser!Created, Browser!Serves, Browser!Refill
<1>1. CASE UNCHANGED Browser!vars
  BY <1>1 DEF Browser!vars
<1>2. CASE Browser!WarmBegins
  BY <1>2 DEF Browser!WarmBegins
<1>3. CASE Browser!RefillLooks
  <2>1. refills' \in Nat
    BY <1>3 DEF Browser!RefillLooks
  <2>2. creating' \in Nat
    BY <1>3 DEF Browser!RefillLooks
  <2> QED BY <1>3, <2>1, <2>2 DEF Browser!RefillLooks
<1>4. ASSUME made' \in 0 .. MaxContexts, made <= made', pool' \subseteq 1 .. made',
              UNCHANGED <<crashed, entry, slot, getting>>
       PROVE  /\ crashed' \subseteq 1 .. made'
              /\ entry' \in [BrowserSessions -> 1 .. made' \cup {None}]
              /\ slot' \in [BrowserSessions -> 1 .. made' \cup {None}]
              /\ getting' \in [BrowserSessions -> 1 .. made' \cup {None, New}]
  <2>1. 1 .. made \subseteq 1 .. made'
    BY <1>4
  <2> QED BY <1>4, <2>1
<1>5. CASE Browser!WarmEnds
  <2>1. made' \in 0 .. MaxContexts /\ made <= made' /\ pool' \subseteq 1 .. made'
    <3>1. CASE /\ made + PoolSize <= MaxContexts
               /\ made' = made + PoolSize /\ pool' = pool \cup (made + 1 .. made')
      BY <3>1
    <3>2. CASE UNCHANGED <<made, pool>>
      BY <3>2
    <3> QED BY <1>5, <3>1, <3>2 DEF Browser!WarmEnds
  <2>2. warm' \in {"new", "warming", "warmed", "failed"}
    BY <1>5 DEF Browser!WarmEnds
  <2> QED BY <1>5, <1>4, <2>1, <2>2 DEF Browser!WarmEnds
<1>6. CASE Browser!RefillPushes
  <2>1. made' \in 0 .. MaxContexts /\ made <= made' /\ pool' \subseteq 1 .. made'
    <3>1. ASSUME NEW c \in Browser!Contexts, Browser!Created(c), pool' = pool \cup {c}
          PROVE  made' \in 0 .. MaxContexts /\ made <= made' /\ pool' \subseteq 1 .. made'
      BY <3>1
    <3>2. CASE UNCHANGED <<made, pool>>
      BY <3>2
    <3> QED BY <1>6, <3>1, <3>2 DEF Browser!RefillPushes
  <2>2. creating' \in Nat
    BY <1>6 DEF Browser!RefillPushes
  <2> QED BY <1>6, <1>4, <2>1, <2>2 DEF Browser!RefillPushes
<1>7. CASE Browser!ShutDownBegins \/ Browser!ShutDownCloses
  BY <1>7 DEF Browser!ShutDownBegins, Browser!ShutDownCloses
<1>8. ASSUME NEW s \in BrowserSessions, Browser!AcquireSlot(s) PROVE Browser!TypeOK'
  BY <1>8 DEF Browser!AcquireSlot
<1>9. ASSUME NEW s \in BrowserSessions, Browser!NeedContext(s) PROVE Browser!TypeOK'
  BY <1>9 DEF Browser!NeedContext
<1>10. ASSUME NEW s \in BrowserSessions, Browser!SlotReady(s) PROVE Browser!TypeOK'
  BY <1>10 DEF Browser!SlotReady
<1>11. ASSUME NEW s \in BrowserSessions, Browser!ContextReady(s) PROVE Browser!TypeOK'
  BY <1>11 DEF Browser!ContextReady
<1>12. ASSUME NEW s \in BrowserSessions, Browser!GetFails(s) \/ Browser!PageCrashes(s)
       PROVE  Browser!TypeOK'
  BY <1>12 DEF Browser!GetFails, Browser!PageCrashes
<1>13. ASSUME NEW s \in BrowserSessions, Browser!ReturnSlot(s) PROVE Browser!TypeOK'
  BY <1>13 DEF Browser!ReturnSlot
<1>14. ASSUME NEW s \in BrowserSessions, Browser!CloseContext(s) \/ Browser!ContextClosed(s)
       PROVE  Browser!TypeOK'
  BY <1>14 DEF Browser!CloseContext, Browser!ContextClosed
<1> QED BY <1>1, <1>2, <1>3, <1>5, <1>6, <1>7, <1>8, <1>9, <1>10, <1>11, <1>12, <1>13,
           <1>14 DEF Browser!Next

(* A context in the pool, or one that is still to be created, has served   *)
(* nobody, and one that has been used has served one session.              *)
Untouched(c) == c \in pool \/ c > made
Clean == \A c \in Browser!Contexts : Untouched(c) => served[c] = {}
OneSessionEach == \A c \in Browser!Contexts : \A s, t \in served[c] : s = t

BrowserInv == Browser!TypeOK /\ Clean /\ OneSessionEach

(* Steps that put nothing into the pool but what has just been created.    *)
LEMMA ServedKept ==
  ASSUME Browser!BrowserAssumption, BrowserInv, UNCHANGED served, made' \in Nat, made <= made',
         \A c \in pool' : c \in pool \/ c > made
  PROVE  Clean' /\ OneSessionEach'
BY DEF BrowserInv, Browser!TypeOK, Clean, OneSessionEach, Untouched, Browser!Contexts,
    Browser!BrowserAssumption

(* A context that nobody has used is taken out for one session.            *)
LEMMA ServedOnce ==
  ASSUME Browser!BrowserAssumption, BrowserInv, NEW c \in Browser!Contexts,
      NEW s \in BrowserSessions,
         Browser!Serves(c, s), Untouched(c), made' \in Nat, made <= made', c <= made',
             c \notin pool',
         pool' \subseteq pool
  PROVE  Clean' /\ OneSessionEach'
BY DEF BrowserInv, Browser!TypeOK, Clean, OneSessionEach, Untouched, Browser!Contexts,
    Browser!Serves, Browser!BrowserAssumption

(* A context is used when it leaves the pool or is created for a session.  *)
LEMMA UsedStep ==
  ASSUME Browser!BrowserAssumption, BrowserInv, [Browser!Next]_(Browser!vars)
  PROVE  Clean' /\ OneSessionEach'
<1> USE DEF BrowserInv, Browser!TypeOK, Browser!Contexts
<1>1. CASE UNCHANGED <<served, made, pool>>
  BY <1>1, ServedKept DEF Browser!BrowserAssumption
<1>2. CASE Browser!WarmEnds
  BY <1>2, ServedKept DEF Browser!WarmEnds, Browser!BrowserAssumption
<1>3. CASE Browser!RefillPushes
  BY <1>3, ServedKept DEF Browser!RefillPushes, Browser!Created, Browser!BrowserAssumption
<1>4. CASE Browser!ShutDownCloses
  BY <1>4, ServedKept DEF Browser!ShutDownCloses, Browser!BrowserAssumption
<1>5. ASSUME NEW s \in BrowserSessions, Browser!AcquireSlot(s) PROVE Clean' /\ OneSessionEach'
  <2>1. PICK c \in pool : pool' = pool \ {c} /\ Browser!Serves(c, s)
    BY <1>5 DEF Browser!AcquireSlot
  <2>2. made' = made /\ c \in Browser!Contexts /\ c <= made' /\ made \in Nat
    BY <1>5, <2>1 DEF Browser!AcquireSlot, Browser!BrowserAssumption
  <2> QED BY <2>1, <2>2, ServedOnce DEF Untouched
<1>6. ASSUME NEW s \in BrowserSessions, Browser!ContextReady(s) PROVE Clean' /\ OneSessionEach'
  <2>1. PICK c \in Browser!Contexts : Browser!Created(c) /\ Browser!Serves(c, s)
    BY <1>6 DEF Browser!ContextReady
  <2>2. pool' = pool
    BY <1>6 DEF Browser!ContextReady
  <2>3. /\ c > made /\ made' = c /\ made \in Nat /\ c \notin pool
    BY <2>1 DEF Browser!Created, Browser!BrowserAssumption
  <2> QED BY <2>1, <2>2, <2>3, ServedOnce DEF Untouched
<1>7. ASSUME NEW s \in BrowserSessions,
             Browser!NeedContext(s) \/ Browser!SlotReady(s) \/ Browser!GetFails(s)
                 \/ Browser!PageCrashes(s) \/ Browser!ReturnSlot(s)
             \/ Browser!CloseContext(s) \/ Browser!ContextClosed(s)
      PROVE  UNCHANGED <<served, made, pool>>
  BY <1>7 DEF Browser!NeedContext, Browser!SlotReady, Browser!GetFails, Browser!PageCrashes,
      Browser!ReturnSlot, Browser!CloseContext,
              Browser!ContextClosed
<1>8. CASE Browser!WarmBegins \/ Browser!RefillLooks \/ Browser!ShutDownBegins
        \/ UNCHANGED Browser!vars
  BY <1>1, <1>8 DEF Browser!WarmBegins, Browser!RefillLooks, Browser!ShutDownBegins, Browser!vars
<1> QED BY <1>1, <1>2, <1>3, <1>4, <1>5, <1>6, <1>7, <1>8 DEF Browser!Next

(* A step of the whole is a step of the browser, or changes nothing of     *)
(* theirs.                                                                 *)
LEMMA BrowserAlone == [Next]_vars => [Browser!Next]_(Browser!vars)
<1> SUFFICES ASSUME [Next]_vars PROVE [Browser!Next]_(Browser!vars)
  OBVIOUS
<1>1. CASE BrowserMoves
  BY <1>1 DEF BrowserMoves
<1>2. UNCHANGED browserVars => UNCHANGED Browser!vars
  BY DEF browserVars, Browser!vars
<1>3. ASSUME UNCHANGED vars \/ PoolMoves \/ BreakerMoves \/ LinkedMoves \/ CacheMoves
             \/ AgentsMove \/ PrivateMoves \/ ModelsMove \/ SwarmMoves
             \/ NipMoves
      PROVE  UNCHANGED browserVars
  BY <1>3 DEF vars, PoolMoves, BreakerMoves, LinkedMoves, CacheMoves, AgentsMove, PrivateMoves,
      ModelsMove, SwarmMoves, NipMoves
<1> QED BY <1>1, <1>2, <1>3 DEF Next

(* The types, and that contexts serve one session each.                    *)
LEMMA BrowserInvariant == Spec => []BrowserInv
<1>1. Browser!BrowserAssumption
  BY ServicesAssumption
<1>2. Init => BrowserInv
  BY <1>1 DEF Init, Browser!Init, BrowserInv, Browser!TypeOK, Clean, OneSessionEach, Untouched,
      Browser!Contexts, Browser!BrowserAssumption
<1>3. BrowserInv /\ [Next]_vars => BrowserInv'
  BY <1>1, BrowserAlone, BrowserTypeStep, UsedStep DEF BrowserInv
<1> QED BY <1>2, <1>3, PTL DEF Spec

(* A context serves one session in its life, and what the pool holds has   *)
(* served none.                                                            *)
THEOREM ContextsServeOnce == Spec => []ContextsUnshared
<1>1. BrowserInv => ContextsUnshared
  <2> SUFFICES ASSUME BrowserInv PROVE ContextsUnshared
    OBVIOUS
  <2>1. \A c \in Browser!Contexts : Cardinality(served[c]) <= 1
    BY AtMostOne DEF BrowserInv, OneSessionEach
  <2>2. \A c \in pool : served[c] = {}
    BY ServicesAssumption DEF BrowserInv, Browser!TypeOK, Clean, Untouched, Browser!Contexts,
                Browser!BrowserAssumption
  <2> QED BY <2>1, <2>2, SameSize DEF ContextsUnshared, Browser!ContextsUnshared
<1> QED BY <1>1, BrowserInvariant, PTL

-----------------------------------------------------------------------------
(* The NIP sessions. *)

(* What the handlers leave of a session is a state, and what they keep of  *)
(* its messages a number within the cap.                                   *)
LEMMA NipTypeStep ==
  ASSUME Nip!NipAssumption, Nip!TypeOK, [Nip!Next]_(Nip!vars)
  PROVE  Nip!TypeOK'
<1> USE Nip!NipAssumption DEF Nip!TypeOK, Nip!NipAssumption, Nip!Open, Nip!Ended
<1>1. ASSUME NEW n \in Limits, Nip!Register(n) PROVE Nip!TypeOK'
  BY <1>1 DEF Nip!Register
<1>2. CASE Nip!Approve \/ Nip!Revoke
  BY <1>2 DEF Nip!Approve, Nip!Revoke
<1>3. ASSUME NEW b \in BOOLEAN, Nip!Moderate(b) PROVE Nip!TypeOK'
  BY <1>3 DEF Nip!Moderate
<1>4. ASSUME NEW n \in 0 .. MessagesCap, NEW k \in Nat
      PROVE  Nip!Appended(n, k) \in 0 .. MessagesCap
  BY <1>4 DEF Nip!Appended
<1>5. ASSUME NEW s \in NipSessionIds, NEW k \in Nat, Nip!Keep(s, k)
      PROVE  messages' \in [NipSessionIds -> 0 .. MessagesCap]
  BY <1>4, <1>5 DEF Nip!Keep
<1>6. ASSUME NEW s \in NipSessionIds, Nip!Create(s) PROVE Nip!TypeOK'
  BY <1>5, <1>6 DEF Nip!Create
<1>7. ASSUME NEW s \in NipSessionIds,
             Nip!Pause(s) \/ Nip!Resume(s) \/ Nip!Terminate(s) \/ Nip!Complete(s)
      PROVE  Nip!TypeOK'
  BY <1>5, <1>7 DEF Nip!Pause, Nip!Resume, Nip!Terminate, Nip!Complete, Nip!Turns
<1>8. ASSUME NEW s \in NipSessionIds, Nip!GenerateReport(s) PROVE Nip!TypeOK'
  BY <1>8 DEF Nip!GenerateReport
<1>9. ASSUME NEW s \in NipSessionIds, Nip!Speak(s) PROVE Nip!TypeOK'
  <2>1. PICK k \in Nat : Nip!Keep(s, k)
    BY <1>9 DEF Nip!Speak, Nip!Refused
  <2>2. nip' \in [NipSessionIds -> Nip!Open \cup Nip!Ended \cup {None}]
    BY <1>9 DEF Nip!Speak, Nip!Refused, Nip!Paused, Nip!Stopped
  <2>3. spoken' \in [NipSessionIds -> Nat] /\ UNCHANGED <<report, party, active>>
    BY <1>9 DEF Nip!Speak, Nip!Refused
  <2> QED BY <1>5, <2>1, <2>2, <2>3
<1>10. CASE UNCHANGED Nip!vars
  BY <1>10 DEF Nip!vars
<1> QED BY <1>1, <1>2, <1>3, <1>6, <1>7, <1>8, <1>9, <1>10 DEF Nip!Next

(* A message and its alerts leave a session that has ended ended, and one  *)
(* that has not become live without it.                                    *)
LEMMA SpeakingNeverRevives ==
  ASSUME NEW s \in NipSessionIds, Nip!TypeOK, Nip!Speak(s)
  PROVE  /\ \A x \in NipSessionIds : nip[x] \in Nip!Ended => nip'[x] \in Nip!Ended
         /\ Nip!Live(nip') \subseteq Nip!Live(nip)
<1> USE DEF Nip!TypeOK, Nip!Ended, Nip!Open
<1>1. ASSUME NEW x \in NipSessionIds, x # s PROVE nip'[x] = nip[x]
  BY <1>1 DEF Nip!Speak, Nip!Refused
<1>2. nip'[s] \in {nip[s], "locked", Nip!Paused(nip[s]), Nip!Stopped(nip[s])} /\ nip[s] # None
  BY DEF Nip!Speak, Nip!Refused
<1>3. /\ nip[s] \in Nip!Ended => nip'[s] \in Nip!Ended
      /\ nip'[s] \in Nip!Open => nip[s] \in Nip!Open
  BY <1>2 DEF Nip!Paused, Nip!Stopped
<1> QED BY <1>1, <1>3 DEF Nip!Live

(* A reported session had ended, and no handler takes it back from there.  *)
LEMMA ReportStep ==
  ASSUME Nip!NipAssumption, Nip!TypeOK, Nip!ReportsOfEnded, [Nip!Next]_(Nip!vars)
  PROVE  Nip!ReportsOfEnded'
<1> USE Nip!NipAssumption DEF Nip!TypeOK, Nip!ReportsOfEnded, Nip!Open, Nip!Ended
<1>1. CASE UNCHANGED <<nip, report>>
  BY <1>1
<1>2. ASSUME NEW s \in NipSessionIds, Nip!Create(s) PROVE Nip!ReportsOfEnded'
  BY <1>2 DEF Nip!Create, Nip!NipAssumption
<1>3. ASSUME NEW s \in NipSessionIds,
             Nip!Pause(s) \/ Nip!Resume(s) \/ Nip!Terminate(s) \/ Nip!Complete(s)
      PROVE  Nip!ReportsOfEnded'
  BY <1>3 DEF Nip!Pause, Nip!Resume, Nip!Terminate, Nip!Complete, Nip!Turns
<1>4. ASSUME NEW s \in NipSessionIds, Nip!GenerateReport(s) PROVE Nip!ReportsOfEnded'
  BY <1>4 DEF Nip!GenerateReport
<1>5. ASSUME NEW s \in NipSessionIds, Nip!Speak(s) PROVE Nip!ReportsOfEnded'
  <2>1. UNCHANGED report
    BY <1>5 DEF Nip!Speak
  <2> QED BY <1>5, <2>1, SpeakingNeverRevives
<1>6. CASE (\E n \in Limits : Nip!Register(n)) \/ Nip!Approve \/ Nip!Revoke
           \/ (\E b \in BOOLEAN : Nip!Moderate(b))
  BY <1>1, <1>6 DEF Nip!Register, Nip!Approve, Nip!Revoke, Nip!Moderate
<1>7. CASE UNCHANGED Nip!vars
  BY <1>1, <1>7 DEF Nip!vars
<1> QED BY <1>2, <1>3, <1>4, <1>5, <1>6, <1>7 DEF Nip!Next

(* Only a new session, counted with the others, becomes live.              *)
LEMMA AdmittedStep ==
  ASSUME Nip!NipAssumption, Nip!TypeOK, Nip!Next
  PROVE  Nip!AdmittedOnly
<1> USE Nip!NipAssumption DEF Nip!TypeOK, Nip!Open, Nip!Ended
<1>1. CASE UNCHANGED nip
  BY <1>1 DEF Nip!AdmittedOnly
<1>2. ASSUME NEW s \in NipSessionIds, Nip!Create(s) PROVE Nip!AdmittedOnly
  <2>1. IsFiniteSet(Nip!Live(nip))
    <3>1. IsFiniteSet(NipSessionIds)
      BY SameSize DEF Nip!NipAssumption
    <3> QED BY <3>1, FS_Subset DEF Nip!Live
  <2>2. s \notin Nip!Live(nip) /\ Nip!Live(nip') = Nip!Live(nip) \cup {s}
    BY <1>2 DEF Nip!Create, Nip!Live, Nip!NipAssumption
  <2>3. Cardinality(Nip!Live(nip')) = Cardinality(Nip!Live(nip)) + 1
    BY <2>1, <2>2, FS_AddElement
  <2>4. Cardinality(Nip!Live(nip)) \in Nat
    BY <2>1, FS_CardinalityType
  <2>5. party # None /\ party.approved /\ active /\ Cardinality(Nip!Live(nip)) < party.limit
    BY <1>2, SameSize DEF Nip!Create
  <2>6. party.limit \in Nat
    BY <2>5 DEF Nip!NipAssumption
  <2>7. Cardinality(Nip!Live(nip')) <= party.limit
    BY <2>3, <2>4, <2>5, <2>6
  <2> QED BY <2>5, <2>7, SameSize DEF Nip!AdmittedOnly
<1>3. ASSUME NEW s \in NipSessionIds,
             Nip!Pause(s) \/ Nip!Resume(s) \/ Nip!Terminate(s) \/ Nip!Complete(s)
      PROVE  Nip!AdmittedOnly
  BY <1>3 DEF Nip!Pause, Nip!Resume, Nip!Terminate, Nip!Complete, Nip!Turns, Nip!Live,
      Nip!AdmittedOnly
<1>4. ASSUME NEW s \in NipSessionIds, Nip!Speak(s) PROVE Nip!AdmittedOnly
  BY <1>4, SpeakingNeverRevives DEF Nip!AdmittedOnly
<1>5. CASE (\E n \in Limits : Nip!Register(n)) \/ Nip!Approve \/ Nip!Revoke
           \/ (\E b \in BOOLEAN : Nip!Moderate(b))
           \/ (\E s \in NipSessionIds : Nip!GenerateReport(s))
  BY <1>1, <1>5 DEF Nip!Register, Nip!Approve, Nip!Revoke, Nip!Moderate, Nip!GenerateReport
<1> QED BY <1>2, <1>3, <1>4, <1>5 DEF Nip!Next

(* The list a session keeps never gets shorter, and holds what its agents  *)
(* said, or as much as the limit allows them to say.                       *)
Heard == \A s \in NipSessionIds :
    spoken[s] <= MaxMessages /\ (spoken[s] <= messages[s] \/ MaxMessages <= messages[s])

LEMMA KeepingGrows ==
  ASSUME Nip!NipAssumption, NEW n \in 0 .. MessagesCap, NEW k \in Nat
  PROVE  /\ n <= Nip!Appended(n, k)
         /\ k > 0 => n + 1 <= Nip!Appended(n, k) \/ Nip!Appended(n, k) = MessagesCap
BY DEF Nip!Appended, Nip!NipAssumption

LEMMA HeardStep ==
  ASSUME Nip!NipAssumption, Nip!TypeOK, MaxMessages <= MessagesCap, Heard,
         [Nip!Next]_(Nip!vars)
  PROVE  Heard'
<1> USE Nip!NipAssumption DEF Nip!TypeOK, Nip!NipAssumption
<1>1. CASE UNCHANGED <<spoken, messages>>
  BY <1>1 DEF Heard
<1>2. ASSUME NEW s \in NipSessionIds, NEW k \in Nat, Nip!Keep(s, k)
      PROVE  \A x \in NipSessionIds : messages[x] <= messages'[x]
  <2> SUFFICES ASSUME NEW x \in NipSessionIds PROVE messages[x] <= messages'[x]
    OBVIOUS
  <2>1. messages[s] <= Nip!Appended(messages[s], k)
    BY KeepingGrows
  <2>2. messages'[x] = IF x = s THEN Nip!Appended(messages[s], k) ELSE messages[x]
    BY <1>2 DEF Nip!Keep
  <2> QED BY <2>1, <2>2
<1>3. ASSUME NEW s \in NipSessionIds, NEW k \in Nat, Nip!Keep(s, k), UNCHANGED spoken
      PROVE  Heard'
  <2>1. messages' \in [NipSessionIds -> 0 .. MessagesCap]
    BY <1>3 DEF Nip!Keep, Nip!Appended
  <2> QED BY <1>2, <1>3, <2>1 DEF Heard
<1>4. ASSUME NEW s \in NipSessionIds,
             \/ Nip!Create(s) \/ Nip!Pause(s) \/ Nip!Resume(s)
             \/ Nip!Terminate(s) \/ Nip!Complete(s)
      PROVE  Heard'
  BY <1>3, <1>4 DEF Nip!Create, Nip!Pause, Nip!Resume, Nip!Terminate, Nip!Complete, Nip!Turns
<1>5. ASSUME NEW s \in NipSessionIds, Nip!Speak(s) PROVE Heard'
  <2>1. CASE UNCHANGED spoken
    <3>1. PICK k \in Nat : Nip!Keep(s, k)
      BY <1>5 DEF Nip!Speak, Nip!Refused
    <3> QED BY <1>3, <2>1, <3>1
  <2>2. CASE spoken' # spoken
    <3>1. PICK k \in Nat \ {0} : Nip!Keep(s, k)
      BY <1>5, <2>2 DEF Nip!Speak, Nip!Refused
    <3>2. messages[s] < MaxMessages /\ spoken' = [spoken EXCEPT ![s] = @ + 1]
      BY <1>5, <2>2 DEF Nip!Speak, Nip!Refused, Nip!HasRoom
    <3>3. spoken[s] + 1 <= MaxMessages /\ spoken[s] <= messages[s]
      BY <3>2 DEF Heard
    <3>4. messages' = [messages EXCEPT ![s] = Nip!Appended(messages[s], k)]
      BY <3>1 DEF Nip!Keep
    <3>5. messages[s] + 1 <= messages'[s] \/ messages'[s] = MessagesCap
      BY <3>1, <3>4, KeepingGrows
    <3>6. messages'[s] \in Nat
      BY <3>4 DEF Nip!Appended
    <3>7. /\ spoken'[s] <= MaxMessages
          /\ spoken'[s] <= messages'[s] \/ MaxMessages <= messages'[s]
      BY <3>2, <3>3, <3>5, <3>6
    <3> QED BY <3>2, <3>4, <3>7 DEF Heard
  <2> QED BY <2>1, <2>2
<1>6. CASE (\E n \in Limits : Nip!Register(n)) \/ Nip!Approve \/ Nip!Revoke
           \/ (\E b \in BOOLEAN : Nip!Moderate(b))
           \/ (\E s \in NipSessionIds : Nip!GenerateReport(s))
  BY <1>1, <1>6 DEF Nip!Register, Nip!Approve, Nip!Revoke, Nip!Moderate, Nip!GenerateReport
<1>7. CASE UNCHANGED Nip!vars
  BY <1>1, <1>7 DEF Nip!vars
<1> QED BY <1>4, <1>5, <1>6, <1>7 DEF Nip!Next

(* A step of the whole is a step of the NIP sessions, or changes nothing   *)
(* of theirs.                                                              *)
LEMMA NipAlone == [Next]_vars => [Nip!Next]_(Nip!vars)
<1> SUFFICES ASSUME [Next]_vars PROVE [Nip!Next]_(Nip!vars)
  OBVIOUS
<1>1. CASE NipMoves
  BY <1>1 DEF NipMoves
<1>2. UNCHANGED nipVars => UNCHANGED Nip!vars
  BY DEF nipVars, Nip!vars
<1>3. ASSUME UNCHANGED vars \/ PoolMoves \/ BreakerMoves \/ LinkedMoves \/ CacheMoves
             \/ AgentsMove \/ PrivateMoves \/ ModelsMove \/ SwarmMoves \/ BrowserMoves
      PROVE  UNCHANGED nipVars
  BY <1>3 DEF vars, PoolMoves, BreakerMoves, LinkedMoves, CacheMoves, AgentsMove, PrivateMoves,
      ModelsMove, SwarmMoves, BrowserMoves
<1> QED BY <1>1, <1>2, <1>3 DEF Next

NipInv == Nip!TypeOK /\ Nip!ReportsOfEnded

LEMMA NipInvariant == Spec => []NipInv
<1>1. Nip!NipAssumption
  BY ServicesAssumption
<1>2. Init => NipInv
  BY <1>1 DEF Init, Nip!Init, NipInv, Nip!TypeOK, Nip!ReportsOfEnded, Nip!NipAssumption
<1>3. NipInv /\ [Next]_vars => NipInv'
  BY <1>1, NipAlone, NipTypeStep, ReportStep DEF NipInv
<1> QED BY <1>2, <1>3, PTL DEF Spec

(* A report is never of a session that goes on, or can again.              *)
THEOREM ReportsAreFinal == Spec => []ReportsOfEnded
<1>1. NipInv => ReportsOfEnded
  BY DEF NipInv, ReportsOfEnded, Nip!ReportsOfEnded
<1> QED BY <1>1, NipInvariant, PTL

(* No session becomes live but by its creation, for an approved            *)
(* organisation and an identity in good standing, within the limit.        *)
THEOREM AdmittedWithinLimit == Spec => LiveWithinLimit
<1>1. Nip!NipAssumption
  BY ServicesAssumption
<1>2. NipInv /\ [Next]_vars => [Nip!AdmittedOnly]_(Nip!vars)
  BY <1>1, NipAlone, AdmittedStep DEF NipInv
<1> QED BY <1>2, NipInvariant, PTL DEF Spec, LiveWithinLimit, Nip!LiveWithinLimit

(* A limit of messages that is not above what a session keeps is a limit   *)
(* of what its agents say, though the list it is compared with is cut.     *)
THEOREM LimitIsHard == Spec => []HeardWithinLimit
<1> DEFINE HeardInv == MaxMessages <= MessagesCap => Heard
<1>1. Nip!NipAssumption
  BY ServicesAssumption
<1>2. Init => HeardInv
  BY <1>1 DEF Init, Nip!Init, Heard, Nip!NipAssumption
<1>3. NipInv /\ HeardInv /\ [Next]_vars => HeardInv'
  BY <1>1, NipAlone, HeardStep DEF NipInv
<1>4. HeardInv => HeardWithinLimit
  BY DEF Heard, HeardWithinLimit, Nip!HeardWithinLimit, Nip!HardCap
<1> HIDE DEF HeardInv
<1> QED BY <1>2, <1>3, <1>4, NipInvariant, PTL DEF Spec

-----------------------------------------------------------------------------
(* The linked list of the caches: the invariant says which sequence of     *)
(* keys the pointers spell, in both directions, and that it is the map.    *)

(* The first n elements of s, without the i-th.                            *)
Skipping(s, i, n) == IF n < i THEN SubSeq(s, 1, n) ELSE SubSeq(s, 1, i - 1) \o SubSeq(s, i + 1, n)

(* Its elements: those after the i-th move down by one.                    *)
LEMMA SkippingIs ==
  ASSUME NEW S, NEW s \in Seq(S), NEW i \in 1 .. Len(s) + 1, NEW n \in 0 .. Len(s)
  PROVE  /\ Skipping(s, i, n) \in Seq(S)
         /\ Len(Skipping(s, i, n)) = IF n < i THEN n ELSE n - 1
         /\ \A j \in 1 .. Len(Skipping(s, i, n)) :
              Skipping(s, i, n)[j] = IF j < i THEN s[j] ELSE s[j + 1]
<1>0. Len(s) \in Nat /\ i \in Nat /\ n \in Nat
  OBVIOUS
<1>1. CASE n < i
  <2>1. /\ SubSeq(s, 1, n) \in Seq(S) /\ Len(SubSeq(s, 1, n)) = n
        /\ \A j \in 1 .. n : SubSeq(s, 1, n)[j] = s[j]
    BY <1>0
  <2> QED BY <1>0, <1>1, <2>1 DEF Skipping
<1>2. CASE ~(n < i)
  <2> DEFINE p == SubSeq(s, 1, i - 1)
             q == SubSeq(s, i + 1, n)
  <2>1. p \in Seq(S) /\ Len(p) = i - 1 /\ \A j \in 1 .. i - 1 : p[j] = s[j]
    BY <1>0, <1>2
  <2>2. q \in Seq(S) /\ Len(q) = n - i /\ \A j \in 1 .. n - i : q[j] = s[j + i]
    BY <1>0, <1>2
  <2> HIDE DEF p, q
  <2>3. /\ p \o q \in Seq(S) /\ Len(p \o q) = n - 1
        /\ \A j \in 1 .. n - 1 : (p \o q)[j] = IF j <= i - 1 THEN p[j] ELSE q[j - (i - 1)]
    <3>1. /\ p \o q \in Seq(S) /\ Len(p \o q) = Len(p) + Len(q)
          /\ \A j \in 1 .. Len(p) + Len(q) :
                (p \o q)[j] = IF j <= Len(p) THEN p[j] ELSE q[j - Len(p)]
      BY <2>1, <2>2, ConcatProperties
    <3>2. Len(p) + Len(q) = n - 1
      BY <1>0, <2>1, <2>2
    <3> QED BY <2>1, <3>1, <3>2
  <2>4. ASSUME NEW j \in 1 .. n - 1 PROVE (p \o q)[j] = IF j < i THEN s[j] ELSE s[j + 1]
    <3>1. CASE j < i
      <4>1. j <= i - 1 /\ j \in 1 .. i - 1
        BY <1>0, <3>1
      <4> QED BY <2>1, <2>3, <3>1, <4>1
    <3>2. CASE ~(j < i)
      <4>1. ~(j <= i - 1) /\ j - (i - 1) \in 1 .. n - i /\ (j - (i - 1)) + i = j + 1
        BY <1>0, <3>2
      <4> QED BY <2>2, <2>3, <3>2, <4>1
    <3> QED BY <3>1, <3>2
  <2>5. Skipping(s, i, n) = p \o q
    BY <1>2 DEF Skipping, p, q
  <2> QED BY <1>2, <2>3, <2>4, <2>5
<1> QED BY <1>1, <1>2

(* The step from one to the next: the i-th is left out.                    *)
LEMMA SkippingStep ==
  ASSUME NEW s \in Seq(Keys), NEW i \in 1 .. Len(s) + 1, NEW n \in 1 .. Len(s)
  PROVE  Skipping(s, i, n) = IF n = i THEN Skipping(s, i, n - 1)
                             ELSE Append(Skipping(s, i, n - 1), s[n])
<1> DEFINE a == Skipping(s, i, n - 1)
           b == Skipping(s, i, n)
<1>0. /\ Len(s) \in Nat /\ i \in Nat /\ n \in Nat
      /\ n - 1 \in 0 .. Len(s) /\ n \in 0 .. Len(s) /\ s[n] \in Keys
  OBVIOUS
<1>1. /\ a \in Seq(Keys) /\ Len(a) = IF n - 1 < i THEN n - 1 ELSE (n - 1) - 1
      /\ \A j \in 1 .. Len(a) : a[j] = IF j < i THEN s[j] ELSE s[j + 1]
  BY <1>0, SkippingIs
<1>2. /\ b \in Seq(Keys) /\ Len(b) = IF n < i THEN n ELSE n - 1
      /\ \A j \in 1 .. Len(b) : b[j] = IF j < i THEN s[j] ELSE s[j + 1]
  BY <1>0, SkippingIs
<1> HIDE DEF a, b
<1>3. CASE n = i
  <2>1. Len(a) = n - 1 /\ Len(b) = n - 1
    BY <1>0, <1>1, <1>2, <1>3
  <2>2. \A j \in 1 .. Len(a) : a[j] = b[j]
    BY <1>1, <1>2, <2>1
  <2>3. a = b
    BY <1>1, <1>2, <2>1, <2>2, SeqEqual
  <2> QED BY <1>3, <2>3 DEF a, b
<1>4. CASE n # i
  <2> DEFINE c == Append(a, s[n])
  <2>1. c \in Seq(Keys) /\ Len(c) = Len(a) + 1 /\ c[Len(a) + 1] = s[n]
        /\ \A j \in 1 .. Len(a) : c[j] = a[j]
    BY <1>0, <1>1
  <2> HIDE DEF c
  <2>2. Len(b) = Len(a) + 1
    BY <1>0, <1>1, <1>2, <1>4
  <2>3. ASSUME NEW j \in 1 .. Len(b) PROVE b[j] = c[j]
    <3>1. CASE j = Len(b)
      <4>1. (IF j < i THEN s[j] ELSE s[j + 1]) = s[n]
        <5>1. CASE n < i
          BY <1>0, <1>2, <3>1, <5>1
        <5>2. CASE ~(n < i)
          <6>1. j = n - 1 /\ ~(j < i) /\ j + 1 = n
            BY <1>0, <1>2, <1>4, <3>1, <5>2
          <6> QED BY <6>1
        <5> QED BY <5>1, <5>2
      <4>2. c[j] = s[n]
        BY <2>1, <2>2, <3>1
      <4> QED BY <1>2, <4>1, <4>2
    <3>2. CASE j # Len(b)
      <4>1. j \in 1 .. Len(a)
        BY <1>0, <1>1, <2>2, <3>2
      <4> QED BY <1>1, <1>2, <2>1, <4>1
    <3> QED BY <3>1, <3>2
  <2>4. b = c
    <3>1. Len(b) = Len(c)
      BY <2>1, <2>2
    <3> QED BY <1>2, <2>1, <2>3, <3>1, SeqEqual
  <2> QED BY <1>4, <2>4 DEF a, b, c
<1> QED BY <1>3, <1>4

(* The list without a key: its place, or none, is i.                       *)
LEMMA WithoutIs ==
  ASSUME NEW s \in Seq(Keys), NEW i \in 1 .. Len(s) + 1, NEW k,
         \A j \in 1 .. Len(s) : s[j] = k <=> j = i
  PROVE  Linked!Recency!Without(s, {k}) = Skipping(s, i, Len(s))
<1> DEFINE After(it, n) == IF n = 0 THEN <<>>
                           ELSE IF s[n] \in {k} THEN it[n - 1] ELSE Append(it[n - 1], s[n])
           kept == CHOOSE it : it = [n \in 0 .. Len(s) |-> After(it, n)]
           W == [n \in 0 .. Len(s) |-> Skipping(s, i, n)]
           Good == {n \in Nat : n <= Len(s) => kept[n] = Skipping(s, i, n)}
<1>0. Len(s) \in Nat
  OBVIOUS
<1>1. Skipping(s, i, 0) = <<>>
  <2>1. 0 \in 0 .. Len(s) /\ 0 < i
    BY <1>0
  <2>2. Skipping(s, i, 0) \in Seq(Keys) /\ Len(Skipping(s, i, 0)) = 0
    BY <2>1, SkippingIs
  <2> QED BY <2>2
<1>2. ASSUME NEW n \in 0 .. Len(s) PROVE W[n] = After(W, n)
  <2>1. CASE n = 0
    BY <1>1, <2>1
  <2>2. CASE n # 0
    <3>1. n \in 1 .. Len(s) /\ n - 1 \in 0 .. Len(s)
      BY <1>0, <2>2
    <3>2. W[n] = Skipping(s, i, n) /\ W[n - 1] = Skipping(s, i, n - 1)
      BY <3>1
    <3> HIDE DEF W
    <3> QED BY <2>2, <3>1, <3>2, SkippingStep
  <2> QED BY <2>1, <2>2
<1>3. W = [n \in 0 .. Len(s) |-> After(W, n)]
  BY <1>2
<1>4. kept = [n \in 0 .. Len(s) |-> After(kept, n)]
  <2> HIDE DEF W, After
  <2> QED BY <1>3
<1> HIDE DEF kept, W
<1>5. 0 \in Good
  BY <1>0, <1>1, <1>4
<1>6. ASSUME NEW n \in Nat, n \in Good PROVE n + 1 \in Good
  <2> SUFFICES ASSUME n + 1 <= Len(s) PROVE kept[n + 1] = Skipping(s, i, n + 1)
    OBVIOUS
  <2>1. kept[n] = Skipping(s, i, n) /\ n + 1 \in 1 .. Len(s) /\ n + 1 \in 0 .. Len(s)
        /\ n + 1 # 0 /\ (n + 1) - 1 = n
    BY <1>0, <1>6
  <2>2. kept[n + 1] = After(kept, n + 1)
    BY <1>4, <2>1
  <2>3. Skipping(s, i, n + 1) = IF n + 1 = i THEN Skipping(s, i, (n + 1) - 1)
                                        ELSE Append(Skipping(s, i, (n + 1) - 1), s[n + 1])
    BY <2>1, SkippingStep
  <2> QED BY <2>1, <2>2, <2>3
<1>7. kept[Len(s)] = Skipping(s, i, Len(s))
  <2>1. Nat \subseteq Good
    <3> HIDE DEF Good
    <3> QED BY <1>5, <1>6, EveryNatural
  <2> QED BY <1>0, <2>1
<1>8. Linked!Recency!Without(s, {k}) = kept[Len(s)]
  BY DEF Linked!Recency!Without, kept
<1> QED BY <1>7, <1>8

-----------------------------------------------------------------------------
(* The pointers spell the keys of s, latest use first.                     *)
Lists == [head : Keys \cup {None}, tail : Keys \cup {None},
          next : [Keys -> Keys \cup {None}], prev : [Keys -> Keys \cup {None}]]
Spells(l, s) ==
  /\ s \in Seq(Keys) /\ l \in Lists
  /\ \A i, j \in 1 .. Len(s) : s[i] = s[j] => i = j
  /\ l.head = IF Len(s) = 0 THEN None ELSE s[1]
  /\ l.tail = IF Len(s) = 0 THEN None ELSE s[Len(s)]
  /\ \A i \in 1 .. Len(s) : /\ l.next[s[i]] = IF i = Len(s) THEN None ELSE s[i + 1]
                            /\ l.prev[s[i]] = IF i = 1 THEN None ELSE s[i - 1]

(* Walking from the head spells them.                                      *)
LEMMA WalkIs ==
  ASSUME None \notin Keys, IsFiniteSet(Keys), NEW s, Spells(list, s), Len(s) <= Cardinality(Keys)
  PROVE  Linked!Walk = s
<1> DEFINE C == Cardinality(Keys)
           Node(before) == IF before = <<>> THEN list.head ELSE list.next[before[Len(before)]]
           After(it, n) == IF n = 0 THEN <<>>
                           ELSE IF Node(it[n - 1]) = None THEN it[n - 1]
                           ELSE Append(it[n - 1], Node(it[n - 1]))
           met == CHOOSE it : it = [n \in 0 .. C |-> After(it, n)]
           First(n) == SubSeq(s, 1, IF n <= Len(s) THEN n ELSE Len(s))
           W == [n \in 0 .. C |-> First(n)]
           Good == {n \in Nat : n <= C => met[n] = First(n)}
<1>0. C \in Nat /\ s \in Seq(Keys) /\ Len(s) \in Nat
  BY FS_CardinalityType DEF Spells
<1>1. \A n \in Nat : n <= Len(s) =>
        /\ First(n) \in Seq(Keys) /\ Len(First(n)) = n
        /\ \A j \in 1 .. n : First(n)[j] = s[j]
  BY <1>0
<1>2. \A n \in Nat : n > Len(s) => First(n) = First(Len(s))
  BY <1>0
<1>3. First(0) = <<>>
  BY <1>0, <1>1
<1>4. First(Len(s)) = s
  BY <1>0, <1>1, SeqEqual
<1>5. ASSUME NEW n \in Nat, n + 1 <= Len(s)
      PROVE  /\ Node(First(n)) = s[n + 1] /\ Node(First(n)) # None
             /\ First(n + 1) = Append(First(n), s[n + 1])
  <2> DEFINE a == First(n)
             b == First(n + 1)
             c == Append(a, s[n + 1])
  <2>0. n + 1 \in 1 .. Len(s) /\ s[n + 1] \in Keys
    BY <1>0, <1>5
  <2>1. a \in Seq(Keys) /\ Len(a) = n /\ \A j \in 1 .. n : a[j] = s[j]
    BY <1>0, <1>1, <1>5
  <2>2. b \in Seq(Keys) /\ Len(b) = n + 1 /\ \A j \in 1 .. n + 1 : b[j] = s[j]
    BY <1>0, <1>1, <1>5
  <2> HIDE DEF a, b
  <2>3. c \in Seq(Keys) /\ Len(c) = n + 1 /\ c[n + 1] = s[n + 1] /\ \A j \in 1 .. n : c[j] = a[j]
    BY <2>0, <2>1
  <2> HIDE DEF c
  <2>4. \A j \in 1 .. n + 1 : b[j] = c[j]
    <3> SUFFICES ASSUME NEW j \in 1 .. n + 1 PROVE b[j] = c[j]
      OBVIOUS
    <3>1. j \in 1 .. n \/ j = n + 1
      BY <1>5
    <3> QED BY <2>1, <2>2, <2>3, <3>1
  <2>5. b = c
    BY <2>2, <2>3, <2>4, SeqEqual
  <2>6. Node(a) = s[n + 1]
    <3>1. CASE n = 0
      <4>1. a = <<>> /\ Len(s) # 0
        BY <1>0, <1>5, <2>1, <3>1
      <4> QED BY <3>1, <4>1 DEF Spells
    <3>2. CASE n # 0
      <4>1. n \in 1 .. Len(s) /\ n # Len(s) /\ a # <<>> /\ a[Len(a)] = s[n]
        BY <1>0, <1>5, <2>1, <3>2
      <4>2. list.next[s[n]] = s[n + 1]
        BY <4>1 DEF Spells
      <4> QED BY <4>1, <4>2
    <3> QED BY <3>1, <3>2
  <2> QED BY <2>0, <2>5, <2>6 DEF a, b, c
<1>6. Node(s) = None
  <2>1. CASE Len(s) = 0
    <3>1. s = <<>>
      BY <1>0, <2>1
    <3> QED BY <2>1, <3>1 DEF Spells
  <2>2. CASE Len(s) # 0
    <3>1. s # <<>> /\ Len(s) \in 1 .. Len(s)
      BY <1>0, <2>2
    <3> QED BY <3>1 DEF Spells
  <2> QED BY <2>1, <2>2
<1> HIDE DEF First, Node
<1>7. ASSUME NEW n \in Nat
      PROVE  First(n + 1) = IF Node(First(n)) = None THEN First(n)
                                                     ELSE Append(First(n), Node(First(n)))
  <2>1. CASE n + 1 <= Len(s)
    BY <1>5, <2>1
  <2>2. CASE ~(n + 1 <= Len(s))
    <3>1. First(n) = s /\ First(n + 1) = s
      <4>1. n + 1 > Len(s) /\ (n = Len(s) \/ n > Len(s))
        BY <1>0, <2>2
      <4> QED BY <1>2, <1>4, <4>1
    <3> QED BY <1>6, <3>1
  <2> QED BY <2>1, <2>2
<1>8. W = [n \in 0 .. C |-> After(W, n)]
  <2>1. ASSUME NEW n \in 0 .. C PROVE W[n] = After(W, n)
    <3>1. CASE n = 0
      BY <1>3, <3>1
    <3>2. CASE n # 0
      <4>1. n - 1 \in Nat /\ n - 1 \in 0 .. C /\ (n - 1) + 1 = n
        BY <1>0, <3>2
      <4>2. W[n] = First(n) /\ W[n - 1] = First(n - 1)
        BY <4>1
      <4> HIDE DEF W
      <4> QED BY <1>7, <3>2, <4>1, <4>2
    <3> QED BY <3>1, <3>2
  <2> QED BY <2>1
<1>9. met = [n \in 0 .. C |-> After(met, n)]
  <2> HIDE DEF W, After
  <2> QED BY <1>8
<1> HIDE DEF met, W
<1>10. 0 \in Good
  BY <1>0, <1>3, <1>9
<1>11. ASSUME NEW n \in Nat, n \in Good PROVE n + 1 \in Good
  <2> SUFFICES ASSUME n + 1 <= C PROVE met[n + 1] = First(n + 1)
    OBVIOUS
  <2>1. met[n] = First(n) /\ n + 1 \in 0 .. C /\ n + 1 # 0 /\ (n + 1) - 1 = n
    BY <1>0, <1>11
  <2>2. met[n + 1] = After(met, n + 1)
    BY <1>9, <2>1
  <2> QED BY <1>7, <2>1, <2>2
<1>12. met[C] = First(C)
  <2>1. Nat \subseteq Good
    <3> HIDE DEF Good
    <3> QED BY <1>10, <1>11, EveryNatural
  <2> QED BY <1>0, <2>1
<1>13. First(C) = s
  <2>1. C = Len(s) \/ C > Len(s)
    BY <1>0
  <2> QED BY <1>0, <1>2, <1>4, <2>1
<1>14. Linked!Walk = IF list.head = None THEN <<>> ELSE met[C]
  BY DEF Linked!Walk, met, Node, Linked!Cardinality, Cardinality
<1>15. list.head = None => s = <<>>
  <2> SUFFICES ASSUME Len(s) # 0 PROVE list.head # None
    BY <1>0
  <2>1. s[1] \in Keys /\ list.head = s[1]
    BY <1>0 DEF Spells
  <2> QED BY <2>1
<1> QED BY <1>12, <1>13, <1>14, <1>15

(* Taking a node out of the list takes its key out of what is spelt.       *)
LEMMA UnlinkedSpells ==
  ASSUME None \notin Keys, NEW l, NEW s, Spells(l, s), NEW i \in 1 .. Len(s)
  PROVE  Spells(Linked!Unlinked(l, s[i]), Skipping(s, i, Len(s)))
<1> DEFINE c == Skipping(s, i, Len(s))
           u == Linked!Unlinked(l, s[i])
           L == Len(s)
           k == s[i]
           p == l.prev[k]
           n == l.next[k]
           at(j) == IF j < i THEN j ELSE j + 1
<1>0. /\ L \in Nat /\ i \in Nat /\ i \in 1 .. L /\ k \in Keys /\ s \in Seq(Keys)
      /\ \A j \in 1 .. L : s[j] \in Keys /\ s[j] # None
  BY DEF Spells
<1>1. /\ c \in Seq(Keys) /\ Len(c) = L - 1
      /\ \A j \in 1 .. L - 1 : c[j] = s[at(j)]
  <2>1. i \in 1 .. Len(s) + 1 /\ Len(s) \in 0 .. Len(s)
    BY <1>0
  <2>2. /\ c \in Seq(Keys) /\ Len(c) = IF L < i THEN L ELSE L - 1
        /\ \A j \in 1 .. Len(c) : c[j] = IF j < i THEN s[j] ELSE s[j + 1]
    BY <1>0, <2>1, SkippingIs
  <2>3. Len(c) = L - 1
    BY <1>0, <2>2
  <2> QED BY <2>2, <2>3
<1>2. /\ p = IF i = 1 THEN None ELSE s[i - 1]
      /\ n = IF i = L THEN None ELSE s[i + 1]
  BY <1>0 DEF Spells
<1>3. /\ u.head = IF p # None THEN l.head ELSE n
      /\ u.tail = IF n # None THEN l.tail ELSE p
      /\ \A x \in Keys : u.next[x] = IF x = k THEN None ELSE IF x = p THEN n ELSE l.next[x]
      /\ \A x \in Keys : u.prev[x] = IF x = k THEN None ELSE IF x = n THEN p ELSE l.prev[x]
  BY DEF Linked!Unlinked
<1>4. u \in Lists
  <2>1. p \in Keys \cup {None} /\ n \in Keys \cup {None} /\ l \in Lists
    BY <1>0 DEF Spells, Lists
  <2> HIDE DEF p, n
  <2>2. u = [head |-> u.head, tail |-> u.tail, next |-> u.next, prev |-> u.prev]
        /\ u.next = [x \in Keys |-> u.next[x]] /\ u.prev = [x \in Keys |-> u.prev[x]]
    BY DEF Linked!Unlinked
  <2> HIDE DEF u
  <2>3. u.head \in Keys \cup {None} /\ u.tail \in Keys \cup {None}
    BY <1>3, <2>1 DEF Lists
  <2>4. /\ \A x \in Keys : u.next[x] \in Keys \cup {None}
        /\ \A x \in Keys : u.prev[x] \in Keys \cup {None}
    BY <1>3, <2>1 DEF Lists
  <2> QED BY <2>2, <2>3, <2>4 DEF Lists
<1> HIDE DEF c, u, p, n, k
<1>5. \A j \in 1 .. L - 1 : at(j) \in 1 .. L /\ at(j) # i /\ (at(j) = i - 1 <=> j = i - 1)
                            /\ (at(j) = i + 1 <=> j = i)
  BY <1>0
<1>6. \A a, b \in 1 .. L : s[a] = s[b] => a = b
  BY DEF Spells
<1>7. \A a, b \in 1 .. L - 1 : at(a) = at(b) => a = b
  BY <1>0
<1>8. \A a, b \in 1 .. Len(c) : c[a] = c[b] => a = b
  <2> HIDE DEF at
  <2> QED BY <1>1, <1>5, <1>6, <1>7
<1>9. u.head = IF Len(c) = 0 THEN None ELSE c[1]
  <2>1. CASE i = 1 /\ L = 1
    BY <1>1, <1>2, <1>3, <2>1
  <2>2. CASE i = 1 /\ L # 1
    <3>0. \A m \in Nat : 1 \in 1 .. m /\ m # 1 => 1 \in 1 .. m - 1 /\ m - 1 # 0
      OBVIOUS
    <3>1. 1 \in 1 .. L - 1 /\ at(1) = 2 /\ i + 1 = 2 /\ L - 1 # 0 /\ i # L
      <4>1. L \in Nat /\ 1 \in 1 .. L /\ L # 1
        BY <1>0, <2>2
      <4> HIDE DEF L
      <4> QED BY <3>0, <2>2, <4>1
    <3> QED BY <1>1, <1>2, <1>3, <2>2, <3>1
  <2>3. CASE i # 1
    <3>1. 1 \in 1 .. L - 1 /\ at(1) = 1 /\ L - 1 # 0 /\ L # 0 /\ i - 1 \in 1 .. L
      BY <1>0, <2>3
    <3>2. u.head = s[1]
      BY <1>0, <1>2, <1>3, <2>3, <3>1 DEF Spells
    <3> QED BY <1>1, <3>1, <3>2
  <2> QED BY <2>1, <2>2, <2>3
<1>10. u.tail = IF Len(c) = 0 THEN None ELSE c[Len(c)]
  <2>1. CASE i = L /\ L = 1
    BY <1>1, <1>2, <1>3, <2>1
  <2>2. CASE i = L /\ L # 1
    <3>0. \A m \in Nat : m \in 1 .. m /\ m # 1 => m >= 2 /\ m - 1 \in 1 .. m - 1 /\ m - 1 # 0
      OBVIOUS
    <3>1. L >= 2 /\ L - 1 \in 1 .. L - 1 /\ L - 1 # 0 /\ i # 1
      <4>1. L \in Nat /\ L \in 1 .. L /\ L # 1
        BY <1>0, <2>2
      <4> HIDE DEF L
      <4> QED BY <3>0, <2>2, <4>1
    <3>2. at(L - 1) = i - 1
      BY <1>0, <2>2, <3>1
    <3>3. c[L - 1] = s[i - 1] /\ Len(c) = L - 1
      BY <1>1, <3>1, <3>2
    <3>4. u.tail = s[i - 1]
      BY <1>2, <1>3, <2>2, <3>1
    <3> QED BY <3>1, <3>3, <3>4
  <2>3. CASE i # L
    <3>1. L - 1 \in 1 .. L - 1 /\ at(L - 1) = L /\ L - 1 # 0 /\ L # 0 /\ i + 1 \in 1 .. L
      BY <1>0, <2>3
    <3>2. u.tail = s[L]
      BY <1>0, <1>2, <1>3, <2>3, <3>1 DEF Spells
    <3> QED BY <1>1, <3>1, <3>2
  <2> QED BY <2>1, <2>2, <2>3
<1>11. ASSUME NEW j \in 1 .. L - 1
       PROVE  /\ u.next[c[j]] = IF j = L - 1 THEN None ELSE c[j + 1]
              /\ u.prev[c[j]] = IF j = 1 THEN None ELSE c[j - 1]
  <2> DEFINE a == at(j)
  <2>1. a \in 1 .. L /\ a # i /\ c[j] = s[a] /\ s[a] \in Keys
    BY <1>0, <1>1, <1>5
  <2>2. /\ l.next[s[a]] = IF a = L THEN None ELSE s[a + 1]
        /\ l.prev[s[a]] = IF a = 1 THEN None ELSE s[a - 1]
    BY <2>1 DEF Spells
  <2>3. s[a] # k
    BY <1>0, <1>6, <2>1 DEF k
  <2>4. s[a] = p <=> j = i - 1
    <3>1. CASE i = 1
      BY <1>0, <1>2, <2>1, <3>1
    <3>2. CASE i # 1
      <4>1. i - 1 \in 1 .. L
        BY <1>0, <3>2
      <4> HIDE DEF at
      <4> QED BY <1>2, <1>5, <1>6, <2>1, <3>2, <4>1
    <3> QED BY <3>1, <3>2
  <2>5. s[a] = n <=> j = i
    <3>1. CASE i = L
      BY <1>0, <1>2, <2>1, <3>1
    <3>2. CASE i # L
      <4>1. i + 1 \in 1 .. L
        BY <1>0, <3>2
      <4> HIDE DEF at
      <4> QED BY <1>2, <1>5, <1>6, <2>1, <3>2, <4>1
    <3> QED BY <3>1, <3>2
  <2>6. u.next[c[j]] = IF j = i - 1 THEN n ELSE IF a = L THEN None ELSE s[a + 1]
    BY <1>3, <2>1, <2>2, <2>3, <2>4
  <2>7. u.prev[c[j]] = IF j = i THEN p ELSE IF a = 1 THEN None ELSE s[a - 1]
    BY <1>3, <2>1, <2>2, <2>3, <2>5
  <2>8. u.next[c[j]] = IF j = L - 1 THEN None ELSE c[j + 1]
    <3>1. CASE j = L - 1
      <4>1. CASE j = i - 1
        <5>1. i = L
          BY <1>0, <3>1, <4>1
        <5> QED BY <1>2, <2>6, <3>1, <4>1, <5>1
      <4>2. CASE j # i - 1
        <5>1. a = L
          BY <1>0, <3>1, <4>2
        <5> QED BY <2>6, <3>1, <4>2, <5>1
      <4> QED BY <4>1, <4>2
    <3>2. CASE j # L - 1
      <4>1. j + 1 \in 1 .. L - 1 /\ c[j + 1] = s[at(j + 1)]
        BY <1>0, <1>1, <3>2
      <4>2. CASE j = i - 1
        <5>1. i # L /\ at(j + 1) = i + 1
          BY <1>0, <3>2, <4>2
        <5> QED BY <1>2, <2>6, <3>2, <4>1, <4>2, <5>1
      <4>3. CASE j # i - 1
        <5>1. a # L /\ at(j + 1) = a + 1
          BY <1>0, <3>2, <4>3
        <5> QED BY <2>6, <3>2, <4>1, <4>3, <5>1
      <4> QED BY <4>2, <4>3
    <3> QED BY <3>1, <3>2
  <2>9. u.prev[c[j]] = IF j = 1 THEN None ELSE c[j - 1]
    <3>1. CASE j = 1
      <4>1. CASE j = i
        BY <1>2, <2>7, <3>1, <4>1
      <4>2. CASE j # i
        <5>1. a = 1
          BY <1>0, <3>1, <4>2
        <5> QED BY <2>7, <3>1, <4>2, <5>1
      <4> QED BY <4>1, <4>2
    <3>2. CASE j # 1
      <4>1. j - 1 \in 1 .. L - 1 /\ c[j - 1] = s[at(j - 1)]
        BY <1>0, <1>1, <3>2
      <4>2. CASE j = i
        <5>1. i # 1 /\ at(j - 1) = i - 1
          BY <1>0, <3>2, <4>2
        <5> QED BY <1>2, <2>7, <3>2, <4>1, <4>2, <5>1
      <4>3. CASE j # i
        <5>1. a # 1 /\ at(j - 1) = a - 1
          BY <1>0, <3>2, <4>3
        <5> QED BY <2>7, <3>2, <4>1, <4>3, <5>1
      <4> QED BY <4>2, <4>3
    <3> QED BY <3>1, <3>2
  <2> QED BY <2>8, <2>9
<1>12. Spells(u, c)
  <2> HIDE DEF at, L
  <2> QED BY <1>1, <1>4, <1>8, <1>9, <1>10, <1>11 DEF Spells
<1> QED BY <1>12 DEF u, c, k

(* A new node in front spells its key first.                               *)
LEMMA PrependedSpells ==
  ASSUME None \notin Keys, NEW l, NEW s, Spells(l, s), NEW k \in Keys,
         \A j \in 1 .. Len(s) : s[j] # k
  PROVE  Spells(Linked!Prepended(l, k), <<k>> \o s)
<1> DEFINE c == <<k>> \o s
           u == Linked!Prepended(l, k)
           L == Len(s)
<1>0. /\ L \in Nat /\ s \in Seq(Keys) /\ l \in Lists
      /\ \A j \in 1 .. L : s[j] \in Keys /\ s[j] # None
  BY DEF Spells
<1>1. c \in Seq(Keys) /\ Len(c) = L + 1 /\ c[1] = k /\ \A j \in 1 .. L : c[j + 1] = s[j]
  <2>1. <<k>> \in Seq(Keys) /\ Len(<<k>>) = 1 /\ <<k>>[1] = k
    OBVIOUS
  <2> DEFINE o == <<k>>
  <2> HIDE DEF o
  <2>2. /\ o \o s \in Seq(Keys) /\ Len(o \o s) = Len(o) + Len(s)
        /\ \A j \in 1 .. Len(o) + Len(s) : (o \o s)[j] = IF j <= Len(o) THEN o[j] ELSE s[j - Len(o)]
    BY <1>0, <2>1, ConcatProperties DEF o
  <2>3. Len(o) = 1 /\ o[1] = k
    BY <2>1 DEF o
  <2>4. \A j \in 1 .. L : j + 1 \in 1 .. 1 + L /\ ~(j + 1 <= 1) /\ (j + 1) - 1 = j
    BY <1>0
  <2>5. 1 \in 1 .. 1 + L /\ 1 + L = L + 1
    BY <1>0
  <2> QED BY <2>2, <2>3, <2>4, <2>5 DEF o
<1>2. /\ u.head = k
      /\ u.tail = IF l.tail = None THEN k ELSE l.tail
      /\ u.next[k] = l.head /\ \A x \in Keys : x # k => u.next[x] = l.next[x]
      /\ \A x \in Keys : u.prev[x] = IF x = k THEN None ELSE IF x = l.head THEN k ELSE l.prev[x]
  BY <1>0 DEF Linked!Prepended, Lists
<1>3. u \in Lists
  <2>1. u.next \in [Keys -> Keys \cup {None}]
    BY <1>0 DEF Linked!Prepended, Lists
  <2>2. u = [head |-> u.head, tail |-> u.tail, next |-> u.next, prev |-> u.prev]
        /\ u.prev = [x \in Keys |-> u.prev[x]]
    BY DEF Linked!Prepended
  <2> HIDE DEF u
  <2>3. u.head \in Keys \cup {None} /\ u.tail \in Keys \cup {None}
        /\ \A x \in Keys : u.prev[x] \in Keys \cup {None}
    BY <1>0, <1>2 DEF Lists
  <2> QED BY <2>1, <2>2, <2>3 DEF Lists
<1> HIDE DEF c, u
<1>4. \A j \in 1 .. L + 1 : j = 1 \/ (j - 1 \in 1 .. L /\ j = (j - 1) + 1)
  BY <1>0
<1>5. \A a, b \in 1 .. L : s[a] = s[b] => a = b
  BY DEF Spells
<1>6. \A a, b \in 1 .. L + 1 : c[a] = c[b] => a = b
  <2> SUFFICES ASSUME NEW a \in 1 .. L + 1, NEW b \in 1 .. L + 1, c[a] = c[b] PROVE a = b
    OBVIOUS
  <2>1. CASE a = 1
    BY <1>1, <1>4, <2>1
  <2>2. CASE a # 1
    <3>1. b # 1
      BY <1>1, <1>4, <2>2
    <3>2. s[a - 1] = s[b - 1] /\ a - 1 \in 1 .. L /\ b - 1 \in 1 .. L
      BY <1>1, <1>4, <2>2, <3>1
    <3>3. a - 1 = b - 1
      BY <1>5, <3>2
    <3> QED BY <1>0, <3>3
  <2> QED BY <2>1, <2>2
<1>7. l.tail = None <=> L = 0
  <2>1. L # 0 => L \in 1 .. L
    BY <1>0
  <2> QED BY <1>0, <2>1 DEF Spells
<1>8. u.tail = c[L + 1]
  <2>1. CASE L = 0
    BY <1>1, <1>2, <1>7, <2>1
  <2>2. CASE L # 0
    <3>1. L \in 1 .. L
      BY <1>0, <2>2
    <3>2. l.tail = s[L] /\ c[L + 1] = s[L]
      BY <1>1, <2>2, <3>1 DEF Spells
    <3> QED BY <1>2, <1>7, <2>2, <3>2
  <2> QED BY <2>1, <2>2
<1>9. ASSUME NEW j \in 1 .. L + 1
      PROVE  /\ u.next[c[j]] = IF j = L + 1 THEN None ELSE c[j + 1]
             /\ u.prev[c[j]] = IF j = 1 THEN None ELSE c[j - 1]
  <2>1. CASE j = 1
    <3>1. u.next[c[j]] = l.head /\ u.prev[c[j]] = None
      BY <1>1, <1>2, <2>1
    <3>2. CASE L = 0
      BY <1>1, <2>1, <3>1, <3>2 DEF Spells
    <3>3. CASE L # 0
      <4>1. 1 \in 1 .. L /\ j # L + 1
        BY <1>0, <2>1, <3>3
      <4>2. l.head = s[1] /\ c[j + 1] = s[1]
        BY <1>1, <2>1, <3>3, <4>1 DEF Spells
      <4> QED BY <2>1, <3>1, <4>1, <4>2
    <3> QED BY <3>2, <3>3
  <2>2. CASE j # 1
    <3> DEFINE a == j - 1
    <3>1. a \in 1 .. L /\ j = a + 1 /\ L # 0
      BY <1>0, <2>2
    <3> HIDE DEF a
    <3>2. c[j] = s[a] /\ s[a] \in Keys /\ s[a] # k /\ l.head = s[1] /\ 1 \in 1 .. L
      BY <1>0, <1>1, <3>1 DEF Spells
    <3>3. /\ l.next[s[a]] = IF a = L THEN None ELSE s[a + 1]
          /\ l.prev[s[a]] = IF a = 1 THEN None ELSE s[a - 1]
      BY <3>1 DEF Spells
    <3>4. s[a] = l.head <=> a = 1
      BY <1>5, <3>1, <3>2
    <3>5. u.next[c[j]] = IF a = L THEN None ELSE s[a + 1]
      BY <1>2, <3>2, <3>3
    <3>6. u.prev[c[j]] = IF a = 1 THEN k ELSE s[a - 1]
      BY <1>2, <3>2, <3>3, <3>4
    <3>7. u.next[c[j]] = IF j = L + 1 THEN None ELSE c[j + 1]
      <4>1. a = L <=> j = L + 1
        BY <1>0, <3>1
      <4>2. a # L => a + 1 \in 1 .. L /\ c[j + 1] = s[a + 1]
        BY <1>0, <1>1, <3>1
      <4> QED BY <3>5, <4>1, <4>2
    <3>8. u.prev[c[j]] = c[j - 1]
      <4>1. CASE a = 1
        BY <1>1, <3>1, <3>6, <4>1
      <4>2. CASE a # 1
        <5>1. a - 1 \in 1 .. L /\ j - 1 = (a - 1) + 1
          BY <1>0, <3>1, <4>2
        <5> QED BY <1>1, <3>6, <4>2, <5>1
      <4> QED BY <4>1, <4>2
    <3> QED BY <2>2, <3>7, <3>8
  <2> QED BY <2>1, <2>2
<1>10. Spells(u, c)
  <2>1. L + 1 # 0
    BY <1>0
  <2> QED BY <1>1, <1>2, <1>3, <1>6, <1>8, <1>9, <2>1 DEF Spells
<1> QED BY <1>10 DEF u, c

-----------------------------------------------------------------------------
(* The keys of a list.                                                     *)
Elements(s) == {s[j] : j \in 1 .. Len(s)}
Distinct(s) == \A a, b \in 1 .. Len(s) : s[a] = s[b] => a = b

(* Without the i-th, the others remain.                                    *)
LEMMA SkippingElements ==
  ASSUME NEW S, NEW s \in Seq(S), NEW i \in 1 .. Len(s), Distinct(s)
  PROVE  /\ Elements(Skipping(s, i, Len(s))) = Elements(s) \ {s[i]}
         /\ Len(Skipping(s, i, Len(s))) = Len(s) - 1
<1> DEFINE c == Skipping(s, i, Len(s))
           L == Len(s)
<1>0. L \in Nat /\ i \in Nat /\ i \in 1 .. L
  OBVIOUS
<1>1. Len(c) = L - 1 /\ \A j \in 1 .. L - 1 : c[j] = IF j < i THEN s[j] ELSE s[j + 1]
  <2>1. i \in 1 .. Len(s) + 1 /\ Len(s) \in 0 .. Len(s)
    BY <1>0
  <2>2. /\ c \in Seq(S) /\ Len(c) = IF L < i THEN L ELSE L - 1
        /\ \A j \in 1 .. Len(c) : c[j] = IF j < i THEN s[j] ELSE s[j + 1]
    BY <2>1, SkippingIs
  <2>3. Len(c) = L - 1
    BY <1>0, <2>2
  <2> QED BY <2>2, <2>3
<1> HIDE DEF c
<1>2. ASSUME NEW x \in Elements(c) PROVE x \in Elements(s) /\ x # s[i]
  <2>1. PICK j \in 1 .. L - 1 : x = c[j]
    BY <1>1 DEF Elements
  <2>2. CASE j < i
    <3>1. j \in 1 .. L /\ x = s[j] /\ j # i
      BY <1>0, <1>1, <2>1, <2>2
    <3> QED BY <1>0, <3>1 DEF Elements, Distinct
  <2>3. CASE ~(j < i)
    <3>1. j + 1 \in 1 .. L /\ x = s[j + 1] /\ j + 1 # i
      BY <1>0, <1>1, <2>1, <2>3
    <3> QED BY <1>0, <3>1 DEF Elements, Distinct
  <2> QED BY <2>2, <2>3
<1>3. ASSUME NEW x \in Elements(s), x # s[i] PROVE x \in Elements(c)
  <2>1. PICK j \in 1 .. L : x = s[j]
    BY DEF Elements
  <2>2. j # i
    BY <1>3, <2>1
  <2>3. CASE j < i
    <3>1. j \in 1 .. L - 1
      BY <1>0, <2>3
    <3> QED BY <1>1, <2>1, <2>3, <3>1 DEF Elements
  <2>4. CASE ~(j < i)
    <3>1. j - 1 \in 1 .. L - 1 /\ ~(j - 1 < i) /\ (j - 1) + 1 = j
      BY <1>0, <2>2, <2>4
    <3>2. c[j - 1] = x
      BY <1>1, <2>1, <3>1
    <3> QED BY <1>1, <3>1, <3>2 DEF Elements
  <2> QED BY <2>3, <2>4
<1>4. Elements(c) = Elements(s) \ {s[i]}
  BY <1>2, <1>3
<1> QED BY <1>1, <1>4 DEF c

(* With a key in front, the others move up by one.                         *)
LEMMA InFront ==
  ASSUME NEW s \in Seq(Keys), NEW k \in Keys
  PROVE  /\ <<k>> \o s \in Seq(Keys) /\ Len(<<k>> \o s) = Len(s) + 1
         /\ (<<k>> \o s)[1] = k /\ \A j \in 1 .. Len(s) : (<<k>> \o s)[j + 1] = s[j]
         /\ Elements(<<k>> \o s) = Elements(s) \cup {k}
<1> DEFINE o == <<k>>
           c == o \o s
           L == Len(s)
<1>0. L \in Nat
  OBVIOUS
<1>1. o \in Seq(Keys) /\ Len(o) = 1 /\ o[1] = k
  OBVIOUS
<1> HIDE DEF o
<1>2. /\ c \in Seq(Keys) /\ Len(c) = Len(o) + Len(s)
      /\ \A j \in 1 .. Len(o) + Len(s) : c[j] = IF j <= Len(o) THEN o[j] ELSE s[j - Len(o)]
  BY <1>1, ConcatProperties
<1> HIDE DEF c
<1>3. Len(c) = L + 1 /\ 1 \in 1 .. L + 1
  BY <1>0, <1>1, <1>2
<1>4. c[1] = k
  BY <1>1, <1>2, <1>3
<1>5. ASSUME NEW j \in 1 .. L PROVE j + 1 \in 1 .. L + 1 /\ c[j + 1] = s[j]
  <2>1. j + 1 \in 1 .. 1 + L /\ ~(j + 1 <= 1) /\ (j + 1) - 1 = j /\ j + 1 \in 1 .. L + 1
    BY <1>0
  <2> QED BY <1>1, <1>2, <2>1
<1>6. Elements(c) = Elements(s) \cup {k}
  <2>1. ASSUME NEW x \in Elements(c) PROVE x \in Elements(s) \cup {k}
    <3>1. PICK j \in 1 .. L + 1 : x = c[j]
      BY <1>3 DEF Elements
    <3>2. CASE j = 1
      BY <1>4, <3>1, <3>2
    <3>3. CASE j # 1
      <4>1. j - 1 \in 1 .. L /\ (j - 1) + 1 = j
        BY <1>0, <3>3
      <4>2. x = s[j - 1]
        BY <1>5, <3>1, <4>1
      <4> QED BY <4>1, <4>2 DEF Elements
    <3> QED BY <3>2, <3>3
  <2>2. ASSUME NEW x \in Elements(s) PROVE x \in Elements(c)
    <3>1. PICK j \in 1 .. L : x = s[j]
      BY DEF Elements
    <3> QED BY <1>3, <1>5, <3>1 DEF Elements
  <2>3. k \in Elements(c)
    BY <1>3, <1>4 DEF Elements
  <2> QED BY <2>1, <2>2, <2>3
<1>7. c = <<k>> \o s
  BY DEF c, o
<1> QED BY <1>2, <1>3, <1>4, <1>5, <1>6, <1>7

(* The place of a key in a list, or the place after the last.              *)
LEMMA PlaceOf ==
  ASSUME NEW s \in Seq(Keys), NEW k, \A a, b \in 1 .. Len(s) : s[a] = s[b] => a = b
  PROVE  /\ k \in Elements(s) =>
              \E i \in 1 .. Len(s) : s[i] = k /\ \A j \in 1 .. Len(s) : s[j] = k <=> j = i
         /\ k \notin Elements(s) => Linked!Recency!Without(s, {k}) = s
<1>1. ASSUME k \in Elements(s)
      PROVE  \E i \in 1 .. Len(s) : s[i] = k /\ \A j \in 1 .. Len(s) : s[j] = k <=> j = i
  BY <1>1 DEF Elements
<1>2. ASSUME k \notin Elements(s) PROVE Linked!Recency!Without(s, {k}) = s
  <2> DEFINE i == Len(s) + 1
  <2>1. Len(s) \in Nat /\ i \in 1 .. Len(s) + 1 /\ Len(s) \in 0 .. Len(s) /\ Len(s) < i
    OBVIOUS
  <2>2. \A j \in 1 .. Len(s) : s[j] = k <=> j = i
    BY <1>2, <2>1 DEF Elements
  <2> HIDE DEF i
  <2>3. Linked!Recency!Without(s, {k}) = Skipping(s, i, Len(s))
    BY <2>1, <2>2, WithoutIs
  <2>4. /\ Skipping(s, i, Len(s)) \in Seq(Keys) /\ Len(Skipping(s, i, Len(s))) = Len(s)
        /\ \A j \in 1 .. Len(s) : Skipping(s, i, Len(s))[j] = s[j]
    <3>1. /\ Skipping(s, i, Len(s)) \in Seq(Keys)
          /\ Len(Skipping(s, i, Len(s))) = IF Len(s) < i THEN Len(s) ELSE Len(s) - 1
          /\ \A j \in 1 .. Len(Skipping(s, i, Len(s))) :
                Skipping(s, i, Len(s))[j] = IF j < i THEN s[j] ELSE s[j + 1]
      BY <2>1, SkippingIs
    <3>2. \A j \in 1 .. Len(s) : j < i
      BY DEF i
    <3> QED BY <2>1, <3>1, <3>2
  <2>5. Skipping(s, i, Len(s)) = s
    BY <2>4, SeqEqual
  <2> QED BY <2>3, <2>5
<1> QED BY <1>1, <1>2

(* Taking a key out, from the pointers and from what they spell.           *)
LEMMA TakenOut ==
  ASSUME None \notin Keys, NEW l, NEW s, Spells(l, s), NEW k \in Elements(s)
  PROVE  /\ Spells(Linked!Unlinked(l, k), Linked!Recency!Without(s, {k}))
         /\ Elements(Linked!Recency!Without(s, {k})) = Elements(s) \ {k}
         /\ Len(Linked!Recency!Without(s, {k})) = Len(s) - 1
<1>0. s \in Seq(Keys) /\ Len(s) \in Nat /\ \A a, b \in 1 .. Len(s) : s[a] = s[b] => a = b
  BY DEF Spells
<1>1. PICK i \in 1 .. Len(s) : s[i] = k /\ \A j \in 1 .. Len(s) : s[j] = k <=> j = i
  BY <1>0, PlaceOf
<1>2. i \in 1 .. Len(s) + 1
  BY <1>0
<1>3. Linked!Recency!Without(s, {k}) = Skipping(s, i, Len(s))
  BY <1>0, <1>1, <1>2, WithoutIs
<1>4. Spells(Linked!Unlinked(l, k), Skipping(s, i, Len(s)))
  BY <1>1, UnlinkedSpells
<1>5. /\ Elements(Skipping(s, i, Len(s))) = Elements(s) \ {k}
      /\ Len(Skipping(s, i, Len(s))) = Len(s) - 1
  BY <1>0, <1>1, SkippingElements DEF Distinct
<1> QED BY <1>3, <1>4, <1>5

(* A use of a key moves its node to the front; the first stays there.      *)
LEMMA PromotedSpells ==
  ASSUME None \notin Keys, NEW l, NEW s, Spells(l, s), NEW k \in Elements(s)
  PROVE  /\ Spells(Linked!Promoted(l, k), Linked!Recency!Used(s, k))
         /\ Elements(Linked!Recency!Used(s, k)) = Elements(s)
         /\ Len(Linked!Recency!Used(s, k)) = Len(s)
<1> DEFINE w == Linked!Recency!Without(s, {k})
           t == <<k>> \o w
<1>0. /\ s \in Seq(Keys) /\ Len(s) \in Nat /\ k \in Keys
      /\ \A a, b \in 1 .. Len(s) : s[a] = s[b] => a = b
  BY DEF Spells, Elements
<1>1. Spells(Linked!Unlinked(l, k), w) /\ Elements(w) = Elements(s) \ {k} /\ Len(w) = Len(s) - 1
  BY TakenOut
<1>2. Linked!Recency!Used(s, k) = t
  BY DEF Linked!Recency!Used
<1>3. PICK i \in 1 .. Len(s) : s[i] = k /\ \A j \in 1 .. Len(s) : s[j] = k <=> j = i
  BY <1>0, PlaceOf
<1>4. w = Skipping(s, i, Len(s))
  <2>1. i \in 1 .. Len(s) + 1
    BY <1>0
  <2> QED BY <1>0, <1>3, <2>1, WithoutIs
<1>5. /\ Len(w) = Len(s) - 1
      /\ \A j \in 1 .. Len(w) : w[j] = IF j < i THEN s[j] ELSE s[j + 1]
  <2>1. s \in Seq(Keys) /\ i \in 1 .. Len(s) + 1 /\ Len(s) \in 0 .. Len(s)
    BY <1>0
  <2> HIDE DEF w
  <2>2. /\ Skipping(s, i, Len(s)) \in Seq(Keys)
        /\ \A j \in 1 .. Len(Skipping(s, i, Len(s))) :
             Skipping(s, i, Len(s))[j] = IF j < i THEN s[j] ELSE s[j + 1]
    BY <2>1, SkippingIs
  <2>3. \A j \in 1 .. Len(w) : w[j] = IF j < i THEN s[j] ELSE s[j + 1]
    BY <1>4, <2>2, Zenon
  <2> QED BY <1>1, <2>3
<1> HIDE DEF w
<1>6. w \in Seq(Keys)
  BY <1>1 DEF Spells
<1>7. /\ t \in Seq(Keys) /\ Len(t) = Len(w) + 1 /\ t[1] = k
      /\ \A j \in 1 .. Len(w) : t[j + 1] = w[j]
      /\ Elements(t) = Elements(w) \cup {k}
  BY <1>0, <1>6, InFront
<1>8. Spells(Linked!Prepended(Linked!Unlinked(l, k), k), t)
  <2>1. \A j \in 1 .. Len(w) : w[j] # k
    BY <1>1 DEF Elements
  <2> QED BY <1>0, <1>1, <2>1, PrependedSpells
<1>9. Len(t) = Len(s) /\ Elements(t) = Elements(s)
  <2>1. Len(w) = Len(s) - 1 /\ Elements(w) = Elements(s) \ {k}
    BY <1>1 DEF w
  <2> HIDE DEF t
  <2>2. Len(t) = Len(s)
    BY <1>0, <1>7, <2>1
  <2> QED BY <1>7, <2>1, <2>2
<1>10. Spells(Linked!Promoted(l, k), t)
  <2>1. CASE k = l.head
    <3>1. l.head = s[1] /\ 1 \in 1 .. Len(s)
      BY <1>0, <1>3 DEF Spells
    <3>2. i = 1
      BY <1>3, <2>1, <3>1
    <3> HIDE DEF t
    <3>3. ASSUME NEW j \in 1 .. Len(s) PROVE t[j] = s[j]
      <4>1. CASE j = 1
        BY <1>7, <2>1, <3>1, <4>1
      <4>2. CASE j # 1
        <5>1. j - 1 \in 1 .. Len(w) /\ ~(j - 1 < i) /\ (j - 1) + 1 = j
          BY <1>0, <1>5, <3>2, <4>2
        <5>2. t[j] = w[j - 1] /\ w[j - 1] = s[j]
          BY <1>5, <1>7, <5>1
        <5> QED BY <5>2
      <4> QED BY <4>1, <4>2
    <3>4. t = s
      BY <1>0, <1>7, <1>9, <3>3, SeqEqual
    <3> QED BY <2>1, <3>4 DEF Linked!Promoted
  <2>2. CASE k # l.head
    BY <1>8, <2>2 DEF Linked!Promoted
  <2> QED BY <2>1, <2>2
<1> QED BY <1>2, <1>9, <1>10

-----------------------------------------------------------------------------
(* The pointers spell the keys of the map, MaxSize at most.                *)
SpeltBy(s) == Spells(list, s) /\ map = Elements(s) /\ Cardinality(map) = Len(s) /\ Len(s) <= MaxSize

LinkedInv == \E s : SpeltBy(s)

LruFacts == None \notin Keys /\ IsFiniteSet(Keys) /\ MaxSize \in Nat \ {0}

(* What the linked list assumes of its constants.                          *)
LEMMA LruAssumed == LruFacts
BY ServicesAssumption DEF Linked!LruAssumption, LruFacts, Linked!IsFiniteSet, IsFiniteSet

LEMMA ElementsAreKeys == ASSUME NEW s \in Seq(Keys) PROVE Elements(s) \in SUBSET Keys
<1>1. \A j \in 1 .. Len(s) : s[j] \in Keys
  OBVIOUS
<1> QED BY <1>1 DEF Elements

(* What is spelt is what a walk from the head meets.                       *)
WalksSpelt ==
  \A s : SpeltBy(s) => Linked!Walk = s /\ Linked!Recency!Range(s) = Elements(s) /\ s \in Seq(Keys)

LEMMA SpeltWalk == WalksSpelt
<1> SUFFICES ASSUME NEW s, SpeltBy(s)
             PROVE  Linked!Walk = s /\ Linked!Recency!Range(s) = Elements(s) /\ s \in Seq(Keys)
  BY DEF WalksSpelt
<1>1. s \in Seq(Keys) /\ Len(s) \in Nat
  BY DEF SpeltBy, Spells
<1>2. Linked!Recency!Range(s) = Elements(s)
  BY <1>1 DEF Linked!Recency!Range, Elements
<1>3. map \in SUBSET Keys
  BY <1>1, ElementsAreKeys DEF SpeltBy
<1>4. Len(s) <= Cardinality(Keys)
  BY <1>3, LruAssumed, FS_Subset DEF LruFacts, SpeltBy
<1>5. Linked!Walk = s
  BY <1>4, LruAssumed, WalkIs DEF LruFacts, SpeltBy
<1> QED BY <1>1, <1>2, <1>5

(* What each operation leaves spelt: get and set of a key that is there    *)
(* use it.                                                                 *)
LEMMA SpeltUse ==
  ASSUME NEW s, SpeltBy(s), NEW k \in Keys, Linked!Get(k) \/ Linked!SetExisting(k)
  PROVE  k \in Elements(s) /\ SpeltBy(Linked!Recency!Used(s, k))'
<1>1. k \in map /\ list' = Linked!Promoted(list, k) /\ map' = map
  BY DEF Linked!Get, Linked!SetExisting
<1> DEFINE t == Linked!Recency!Used(s, k)
<1>2. /\ k \in Elements(s) /\ Spells(list, s) /\ Cardinality(map) = Len(s)
      /\ Len(s) <= MaxSize /\ map = Elements(s)
  BY <1>1 DEF SpeltBy
<1>3. Spells(Linked!Promoted(list, k), t) /\ Elements(t) = Elements(s) /\ Len(t) = Len(s)
  BY <1>2, LruAssumed, PromotedSpells DEF LruFacts
<1> HIDE DEF t
<1>4. Spells(list', t) /\ map' = Elements(t) /\ Cardinality(map') = Len(t) /\ Len(t) <= MaxSize
  BY <1>1, <1>2, <1>3
<1>5. SpeltBy(t)'
  BY <1>4 DEF SpeltBy
<1> QED BY <1>2, <1>5 DEF t

(* delete drops it.                                                        *)
LEMMA SpeltDelete ==
  ASSUME NEW s, SpeltBy(s), NEW k \in Keys, Linked!Delete(k)
  PROVE  k \in Elements(s) /\ SpeltBy(Linked!Recency!Without(s, {k}))'
<1>1. k \in map /\ list' = Linked!Unlinked(list, k) /\ map' = map \ {k}
  BY DEF Linked!Delete
<1> DEFINE t == Linked!Recency!Without(s, {k})
<1>2. /\ k \in Elements(s) /\ Spells(list, s) /\ Cardinality(map) = Len(s) /\ Len(s) <= MaxSize
      /\ map = Elements(s) /\ s \in Seq(Keys) /\ Len(s) \in Nat /\ MaxSize \in Nat
  BY <1>1, LruAssumed DEF SpeltBy, Spells, LruFacts
<1>3. Spells(Linked!Unlinked(list, k), t) /\ Elements(t) = Elements(s) \ {k} /\ Len(t) = Len(s) - 1
  BY <1>2, LruAssumed, TakenOut DEF LruFacts
<1> HIDE DEF t
<1>4. IsFiniteSet(map) /\ Cardinality(map \ {k}) = Cardinality(map) - 1
  <2>1. map \in SUBSET Keys
    BY <1>2, ElementsAreKeys
  <2>2. IsFiniteSet(map)
    BY <2>1, LruAssumed, FS_Subset DEF LruFacts
  <2> QED BY <1>1, <2>2, FS_RemoveElement
<1>5. Spells(list', t) /\ map' = Elements(t) /\ Cardinality(map') = Len(t) /\ Len(t) <= MaxSize
  BY <1>1, <1>2, <1>3, <1>4
<1>6. SpeltBy(t)'
  BY <1>5 DEF SpeltBy
<1> QED BY <1>2, <1>6 DEF t

(* clear forgets them all, whatever the nodes still point at.              *)
LEMMA SpeltClear ==
  ASSUME LinkedInv, Linked!Clear
  PROVE  SpeltBy(<<>>)'
<1>1. PICK s : SpeltBy(s)
  BY DEF LinkedInv
<1>2. list \in Lists
  BY <1>1 DEF SpeltBy, Spells
<1>3. list' \in Lists /\ list'.head = None /\ list'.tail = None /\ map' = {}
  BY <1>2 DEF Linked!Clear, Lists
<1>4. Spells(list', <<>>)
  BY <1>3 DEF Spells
<1>5. Elements(<<>>) = {} /\ Cardinality({}) = 0
  BY FS_EmptySet DEF Elements
<1> QED BY <1>3, <1>4, <1>5, LruAssumed DEF SpeltBy, LruFacts

(* A new key goes in front, and pushes out the last of a full list.        *)
LEMMA SpeltNew ==
  ASSUME NEW s, SpeltBy(s), NEW k \in Keys, Linked!SetNew(k)
  PROVE  SpeltBy(Linked!Recency!Placed(s, k))'
<1> DEFINE longer == Linked!Prepended(list, k)
           c == <<k>> \o s
           L == Len(s)
<1>1. /\ k \notin map
      /\ IF Linked!Cardinality(map \cup {k}) > MaxSize
         THEN map' = (map \cup {k}) \ {longer.tail} /\ list' = Linked!Unlinked(longer, longer.tail)
         ELSE map' = map \cup {k} /\ list' = longer
  BY DEF Linked!SetNew
<1>2. /\ Spells(list, s) /\ Cardinality(map) = L /\ L <= MaxSize /\ map = Elements(s)
      /\ s \in Seq(Keys) /\ L \in Nat /\ MaxSize \in Nat \ {0}
  BY LruAssumed DEF SpeltBy, Spells, LruFacts
<1>3. \A j \in 1 .. Len(s) : s[j] # k
  BY <1>1, <1>2 DEF Elements
<1>4. Spells(longer, c)
  BY <1>2, <1>3, LruAssumed, PrependedSpells DEF LruFacts
<1>5. /\ c \in Seq(Keys) /\ Len(c) = L + 1 /\ c[1] = k /\ \A j \in 1 .. L : c[j + 1] = s[j]
      /\ Elements(c) = Elements(s) \cup {k}
  BY <1>2, InFront
<1>6. IsFiniteSet(map \cup {k}) /\ Cardinality(map \cup {k}) = L + 1
  <2>1. map \in SUBSET Keys
    BY <1>2, ElementsAreKeys
  <2>2. IsFiniteSet(map)
    BY <2>1, LruAssumed, FS_Subset DEF LruFacts
  <2> QED BY <1>1, <1>2, <2>2, FS_AddElement
<1>7. Linked!Cardinality(map \cup {k}) = L + 1
  BY <1>6 DEF Linked!Cardinality, Cardinality
<1>8. k \notin Linked!Recency!Range(s)
  <2>1. Linked!Recency!Range(s) = Elements(s)
    BY SpeltWalk DEF WalksSpelt
  <2> QED BY <1>1, <1>2, <2>1
<1> HIDE DEF longer
<1>9. CASE L < MaxSize
  <2>1. ~(L + 1 > MaxSize)
    BY <1>2, <1>9
  <2>2. map' = map \cup {k} /\ list' = longer
    BY <1>1, <1>7, <2>1
  <2>3. Linked!Recency!Placed(s, k) = c
    <3>1. Linked!Recency!Without(s, {k}) = s
      <4>1. k \notin Elements(s) /\ \A a, b \in 1 .. Len(s) : s[a] = s[b] => a = b
        BY <1>1, <1>2 DEF Spells
      <4> QED BY <1>2, <4>1, PlaceOf
    <3>2. Linked!Recency!Pushed(s, k) = {}
      BY <1>9 DEF Linked!Recency!Pushed
    <3> QED BY <3>1, <3>2 DEF Linked!Recency!Placed, Linked!Recency!Used
  <2> HIDE DEF c
  <2>4. Spells(list', c) /\ map' = Elements(c) /\ Cardinality(map') = Len(c) /\ Len(c) <= MaxSize
    BY <1>2, <1>4, <1>5, <1>6, <1>9, <2>2
  <2>5. SpeltBy(c)'
    BY <2>4 DEF SpeltBy
  <2> QED BY <2>3, <2>5
<1>10. CASE ~(L < MaxSize)
  <2> DEFINE f == <<k>> \o Linked!Recency!Front(s)
             w == Skipping(c, L + 1, L + 1)
             last == c[L + 1]
  <2>1. L = MaxSize /\ L + 1 > MaxSize /\ L \in 1 .. L /\ L + 1 \in 1 .. L + 1 /\ L >= 1
    BY <1>2, <1>10
  <2>2. map' = (map \cup {k}) \ {longer.tail} /\ list' = Linked!Unlinked(longer, longer.tail)
    BY <1>1, <1>7, <2>1
  <2>3. longer.tail = last
    BY <1>4, <1>5, <2>1 DEF Spells
  <2>4. Linked!Recency!Placed(s, k) = f
    BY <1>8, <1>10 DEF Linked!Recency!Placed, Linked!Recency!Pushed
  <2> HIDE DEF c
  <2>5. Spells(list', w)
    <3>1. Len(c) = L + 1
      BY <1>5
    <3> QED BY <1>4, <2>1, <2>2, <2>3, <3>1, LruAssumed, UnlinkedSpells DEF LruFacts
  <2>6. Elements(w) = Elements(c) \ {last} /\ Len(w) = L
    <3>1. \A a, b \in 1 .. Len(c) : c[a] = c[b] => a = b
      BY <1>4 DEF Spells
    <3>2. /\ Elements(Skipping(c, L + 1, Len(c))) = Elements(c) \ {c[L + 1]}
          /\ Len(Skipping(c, L + 1, Len(c))) = Len(c) - 1
      BY <1>5, <2>1, <3>1, SkippingElements DEF Distinct
    <3> QED BY <1>2, <1>5, <3>2
  <2>7. w = f
    <3>1. /\ w \in Seq(Keys)
          /\ \A j \in 1 .. L : w[j] = c[j]
      <4>1. /\ L + 1 \in 1 .. Len(c) + 1 /\ L + 1 \in 0 .. Len(c)
        BY <1>2, <1>5
      <4>2. /\ w \in Seq(Keys)
            /\ \A j \in 1 .. Len(w) : w[j] = IF j < L + 1 THEN c[j] ELSE c[j + 1]
        BY <1>5, <4>1, SkippingIs
      <4>3. \A j \in 1 .. L : j < L + 1
        BY <1>2
      <4> HIDE DEF w
      <4> QED BY <2>6, <4>2, <4>3
    <3> DEFINE g == Linked!Recency!Front(s)
    <3>2. g \in Seq(Keys) /\ Len(g) = L - 1 /\ \A j \in 1 .. L - 1 : g[j] = s[j]
      BY <1>2, <2>1 DEF Linked!Recency!Front
    <3> HIDE DEF g
    <3>3. /\ f \in Seq(Keys) /\ Len(f) = Len(g) + 1 /\ f[1] = k
          /\ \A j \in 1 .. Len(g) : f[j + 1] = g[j]
      BY <3>2, InFront DEF g
    <3> HIDE DEF w, f
    <3>4. Len(f) = L
      BY <1>2, <3>2, <3>3
    <3>5. ASSUME NEW j \in 1 .. L PROVE w[j] = f[j]
      <4>1. CASE j = 1
        BY <1>5, <3>1, <3>3, <4>1
      <4>2. CASE j # 1
        <5>1. j - 1 \in 1 .. L - 1 /\ j - 1 \in 1 .. L /\ (j - 1) + 1 = j
          BY <1>2, <4>2
        <5>2. c[j] = s[j - 1]
          BY <1>5, <5>1
        <5>3. f[j] = g[j - 1] /\ g[j - 1] = s[j - 1]
          BY <3>2, <3>3, <5>1
        <5> QED BY <3>1, <5>2, <5>3
      <4> QED BY <4>1, <4>2
    <3> QED BY <2>6, <3>1, <3>3, <3>4, <3>5, SeqEqual
  <2>8. map' = Elements(w) /\ Cardinality(map') = L
    <3>1. map' = Elements(w)
      BY <1>2, <1>5, <2>2, <2>3, <2>6
    <3>2. last \in map \cup {k}
      <4>1. last \in Elements(c)
        BY <1>5, <2>1 DEF Elements
      <4> QED BY <1>2, <1>5, <4>1
    <3> HIDE DEF last
    <3>3. Cardinality((map \cup {k}) \ {last}) = Cardinality(map \cup {k}) - 1
      BY <1>6, <3>2, FS_RemoveElement
    <3> QED BY <1>2, <1>6, <2>2, <2>3, <3>1, <3>3
  <2> HIDE DEF f, w
  <2>9. Spells(list', f) /\ map' = Elements(f) /\ Cardinality(map') = Len(f) /\ Len(f) <= MaxSize
    BY <1>2, <2>1, <2>5, <2>6, <2>7, <2>8
  <2>10. SpeltBy(f)'
    BY <2>9 DEF SpeltBy
  <2> QED BY <2>4, <2>10
<1> QED BY <1>9, <1>10

(* The other components leave the linked list alone.                       *)
LEMMA LinkedAlone == [Next]_vars => [Linked!Next]_(Linked!vars)
<1> SUFFICES ASSUME [Next]_vars PROVE [Linked!Next]_(Linked!vars)
  OBVIOUS
<1>1. CASE LinkedMoves
  BY <1>1 DEF LinkedMoves
<1>2. UNCHANGED linkedVars => UNCHANGED Linked!vars
  BY DEF linkedVars, Linked!vars
<1>3. ASSUME UNCHANGED vars \/ PoolMoves \/ BreakerMoves \/ CacheMoves \/ AgentsMove
             \/ PrivateMoves \/ ModelsMove \/ SwarmMoves \/ BrowserMoves \/ NipMoves
      PROVE  UNCHANGED linkedVars
  BY <1>3 DEF vars, PoolMoves, BreakerMoves, CacheMoves, AgentsMove, PrivateMoves, ModelsMove,
      SwarmMoves, BrowserMoves, NipMoves
<1> QED BY <1>1, <1>2, <1>3 DEF Next

(* A step of the linked list is the step of the list of keys that has its  *)
(* name.                                                                   *)
LEMMA LinkedStep ==
  ASSUME LinkedInv, [Linked!Next]_(Linked!vars)
  PROVE  LinkedInv' /\ [Linked!Recency!Next]_(Linked!Walk)
<1>1. PICK s : SpeltBy(s)
  BY DEF LinkedInv
<1>2. Linked!Walk = s /\ Linked!Recency!Range(s) = Elements(s)
  BY <1>1, SpeltWalk DEF WalksSpelt
<1>3. \A t : SpeltBy(t)' => Linked!Walk' = t /\ LinkedInv'
  <2>1. WalksSpelt'
    BY SpeltWalk, PTL
  <2> QED BY <2>1 DEF LinkedInv, WalksSpelt
<1>4. ASSUME NEW k \in Keys, Linked!Get(k) \/ Linked!SetExisting(k)
      PROVE  LinkedInv' /\ Linked!Recency!Use(k)
  <2>1. k \in Elements(s) /\ SpeltBy(Linked!Recency!Used(s, k))'
    BY <1>1, <1>4, SpeltUse
  <2>2. LinkedInv' /\ Linked!Walk' = Linked!Recency!Used(s, k)
    BY <1>3, <2>1
  <2> QED BY <1>2, <2>1, <2>2 DEF Linked!Recency!Use
<1>5. ASSUME NEW k \in Keys, Linked!SetNew(k)
      PROVE  LinkedInv' /\ Linked!Recency!Put(k)
  <2>1. SpeltBy(Linked!Recency!Placed(s, k))'
    BY <1>1, <1>5, SpeltNew
  <2>2. LinkedInv' /\ Linked!Walk' = Linked!Recency!Placed(s, k)
    BY <1>3, <2>1
  <2> QED BY <1>2, <2>2 DEF Linked!Recency!Put
<1>6. ASSUME NEW k \in Keys, Linked!Delete(k)
      PROVE  LinkedInv' /\ Linked!Recency!Drop(k)
  <2>1. k \in Elements(s) /\ SpeltBy(Linked!Recency!Without(s, {k}))'
    BY <1>1, <1>6, SpeltDelete
  <2>2. LinkedInv' /\ Linked!Walk' = Linked!Recency!Without(s, {k})
    BY <1>3, <2>1
  <2> QED BY <1>2, <2>1, <2>2 DEF Linked!Recency!Drop
<1>7. CASE Linked!Clear
  <2>1. SpeltBy(<<>>)'
    BY <1>7, SpeltClear
  <2>2. LinkedInv' /\ Linked!Walk' = <<>>
    BY <1>3, <2>1
  <2> QED BY <2>2 DEF Linked!Recency!Next, Linked!Recency!Clear
<1>8. CASE UNCHANGED Linked!vars
  <2>1. SpeltBy(s)'
    BY <1>1, <1>8 DEF SpeltBy, Linked!vars
  <2>2. LinkedInv' /\ Linked!Walk' = s
    BY <1>3, <2>1
  <2> QED BY <1>2, <2>2
<1> QED BY <1>4, <1>5, <1>6, <1>7, <1>8 DEF Linked!Next, Linked!Recency!Next

(* At first it spells nothing, and then what its steps leave spelt.        *)
LEMMA LinkedInit == Init => LinkedInv /\ Linked!Recency!Init
<1> SUFFICES ASSUME Init PROVE LinkedInv /\ Linked!Recency!Init
  OBVIOUS
<1>1. list \in Lists /\ list.head = None /\ list.tail = None /\ map = {}
  BY DEF Init, Linked!Init, Lists
<1>2. Spells(list, <<>>)
  BY <1>1 DEF Spells
<1>3. Elements(<<>>) = {} /\ Cardinality({}) = 0
  BY FS_EmptySet DEF Elements
<1>4. SpeltBy(<<>>)
  BY <1>1, <1>2, <1>3, LruAssumed DEF SpeltBy, LruFacts
<1>5. Linked!Walk = <<>>
  BY <1>4, SpeltWalk DEF WalksSpelt
<1> QED BY <1>4, <1>5 DEF LinkedInv, Linked!Recency!Init

LEMMA LinkedInvariant == Spec => []LinkedInv
<1>1. LinkedInv /\ [Next]_vars => LinkedInv'
  BY LinkedAlone, LinkedStep
<1> QED BY <1>1, LinkedInit, PTL DEF Spec

(* The doubly linked list of the caches is the list of their keys by last  *)
(* use: get, set, delete, eviction and clear keep every pointer right.     *)
THEOREM ListImplementsRecency == Spec => ImplementsRecency
<1>1. LinkedInv /\ [Next]_vars => [Linked!Recency!Next]_(Linked!Walk)
  BY LinkedAlone, LinkedStep
<1> QED BY <1>1, LinkedInit, LinkedInvariant, PTL
        DEF Spec, ImplementsRecency, Linked!ImplementsRecency, Linked!Recency!Spec
=============================================================================
