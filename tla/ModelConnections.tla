--------------------------- MODULE ModelConnections ---------------------------
(***************************************************************************)
(* server/modelConnections.ts, services/modelService.ts and                *)
(* modelReadiness.ts: the rows of the models table, the probe that decides *)
(* whether a model is connected, and the two core roles, which operators   *)
(* assign and reconcileModelRoles moves.  A probe is awaited; its result   *)
(* is written to whatever the row has become.                              *)
(***************************************************************************)
EXTENDS Integers, FiniteSets

CONSTANTS
    Models,     \* bound: rows
    None

Methods == {"api_key", "env_var", "none"}

VARIABLES
    row,            \* of each model: None, or its method, credentials and state
    defaults,       \* the rows with is_default
    orchestrators,  \* the rows with is_orchestrator
    env,            \* whether the variable that rows name is set in this process
    probes          \* models with a probe in flight

vars == <<row, defaults, orchestrators, env, probes>>

\* given: the key or the variable's name that the method needs is stored
Access == {a \in [method : Methods, given : BOOLEAN] : a.method = "none" => ~a.given}

\* no row is taken for its absence
ModelAssumption == None \notin [enabled : BOOLEAN, connected : BOOLEAN, access : Access]

Credential(r, e) ==
    \/ r.access.method = "none"
    \/ r.access.given /\ (r.access.method = "env_var" => e)

Routable(r, e) == r # None /\ r.enabled /\ r.connected /\ Credential(r, e)

Init ==
    /\ row = [m \in Models |-> None]
    /\ defaults = {} /\ orchestrators = {}
    /\ env \in BOOLEAN
    /\ probes = {}

\* reconcileModelRoles: a holder that can still serve keeps its role
Reconcile(defs, orchs, preferred) ==
    LET ready == {m \in Models : Routable(row'[m], env)}
        Choice(holders, other) ==
            IF holders \cap ready # {} THEN holders \cap ready
            ELSE IF preferred \in ready THEN {preferred} ELSE other
    IN  IF ready = {} THEN defaults' = {} /\ orchestrators' = {}
        ELSE \E d \in Choice(defs, ready) : \E o \in Choice(orchs, {d}) :
                defaults' = {d} /\ orchestrators' = {o}

-----------------------------------------------------------------------------
(* The operator's requests. *)

\* roles cannot be asked for on creation
Create(m) ==
    /\ row[m] = None
    /\ \E access \in Access :
        row' = [row EXCEPT ![m] = [enabled |-> TRUE, connected |-> FALSE, access |-> access]]
    /\ UNCHANGED <<defaults, orchestrators, env, probes>>

\* testConnection, on the row r: without credentials the answer is immediate
Probed(m, r) ==
    IF Credential(r, env)
    THEN /\ row' = [row EXCEPT ![m] = r]
         /\ probes' = probes \cup {m}
         /\ UNCHANGED <<defaults, orchestrators>>
    ELSE /\ row' = [row EXCEPT ![m] = [r EXCEPT !.connected = FALSE]]
         /\ Reconcile(defaults, orchestrators, None)
         /\ UNCHANGED probes

\* the status stays what it was, and what the method needs is given, blank or what
\* an earlier connection left
Connect(m) ==
    /\ row[m] # None
    /\ \E access \in Access : Probed(m, [row[m] EXCEPT !.access = access])
    /\ UNCHANGED env

Test(m) == row[m] # None /\ Probed(m, row[m]) /\ UNCHANGED env

(* Seeded fault: disabling a model leaves its roles. *)
UpdateKeepingRoles(m) ==
    /\ row[m] # None
    /\ \E enabled \in BOOLEAN :
        row' = [row EXCEPT ![m] = [row[m] EXCEPT !.enabled = enabled]]
    /\ UNCHANGED <<defaults, orchestrators, env, probes>>

\* PATCH: only a model that can serve may take a role
Update(m) ==
    LET After(holders, wish) ==
            CASE wish = "keep" -> holders
              [] wish = "take" -> {m}
              [] wish = "drop" -> holders \ {m}
    IN  /\ row[m] # None
        /\ \E enabled \in BOOLEAN, d, o \in {"keep", "take", "drop"} :
            LET r == [row[m] EXCEPT !.enabled = enabled] IN
            /\ "take" \in {d, o} => Routable(r, env)
            /\ row' = [row EXCEPT ![m] = r]
            /\ IF Routable(r, env) /\ "drop" \notin {d, o}
               THEN defaults' = After(defaults, d) /\ orchestrators' = After(orchestrators, o)
               ELSE Reconcile(After(defaults, d), After(orchestrators, o), None)
        /\ UNCHANGED <<env, probes>>

Disconnect(m) ==
    /\ row[m] # None
    /\ row' = [row EXCEPT ![m] = [row[m] EXCEPT !.connected = FALSE, !.access.given = FALSE]]
    /\ Reconcile(defaults, orchestrators, None)
    /\ UNCHANGED <<env, probes>>

Delete(m) ==
    /\ row[m] # None
    /\ row' = [row EXCEPT ![m] = None]
    /\ Reconcile(defaults \ {m}, orchestrators \ {m}, None)
    /\ UNCHANGED <<env, probes>>

-----------------------------------------------------------------------------
\* the provider answers or fails; whether it was m's last probe is left open
ProbeEnds(m) ==
    /\ m \in probes
    /\ probes' \in {probes, probes \ {m}}
    /\ \E ok \in BOOLEAN :
        /\ row' = IF row[m] = None THEN row ELSE [row EXCEPT ![m] = [row[m] EXCEPT !.connected = ok]]
        /\ Reconcile(defaults, orchestrators, IF ok THEN m ELSE None)
    /\ UNCHANGED env

\* the process starts again, in an environment that may have changed
Restart ==
    /\ env' \in BOOLEAN
    /\ probes' = {}
    /\ UNCHANGED <<row, defaults, orchestrators>>

Next ==
    \/ Restart
    \/ \E m \in Models :
        \/ Create(m) \/ Connect(m) \/ Test(m) \/ Update(m) \/ Disconnect(m) \/ Delete(m)
        \/ ProbeEnds(m)

Spec == Init /\ [][Next]_vars

-----------------------------------------------------------------------------
(* Every variable has its type. *)
TypeOK ==
    /\ row \in [Models ->
            [enabled : BOOLEAN, connected : BOOLEAN, access : Access] \cup {None}]
    /\ defaults \subseteq Models /\ orchestrators \subseteq Models
    /\ env \in BOOLEAN /\ probes \subseteq Models

(* However connections, late probes, updates, deletions and restarts       *)
(* follow each other, a core role has at most one holder, and a holder is  *)
(* a model that can serve: only an environment variable that went away     *)
(* with a restart leaves a role on one that cannot.                        *)
CoreRoles == \A holders \in {defaults, orchestrators} :
    /\ Cardinality(holders) <= 1
    /\ \A m \in holders : Routable(row[m], TRUE)
=============================================================================
