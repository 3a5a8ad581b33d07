---------------------------- MODULE PrivateService ----------------------------
(***************************************************************************)
(* script/private-service.mjs and the shutdown of server/index.ts: a       *)
(* supervisor that keeps one app running, the two locks that exclude a     *)
(* second supervisor and a second app, and the files by which `stop' talks *)
(* to the supervisor.                                                      *)
(*                                                                         *)
(* Both locks are SQLite transactions, which end with their process.  A    *)
(* supervisor that is killed leaves its app behind: the app sees the pipe  *)
(* close and shuts down, and meanwhile another supervisor may start.       *)
(***************************************************************************)
EXTENDS Integers, FiniteSets

CONSTANTS
    Supervisors,    \* instances: each has a random id of its own
    Apps,           \* bound: app processes alive at a time; a name is used again
    MaxKills,       \* bound: supervisors killed
    MaxFaults,      \* bound: apps that die or hang, logs that cannot be written
    None

ServiceAssumption ==
    None \notin Supervisors \cup Apps /\ MaxKills \in Nat /\ MaxFaults \in Nat

VARIABLES
    sup,        \* where each supervisor is
    child,      \* the app it has spawned
    stopping,   \* supervisors that have been told to stop
    lease,      \* who holds private-service.ownership.db
    app,        \* where each app is
    lock,       \* which app holds the ownership of the private state
    file,       \* private-service.json
    stopFile,   \* private-service-stop.json: the instance it names
    asked,      \* history: supervisors someone meant to stop
    confirmed,  \* supervisors whose `stop' command has reported success
    kills, faults

supVars == <<sup, child, stopping, lease>>
appVars == <<app, lock>>
cmdVars == <<stopFile, asked, confirmed>>
vars == <<supVars, appVars, file, cmdVars, kills, faults>>

Alive(a) == app[a] # "gone"
Listening(a) == app[a] \in {"up", "hung"}
FreeName == CHOOSE a \in Apps : ~Alive(a)
NoChildAlive(s) == \A a \in Apps : child[s] = a => ~Alive(a)
Orphans == {a \in Apps : Alive(a) /\ \A s \in Supervisors : child[s] # a}

Init ==
    /\ sup = [s \in Supervisors |-> "new"] /\ child = [s \in Supervisors |-> None]
    /\ stopping = {} /\ lease = None
    /\ app = [a \in Apps |-> "gone"] /\ lock = None
    /\ file = [instance |-> None, state |-> "none"]
    /\ stopFile = None /\ asked = {} /\ confirmed = {}
    /\ kills = 0 /\ faults = 0

Fault == faults < MaxFaults /\ faults' = faults + 1

WriteState(s, st) == file' = [instance |-> s, state |-> st]

-----------------------------------------------------------------------------
(* supervise. *)

Begin(s) ==
    /\ sup[s] = "new" /\ lease = None
    /\ lease' = s /\ sup' = [sup EXCEPT ![s] = "loop"]
    /\ WriteState(s, "starting")
    /\ UNCHANGED <<child, stopping, appVars, cmdVars, kills, faults>>

Refused(s) ==
    /\ sup[s] = "new" /\ lease # None
    /\ sup' = [sup EXCEPT ![s] = "done"]
    /\ UNCHANGED <<child, stopping, lease, appVars, file, cmdVars, kills, faults>>

\* the heartbeat or the loop reads the stop file
SeesStopFile(s) ==
    /\ sup[s] \in {"loop", "replacing"} /\ stopFile = s /\ s \notin stopping
    /\ stopping' = stopping \cup {s}
    /\ UNCHANGED <<sup, child, lease, appVars, file, cmdVars, kills, faults>>

\* SIGINT or SIGTERM
Signalled(s) ==
    /\ sup[s] \in {"loop", "replacing"} /\ s \notin stopping
    /\ stopping' = stopping \cup {s} /\ asked' = asked \cup {s}
    /\ UNCHANGED <<sup, child, lease, appVars, file, stopFile, confirmed, kills, faults>>

\* the ports are free, the queue is up and the backoff is over
Spawn(s) ==
    /\ sup[s] = "loop" /\ s \notin stopping /\ child[s] = None
    /\ \A a \in Apps : ~Listening(a)
    /\ \E a \in Apps : ~Alive(a)
    /\ app' = [app EXCEPT ![FreeName] = "booting"] /\ child' = [child EXCEPT ![s] = FreeName]
    /\ WriteState(s, "starting")
    /\ UNCHANGED <<sup, stopping, lease, lock, cmdVars, kills, faults>>

SpawnFails(s) ==
    /\ sup[s] = "loop" /\ s \notin stopping /\ child[s] = None
    /\ \E a \in Apps : Listening(a)
    /\ WriteState(s, "dependency-unavailable")
    /\ UNCHANGED <<supVars, appVars, cmdVars, kills, faults>>

ProbeReady(s) ==
    /\ sup[s] = "loop" /\ child[s] # None /\ app[child[s]] = "up"
    /\ WriteState(s, "ready")
    /\ UNCHANGED <<supVars, appVars, cmdVars, kills, faults>>

\* it has exited, or has not been healthy for thirty seconds; to take that
\* long to start is a fault
ProbeGivesUp(s) ==
    /\ sup[s] = "loop" /\ child[s] # None /\ app[child[s]] # "up"
    /\ IF app[child[s]] \in {"booting", "locked"} THEN Fault ELSE UNCHANGED faults
    /\ sup' = [sup EXCEPT ![s] = "replacing"]
    /\ WriteState(s, "recovering")
    /\ UNCHANGED <<child, stopping, lease, appVars, cmdVars, kills>>

\* the while loop ends, or the log cannot be written and it throws
LoopEnds(s) ==
    /\ sup[s] = "loop"
    /\ \/ s \in stopping /\ UNCHANGED faults
       \/ Fault
    /\ sup' = [sup EXCEPT ![s] = "ending"]
    /\ UNCHANGED <<child, stopping, lease, appVars, file, cmdVars, kills>>

\* stopChild: SIGTERM, and SIGKILL after twelve seconds
Terminating(s) == sup[s] \in {"replacing", "ending"} /\ child[s] # None

\* before its handlers are installed a signal ends the app at once
ShutDown(a) ==
    /\ app' = [app EXCEPT ![a] = IF app[a] = "up" THEN "draining" ELSE "gone"]
    /\ lock' = IF app[a] # "up" /\ lock = a THEN None ELSE lock

Terminate(s) ==
    /\ Terminating(s) /\ app[child[s]] \in {"booting", "locked", "up"}
    /\ ShutDown(child[s])
    /\ UNCHANGED <<supVars, file, cmdVars, kills, faults>>

Exits(a) ==
    /\ app' = [app EXCEPT ![a] = "gone"]
    /\ lock' = IF lock = a THEN None ELSE lock

(* Seeded fault: no SIGKILL follows the SIGTERM that a hung app ignores. *)
KillChildThatDrains(s) ==
    /\ Terminating(s) /\ app[child[s]] \in {"draining", "closing"}
    /\ Exits(child[s])
    /\ UNCHANGED <<supVars, file, cmdVars, kills, faults>>

KillChild(s) ==
    /\ Terminating(s) /\ app[child[s]] \in {"draining", "closing", "hung"}
    /\ Exits(child[s])
    /\ UNCHANGED <<supVars, file, cmdVars, kills, faults>>

Replaced(s) ==
    /\ sup[s] = "replacing" /\ ~Alive(child[s])
    /\ sup' = [sup EXCEPT ![s] = "loop"] /\ child' = [child EXCEPT ![s] = None]
    /\ UNCHANGED <<stopping, lease, appVars, file, cmdVars, kills, faults>>

(* Seeded fault: the stop is on record before the app is gone. *)
EndsEarly(s) ==
    /\ sup[s] = "ending"
    /\ WriteState(s, "stopped")
    /\ IF NoChildAlive(s)
       THEN /\ sup' = [sup EXCEPT ![s] = "done"] /\ lease' = None
            /\ child' = [child EXCEPT ![s] = None]
       ELSE UNCHANGED <<sup, lease, child>>
    /\ UNCHANGED <<stopping, appVars, cmdVars, kills, faults>>

Ends(s) ==
    /\ sup[s] = "ending" /\ NoChildAlive(s)
    /\ WriteState(s, "stopped")
    /\ sup' = [sup EXCEPT ![s] = "done"] /\ lease' = None
    /\ child' = [child EXCEPT ![s] = None]
    /\ UNCHANGED <<stopping, appVars, cmdVars, kills, faults>>

KillSupervisor(s) ==
    /\ sup[s] \notin {"new", "done"} /\ kills < MaxKills /\ kills' = kills + 1
    /\ sup' = [sup EXCEPT ![s] = "done"] /\ lease' = None
    /\ child' = [child EXCEPT ![s] = None]
    /\ UNCHANGED <<stopping, appVars, file, cmdVars, faults>>

-----------------------------------------------------------------------------
(* The app. *)

\* privateStateLock is the first module loaded: it throws if the lock is held
Lock(a) ==
    /\ app[a] = "booting"
    /\ \/ lock = None /\ lock' = a /\ app' = [app EXCEPT ![a] = "locked"]
       \/ lock # None /\ app' = [app EXCEPT ![a] = "gone"] /\ UNCHANGED lock
    /\ UNCHANGED <<supVars, file, cmdVars, kills, faults>>

Listen(a) ==
    /\ app[a] = "locked"
    /\ app' = [app EXCEPT ![a] = "up"]
    /\ UNCHANGED <<supVars, lock, file, cmdVars, kills, faults>>

\* its supervisor is gone, or an exception nobody caught
ShutsDownItself(a) ==
    /\ app[a] = "up"
    /\ \/ a \in Orphans /\ UNCHANGED faults
       \/ Fault
    /\ ShutDown(a)
    /\ UNCHANGED <<supVars, file, cmdVars, kills>>

(* Seeded fault: the lock is given back when the shutdown begins. *)
DrainedUnlocked(a) ==
    /\ app[a] = "draining"
    /\ \/ lock = a /\ lock' = None /\ UNCHANGED app
       \/ lock # a /\ app' = [app EXCEPT ![a] = "closing"] /\ UNCHANGED lock
    /\ UNCHANGED <<supVars, file, cmdVars, kills, faults>>

\* the requests are over or cut off; all that is open is closed at once, the
\* lock among it, and the running job is waited for
Drained(a) ==
    /\ app[a] = "draining"
    /\ app' = [app EXCEPT ![a] = "closing"]
    /\ lock' = IF lock = a THEN None ELSE lock
    /\ UNCHANGED <<supVars, file, cmdVars, kills, faults>>

Closed(a) ==
    /\ app[a] = "closing"
    /\ Exits(a)
    /\ UNCHANGED <<supVars, file, cmdVars, kills, faults>>

Hang(a) ==
    /\ app[a] = "up" /\ Fault
    /\ app' = [app EXCEPT ![a] = "hung"]
    /\ UNCHANGED <<supVars, lock, file, cmdVars, kills>>

Die(a) ==
    /\ Alive(a) /\ Fault
    /\ Exits(a)
    /\ UNCHANGED <<supVars, file, cmdVars, kills>>

-----------------------------------------------------------------------------
(* The stop command.  The heartbeat of a supervisor that was killed counts *)
(* as current for ten seconds more.                                        *)

StopCommand ==
    /\ file.instance # None /\ file.state # "stopped" /\ stopFile # file.instance
    /\ stopFile' = file.instance /\ asked' = asked \cup {file.instance}
    /\ UNCHANGED <<supVars, appVars, file, confirmed, kills, faults>>

StopConfirmed ==
    /\ stopFile # None /\ stopFile \notin confirmed
    /\ file = [instance |-> stopFile, state |-> "stopped"]
    /\ confirmed' = confirmed \cup {stopFile}
    /\ UNCHANGED <<supVars, appVars, file, stopFile, asked, kills, faults>>

-----------------------------------------------------------------------------
Next ==
    \/ \E s \in Supervisors :
        \/ Begin(s) \/ Refused(s) \/ SeesStopFile(s) \/ Signalled(s)
        \/ Spawn(s) \/ SpawnFails(s) \/ ProbeReady(s) \/ ProbeGivesUp(s) \/ LoopEnds(s)
        \/ Terminate(s) \/ KillChild(s) \/ Replaced(s) \/ Ends(s) \/ KillSupervisor(s)
    \/ \E a \in Apps :
        \/ Lock(a) \/ Listen(a) \/ ShutsDownItself(a) \/ Drained(a) \/ Closed(a)
        \/ Hang(a) \/ Die(a)
    \/ StopCommand \/ StopConfirmed

\* every wait of the supervisor and of a shutdown has a timeout
SupervisorGoesOn(s) ==
    \/ Spawn(s) \/ ProbeGivesUp(s) \/ Terminate(s) \/ KillChild(s) \/ Replaced(s) \/ Ends(s)
    \/ SeesStopFile(s)
    \/ s \in stopping /\ LoopEnds(s)

AppGoesOn(a) ==
    \/ Lock(a) \/ Listen(a) \/ Drained(a) \/ Closed(a)
    \/ a \in Orphans /\ ShutsDownItself(a)

Fairness ==
    /\ \A s \in Supervisors : WF_vars(SupervisorGoesOn(s))
    /\ \A a \in Apps : WF_vars(AppGoesOn(a))

Spec == Init /\ [][Next]_vars
FairSpec == Spec /\ Fairness

-----------------------------------------------------------------------------
(* Every variable has its type, and one supervisor works at a time. *)
TypeOK ==
    /\ sup \in [Supervisors -> {"new", "loop", "replacing", "ending", "done"}]
    /\ child \in [Supervisors -> Apps \cup {None}]
    /\ stopping \subseteq Supervisors /\ lease \in Supervisors \cup {None}
    /\ \A s \in Supervisors : sup[s] \in {"loop", "replacing", "ending"} => lease = s
    /\ app \in [Apps -> {"gone", "booting", "locked", "up", "hung", "draining", "closing"}]
    /\ lock \in Apps \cup {None}
    /\ file \in [instance : Supervisors \cup {None}, state : {"none", "starting", "ready",
                 "recovering", "dependency-unavailable", "stopped"}]
    /\ stopFile \in Supervisors \cup {None}
    /\ asked \subseteq Supervisors /\ confirmed \subseteq Supervisors
    /\ kills \in 0 .. MaxKills /\ faults \in 0 .. MaxFaults

(* Two apps never serve at a time: while one takes requests or finishes    *)
(* those it has, no other has begun to, even after the supervisor of the   *)
(* first was killed and another took its place.                            *)
OneServes ==
    \A a, b \in Apps :
        app[a] \in {"locked", "up", "hung", "draining"} /\ app[b] \in {"locked", "up", "hung", "draining"}
            => a = b

(* When `stop' reports success, the app of that supervisor is gone, and    *)
(* nobody had meant another supervisor.                                    *)
StoppedMeansQuiet ==
    /\ \A s \in confirmed : child[s] = None
    /\ stopping \subseteq asked

(* A supervisor that is not stopped brings its app up, and up again,       *)
(* unless a hung app of a killed supervisor keeps the ports.  (There is    *)
(* one such supervisor at a time.)                                         *)
ServesUntilStopped ==
    (\E s \in Supervisors : sup[s] = "loop") ~>
        \/ \A s \in Supervisors :
              sup[s] \in {"loop", "replacing"} => child[s] # None /\ app[child[s]] = "up"
        \/ \E a \in Orphans : app[a] = "hung"
=============================================================================
