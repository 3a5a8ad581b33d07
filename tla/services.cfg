SPECIFICATION Spec
CONSTANTS
    None = None
    Moving = {"pool", "breaker", "linked", "cache", "agents", "private", "models", "swarm", "browser", "nip"}
    Calls = {1, 2, 3}
    SessionOf <- MCSessionOf
    MaxContainers = 1
    MaxPoolFaults = 1
    MaxCleanups = 1
    Requests = {q1, q2, q3, q4}
    FailureThreshold = 2
    SuccessThreshold = 2
    HalfOpenMaxConcurrent = 1
    Keys = {k1, k2, k3, k4}
    MaxSize = 3
    CacheKeys = {k1, k2}
    Sizes = {1, 2}
    MaxEntries = 1
    High = 4
    WarmLimit = 1
    Tasks = {t1, t2, t3}
    MaxTasks = 2
    Supervisors = {s1, s2}
    Apps = {a1, a2, a3}
    MaxKills = 1
    MaxFaults = 2
    Models = {m1, m2}
    g1 = g1 w1 = w1 w2 = w2
    SwarmAgents = {w1, w2}
    SwarmTasks = {g1}
    Given = {w1}
    Loops = {l1, l2}
    Dependencies <- MCDependencies
    MaxTurns = 1
    MaxConcurrentAgents = 2
    CircuitBreakerThreshold = 2
    Off = Off
    BrowserSessions = {b1, b2}
    MaxContexts = 3
    PoolSize = 1
    New = New
    NipSessionIds = {n1, n2}
    Limits = {1, 2}
    MaxMessages = 4
    MessagesCap = 4
CHECK_DEADLOCK FALSE
INVARIANTS TypeOK PoolBound AgentCommandsUndisturbed SlotsAccounted BudgetKept OneServes StoppedMeansQuiet CoreRoles OneTaskPerAgent ContextsUnshared
PROPERTIES ImplementsRecency SendsSettle ServesUntilStopped
