SPECIFICATION FairSpec
CONSTANTS
    N = 3
    MaxIterations = 2
    MaxRounds = 2
    MaxFaults = 2
CHECK_DEADLOCK FALSE
INVARIANTS ValidationIsExact DependenciesEndFirst SuccessIsWhole NoLeftovers
PROPERTIES TurnEnds
