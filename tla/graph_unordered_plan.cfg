SPECIFICATION Spec
CONSTANTS
    N = 2
    MaxIterations = 2
    MaxRounds = 1
    MaxFaults = 0
CHECK_DEADLOCK FALSE
INVARIANTS AdmittedPlansRun
