SPECIFICATION FairSpec
CONSTANTS
    t1 = t1 t2 = t2 g1 = g1 r1 = r1
    Texts = {t1, t2}
    Images = {}
    Runs = {r1}
    RunOf <- OneRun
    Input <- Ones
    Output <- Twos
    Price <- LocalFallback
    Unpriced <- Nothing
    Understated <- Nothing
    AdmissionPrice = 2
    ImageCost = 3
    HardMax = 11
    MaxCalls = 4
    MaxInput = 4
    MaxOutput = 5
    MaxRetries = 2
    Limits = {11}
    MaxIds = 5
    LastMonth = 1
    MaxCrashes = 0
CHECK_DEADLOCK FALSE
INVARIANTS RunOutputBounded
PROPERTIES EveryCallEnds
