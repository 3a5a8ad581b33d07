SPECIFICATION Spec
CONSTANTS
    t1 = t1 t2 = t2 g1 = g1 r1 = r1
    Texts = {t1}
    Images = {g1}
    Runs = {r1}
    RunOf <- OneRun
    Input <- Ones
    Output <- Ones
    Price <- DearFallback
    Unpriced <- Nothing
    Understated <- Primary
    AdmissionPrice = 2
    ImageCost = 3
    HardMax = 8
    MaxCalls = 3
    MaxInput = 4
    MaxOutput = 2
    MaxRetries = 2
    Limits = {5, 8}
    MaxIds = 3
    LastMonth = 2
    MaxCrashes = 1
CHECK_DEADLOCK FALSE
INVARIANTS TotalsAreSums WithinCeiling BillsHeld OnlyTheDeadStayReserved
PROPERTIES ClosedMonthsOnlyShrink
