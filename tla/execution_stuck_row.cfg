CONSTANTS
  m1 = m1
  Messages = {m1}
  RequireQueue = TRUE
  Cancels = FALSE
  MaxEpochs = 2
  MaxFaults = 0
  MaxAttempts = 2
  None = None
SPECIFICATION FairSpec
CHECK_DEADLOCK FALSE
PROPERTIES Drained
