CONSTANTS
  m1 = m1
  Messages = {m1}
  RequireQueue = FALSE
  Cancels = TRUE
  MaxEpochs = 3
  MaxFaults = 2
  MaxAttempts = 2
  None = None
SPECIFICATION Spec
CHECK_DEADLOCK FALSE
INVARIANTS AnswerOnce RestartAnnounces
