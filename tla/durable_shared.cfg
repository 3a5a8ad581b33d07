CONSTANTS
  p1 = p1  p2 = p2  p3 = p3  w1 = w1  k1 = k1  k2 = k2  c1 = c1  c2 = c2
  Processes = {p1, p2, p3}
  AppProcesses = {p1, p2, p3}
  Workflows = {w1}
  Keys = {k1, k2}
  Conversations = {c1, c2}
  Requests <- Conflicting
  StepIds = {"tool"}
  Pids = {p1, p2, p3}
  Namespaces = {"host"}
  PidOf <- OwnPid
  NsOf <- OneSpace
  ForeignPids = {}
  ExclusiveOwner = FALSE
  Nobody = Nobody  NoRun = NoRun  NoRequest = NoRequest
SPECIFICATION Spec
SYMMETRY Interchangeable
CHECK_DEADLOCK FALSE
INVARIANTS OneExecutor
PROPERTIES IdentityStable
