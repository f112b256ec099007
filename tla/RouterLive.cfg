SPECIFICATION FairSpec
CONSTANTS
  e1 = e1
  i1 = i1
  i2 = i2
  i3 = i3
  n1 = n1
  r1 = r1
  r2 = r2
  Instances = {i1, i2, i3}
  Requests = {r1, r2}
  Nodes = {n1}
  Events = {e1}
  None = None
  NodeGpus = 2
  MaxQueueLength = 1
  Target = 1
  KeepAlive = 1
  Limits <- UpToTwo
  Updates <- KeepOne
  CountPreempting = FALSE
  Policy = "stateful_recovery"
  MaxRetries = 1
  RequireNative = TRUE
  Faults = {"error", "invalid"}
  SpotKinds = {}
  Reparallelize = FALSE
  MayShutdown = FALSE
INVARIANTS WithinMaxInstances
PROPERTIES RequestsAnswered ScalesDown
CHECK_DEADLOCK FALSE
