SPECIFICATION Spec
CONSTANTS
  e1 = e1
  i1 = i1
  i2 = i2
  n1 = n1
  r1 = r1
  r2 = r2
  Instances = {i1, i2}
  Requests = {r1, r2}
  Nodes = {n1}
  Events = {e1}
  None = None
  NodeGpus = 2
  MaxQueueLength = 1
  Target = 1
  KeepAlive = 0
  Limits <- UpToOne
  Updates = {}
  CountPreempting = FALSE
  Policy = "stateful_recovery"
  MaxRetries = 1
  RequireNative = FALSE
  Faults = {"raise", "actor", "preempted"}
  SpotKinds = {"preempt", "recover", "deadline"}
  Reparallelize = FALSE
  MayShutdown = TRUE
INVARIANTS TypeOK RequestsAccounted
PROPERTIES HandlesFollowLifecycle
SYMMETRY Symmetry
CHECK_DEADLOCK FALSE
