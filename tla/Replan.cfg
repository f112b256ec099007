SPECIFICATION ReplanFairSpec
CONSTANTS
  e1 = e1
  i1 = i1
  i2 = i2
  i3 = i3
  n1 = n1
  r1 = r1
  r2 = r2
  Instances = {i1, i2, i3}
  Requests = {r1, r2}
  Nodes = {n1}
  Events = {e1}
  None = None
  NodeGpus = 3
  MaxQueueLength = 1
  Target = 1
  KeepAlive = 1
  Limits <- One
  Updates = {}
  CountPreempting = FALSE
  Policy = "stateful_recovery"
  MaxRetries = 1
  RequireNative = TRUE
  Faults = {}
  SpotKinds = {"add"}
  Reparallelize = TRUE
  MayShutdown = FALSE
  Modes = {"create", "remap", "resize"}
  ReplicaCounts = {1, 2}
  Orders <- AllOrders
  ExecFaults = {"create", "probe", "switch", "drain", "release", "export", "runtime", "resize"}
INVARIANTS SourceOutlivesMigration TargetsReleased
PROPERTIES ReplanEnds
CHECK_DEADLOCK FALSE
