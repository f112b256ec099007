SPECIFICATION Spec
CONSTANTS
  a = a b = b a1 = a1 a2 = a2 b1 = b1 c1 = c1 c2 = c2 c3 = c3 c4 = c4
  t1 = t1 t2 = t2 t3 = t3 r1 = r1 r2 = r2 d1 = d1 d2 = d2
  Server = Server None = None
  Paths = {a}
  Models = {a1}
  PathOf <- ObjectPath
  Size <- OneEach
  Chunks = {c1}
  Loads = {t1}
  LoadPath <- LoadsOf
  Replicas = {r1, r2}
  ReplicaPath <- ReplicasOfA
  Devices = {d1}
  ChunksPerThread = 1
  Tries = 1
  Unloads = {a}
  Clears = FALSE
  ReadErrors = FALSE
  CopyErrors = FALSE
  HostFirst = TRUE
  RegistrationRequired = FALSE
PROPERTY NoFreeUnderReplica
CHECK_DEADLOCK FALSE
