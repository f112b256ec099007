SPECIFICATION PartSpec
CONSTANTS
  a = a b = b a1 = a1 b1 = b1 c1 = c1 c2 = c2
  t1 = t1 t2 = t2 t3 = t3 r1 = r1 d1 = d1 d2 = d2 Server = Server None = None
  Paths = {a, b}
  Models = {a1, b1}
  PathOf <- ObjectPath
  Size <- TwoAndOne
  Chunks = {c1, c2}
  Loads = {t1, t2, t3}
  LoadPath <- LoadsOf
  Replicas = {}
  ReplicaPath <- NoPaths
  Devices = {d1, d2}
  ChunksPerThread = 1
  Tries = 1
  Unloads = {a}
  Clears = FALSE
  ReadErrors = TRUE
  CopyErrors = FALSE
  HostFirst = TRUE
  RegistrationRequired = FALSE
SYMMETRY Alike
INVARIANTS HostHoldsModel EvictionSuffices NoCrash LoadedIsComplete
CHECK_DEADLOCK FALSE
