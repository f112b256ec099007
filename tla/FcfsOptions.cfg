SPECIFICATION Spec
CONSTANTS
  a = a  b = b  i1 = i1  i2 = i2  n1 = n1  r1 = r1
  NoNode = NoNode
  Models = {a, b}
  Instances = {i1, i2}
  Nodes = {n1}
  Routers = {r1}
  ModelOf <- OfA
  Gpus <- OneAndTwo
  Target <- AnyNode
  TotalGpu <- TwoGpus
  NodeInfo <- AddedWith
  ResizeTo = {1, 2}
  RuntimeMetadata = TRUE
  Distributed = TRUE
  ElasticResize = TRUE
  RayChurn = TRUE
INVARIANTS LoopAlive
