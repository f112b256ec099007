\* The default configuration: no runtime metadata, no distributed allocation.
CONSTANTS
  a = a  b = b  i1 = i1  i2 = i2  i3 = i3  n1 = n1  n2 = n2
  NoNode = NoNode  r1 = r1
  Models = {a, b}
  Instances = {i1, i2, i3}
  Nodes = {n1, n2}
  Routers = {r1}
  ModelOf <- MCModelOf
  Gpus <- MCGpus
  Target <- MCTarget
  TotalGpu <- MCTotalGpu
  NodeInfo <- MCNodeInfo
  ResizeTo = {}
  RuntimeMetadata = FALSE
  Distributed = FALSE
  ElasticResize = FALSE
  RayChurn = FALSE
SPECIFICATION FairSpec
INVARIANTS NoOvercommit StateIsLastMark QueuedExactlyOnce
PROPERTIES GrantsOnReadyNodes FcfsWithinModel NoStarvationBesideRoom
