SPECIFICATION FairPacedSpec
CONSTANTS
  self = self
  a = a
  b = b
  c = c
  Nodes <- MCNodes
  Self = self
  NoNode = NoNode
  NDags = 3
  NParents = 1
  NAddrs = 9
  NPartial = 1
  NInstances = 1
  DefaultLifetime = 1
  KeepTime = 1
  DroWait = 1
  HeardKeys <- ThreeKeys
  TargetKeys <- MCTargetKeys
  RdoLifetime <- Long
  Vectors <- NoVectors
  Ocps = {TRUE}
PROPERTIES
  DagsRecovered
