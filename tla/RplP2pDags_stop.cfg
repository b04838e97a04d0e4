SPECIFICATION PacedSpec
CONSTANTS
  self = self
  a = a
  b = b
  c = c
  Nodes <- MCNodes
  Self = self
  NoNode = NoNode
  NDags = 3
  NParents = 9
  NAddrs = 9
  NPartial = 2
  NInstances = 1
  DefaultLifetime = 2
  KeepTime = 1
  DroWait = 1
  HeardKeys <- LocalTwo
  TargetKeys <- MCTargetKeys
  RdoLifetime <- LongTwo
  Vectors <- NoVectors
  Ocps = {TRUE}
INVARIANTS
  StoppedIsDetached
