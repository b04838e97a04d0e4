SPECIFICATION PacedSpec
CONSTANTS
  self = self
  a = a
  b = b
  c = c
  Nodes <- MCNodes
  Self = self
  NoNode = NoNode
  NDags = 3
  NParents = 5
  NAddrs = 4
  NPartial = 2
  NInstances = 1
  DefaultLifetime = 1
  KeepTime = 1
  DroWait = 1
  HeardKeys <- LocalTwo
  TargetKeys <- MCTargetKeys
  RdoLifetime <- LongTwo
  Vectors <- SomeVectors
  Ocps = {TRUE}
INVARIANTS
  RoutesDistinct
  NoRouteLeak
