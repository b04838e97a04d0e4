SPECIFICATION PacedSpec
CONSTANTS
  self = self
  a = a
  b = b
  c = c
  Nodes <- FourNodes
  Self = self
  NoNode = NoNode
  NDags = 3
  NParents = 3
  NAddrs = 9
  NPartial = 1
  NInstances = 2
  DefaultLifetime = 1
  KeepTime = 1
  DroWait = 1
  HeardKeys <- LocalTwo
  TargetKeys <- MCTargetKeys
  RdoLifetime <- LongTwo
  Vectors <- NoVectors
  Ocps = {TRUE, FALSE}
INVARIANTS
  TypeOK
  SlotsPaired
  KeyUnique
  ExpiredIsSilent
  ParentsOfP2pDag
PROPERTIES
  ExpiredKeepsItsTime
  MemorySpec
