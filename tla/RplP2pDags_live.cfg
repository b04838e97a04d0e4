SPECIFICATION FairPacedSpec
CONSTANTS
  self = self
  a = a
  b = b
  c = c
  Nodes <- MCNodes
  Self = self
  NoNode = NoNode
  NDags = 3
  NParents = 9
  NAddrs = 9
  NPartial = 1
  NInstances = 1
  DefaultLifetime = 1
  KeepTime = 2
  DroWait = 2
  HeardKeys <- ThreeKeys
  TargetKeys <- MCTargetKeys
  RdoLifetime <- ShortTowards
  Vectors <- NoVectors
  Ocps = {TRUE}
PROPERTIES
  SlotsRecovered
  DagsRecovered
INVARIANTS
  DroTimerSafe
  GlobalSlotReserved
