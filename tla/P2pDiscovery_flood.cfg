\* The target is out of reach.  Nobody can hear of the discovery for the first
\* time after second 2 in this network, and records are kept for the least
\* time that SizesAssumption permits; one link may change.
SPECIFICATION Spec
CONSTANTS
  a = a
  b = b
  c = c
  x = x
  Node = {o, a, b, c}
  Address = {o, a, b, c, x}
  Origin = o
  Target = t
  None = None
  Link <- Network
  Etx <- Etxs
  Short = {b}
  NPartial = 3
  Stray <- StrayLists
  Lifetime = 1
  KeepTime = 4
  MaxSpread = 2
  MaxFaults = 1
INVARIANTS
  TypeOK
  VectorsArePaths
  NoLoops
  NeverAgain
PROPERTIES
  NodesRemember
