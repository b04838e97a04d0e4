SPECIFICATION Spec
CONSTANTS
  o = o
  o2 = o2
  a = a
  b = b
  t = t
  source = source
  hops = hops
  other = other
  Nodes <- MCNodes
  NoNode = NoNode
  Neighbours <- Diamond
  Discoveries = {source, hops, other}
  Origin <- MCOrigin
  Target <- MCTarget
  HopByHop <- MCHopByHop
  BothDirections <- MCBothDirections
  Routes <- Crossing
  NCache = 2
  MaxRexmits = 2
  MaxCached = 1
  NSrcRoutes = 2
  NSrcAddrs = 4
  MaxLost = 2
INVARIANTS
  TypeOK
  SourceReplyDelivered
  RelayHopsReachTarget
  DirectionsAgree
PROPERTIES
  AckCancelsReported
CHECK_DEADLOCK FALSE
