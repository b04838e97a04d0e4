SPECIFICATION Spec
CONSTANTS
  o = o
  o2 = o2
  a = a
  b = b
  t = t
  source = source
  hops = hops
  other = other
  Nodes <- MCNodes
  NoNode = NoNode
  Neighbours <- Diamond
  Discoveries = {hops}
  Origin <- MCOrigin
  Target <- MCTarget
  HopByHop <- MCHopByHop
  BothDirections <- MCBothDirections
  Routes <- OneRelay
  NCache = 2
  MaxRexmits = 2
  MaxCached = 2
  NSrcRoutes = 1
  NSrcAddrs = 3
  MaxLost = 1
INVARIANTS
  HopByHopReplyDelivered
CHECK_DEADLOCK FALSE
