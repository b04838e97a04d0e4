\* Root - a - b, one global repair, two disturbances of any kind.
\* When links have become too bad to hear anything, the network is at rest.
SPECIFICATION FairSpec
CONSTANTS
  a = a
  b = b
  Node = {r, a, b}
  Root = r
  None = None
  Link <- Line
  Etx <- Etxs
  DefrtSize = 2
  MaxRepairs = 1
  MaxFaults = 2
INVARIANTS
  TypeOK
  RankFollowsParent
  RankIncreaseBounded
  DefaultRoutersAreParents
  PreferredIsDefaultRouter
PROPERTIES
  MinRankOnlyFalls
  LoopsEnd
  VersionSpreads
CHECK_DEADLOCK FALSE
