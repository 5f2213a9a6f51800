SPECIFICATION LinksSpec
CONSTANTS
  a1 = a1
  a2 = a2
  a3 = a3
  a4 = a4
  None = None
  Anchorages = {a1, a2, a3, a4}
  DataOf <- FreeWeights
  Writers = {w1, w2}
  Readers = {r1, r2}
SYMMETRY SymmetryOfFree
INVARIANTS
  TypeOK
  NoDuplicates
  CountMatches
  CacheInRing
  WalkSeesRing
  RingIsLinked
  Sorted
  CacheTransparent
PROPERTIES
  WholeRingShown
  NobodyOvertakes
  NewcomerBehindPeers
