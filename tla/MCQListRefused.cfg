SPECIFICATION LinksSpec
CONSTANTS
  a1 = a1
  a2 = a2
  a3 = a3
  a4 = a4
  None = None
  Anchorages = {a1, a2, a3, a4}
  DataOf <- FixedWeights
  Writers = {w1}
  Readers = {r1}
INVARIANTS
  NeverRefused
