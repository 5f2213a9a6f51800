SPECIFICATION Spec
CONSTANTS
  v1 = v1
  v2 = v2
  Values <- TwoValues
  Keys = {1, 3, 5}
  size = 1
  None = None
CHECK_DEADLOCK FALSE
SYMMETRY Symmetry
INVARIANTS
  TypeOK
  EntriesInPlace
  MetOnce
PROPERTIES
  ImplementsDictionary
