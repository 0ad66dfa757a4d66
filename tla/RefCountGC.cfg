SPECIFICATION Spec
CONSTANTS
  NoObject = NoObject
  Values = {v1, v2, v3}
  Auxes = {x1}
  MaxEdges = 3
  MaxHeld = 1
INVARIANTS
  CountsExact
  HeapSafe
PROPERTIES
  HeapRefinement
  CollectionIsComplete
  FreeingEnds
SYMMETRY ValueSymmetry
