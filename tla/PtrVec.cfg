SPECIFICATION Spec
CONSTANTS
  p1 = p1
  p2 = p2
  NULL = NULL
  Garbage = Garbage
  Ptr <- MCPtr
  Rank <- MCRank
  InitMaxItems = 4
  HeapMax = 6
  PtrSize = 8
  UintMod = 128
  ResizeArgs <- MCResizeArgs
  ShrinkAllowed = FALSE
INVARIANTS
  TypeOK
  RingSound
  SortNeverOverruns
PROPERTY
  ImplementsDeque
