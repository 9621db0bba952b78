SPECIFICATION Spec
CONSTANTS
  Task = {t1, t2}
  HeapEnd = 12
  Header = 1
  Alignment = 16
  Request = {0, 1, 17, 60}
  HoldBound = 3
SYMMETRY TaskSymmetry
INVARIANTS HeapConsistent RemainingIsListed
PROPERTY ImplementsAllocator
