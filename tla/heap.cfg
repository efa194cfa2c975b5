SPECIFICATION Spec
CONSTANTS
  UnitBytes = 16
  NALLOC = 3
  PageUnits = 2
  HeapBegin <- BeginAt
  HeapEnd <- EndAt
  Requests <- SomeRequests
\* The model ends when the heap area is full and nothing is held.
CHECK_DEADLOCK FALSE
INVARIANTS
  TypeOK
  UnitsPartitioned
  ListInOrder
  WholeAgain
PROPERTIES
  ImplementsAllocator
