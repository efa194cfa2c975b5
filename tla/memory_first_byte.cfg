SPECIFICATION Spec
CONSTANTS
  t1 = t1
  t2 = t2
  t3 = t3
  Tasks <- TwoTasks
  NumFrames <- FiveFrames
  Values <- TwoValues
  Unused = "x"
  Program = "y"
  DataPage = 1
  StackLimit = 3
  StackBase = 4
  HeapBegin = 6
  HeapEnd = 7
  MaxMalloc = 2
  MaxPrograms = 2
  MaxReferences = 3
  TouchEdges = TRUE
  KernelWrites = FALSE
\* The model ends when no task is left.
CHECK_DEADLOCK FALSE
INVARIANTS
  OwnMemoryUsable
