SPECIFICATION Spec
CONSTANTS
  MAX <- FourSlots
  TicksPerSecond <- TwoTicks
  IntLimit <- SmallInt
  SleepArgs <- ShortSleeps
  KillClasses <- NoKill
  MaxLines <- OneLine
  ForkWhenFull = TRUE
CHECK_DEADLOCK FALSE
INVARIANTS
  ForkStaysInTable
