SPECIFICATION Spec
CONSTANTS
  MAX <- FiveSlots
  TicksPerSecond <- TwoTicks
  IntLimit <- SmallInt
  SleepArgs <- LongSleeps
  KillClasses <- KillListed
  MaxLines <- OneLine
  ForkWhenFull = TRUE
\* The model ends when fork() has written outside the table.
CHECK_DEADLOCK FALSE
INVARIANTS
  TypeOK
  OnCpuRunnable
  InterruptsOnlyIdle
  TimerInStep
  NoLostChildExit
  WaitTargetStaysChild
  ParentLives
  SpaceOwned
  BlockedWhereItWaits
PROPERTIES
  ZombieStaysDead
