SPECIFICATION FairSpec
CONSTANTS
  MAX <- FiveSlots
  TicksPerSecond <- TwoTicks
  IntLimit <- SmallInt
  SleepArgs <- ShortSleeps
  KillClasses <- NoKill
  MaxLines <- TwoLines
  ForkWhenFull = FALSE
INVARIANTS
  NoStrandedReader
PROPERTIES
  InterruptsServed
  SleeperWakes
  WaitpidReturns
  InitReaps
