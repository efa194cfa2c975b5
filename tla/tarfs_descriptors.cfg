SPECIFICATION Spec
VIEW Known
CONSTANTS
  Archive <- SmallArchive
  MaxScan = 32
  Tasks <- TwoSlots
  TableSize = 6
  MaxOwn <- ShellAndCommand
  Paths <- SomePaths
  Commands <- SomeCommands
  OpenBeyond = TRUE
INVARIANTS
  DescriptorsInTable
