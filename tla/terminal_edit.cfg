SPECIFICATION TSpec
CONSTANTS
  Size <- FourBytes
  Keys <- Letters
  MaxLines <- FourLines
  RubOutLines = TRUE
  TypeBeyond = TRUE
  maxwidth <- TwoColumns
  maxheight <- TwoHigh
  Outputs <- ShellOutputs
  MaxOutputs = 1
\* The model ends when the buffer is full.
CHECK_DEADLOCK FALSE
INVARIANTS
  TypeOK
  TTypeOK
  ReadBehindTyped
  NoLineHidden
  CursorKept
  
PROPERTIES
  RowsAboveKept
