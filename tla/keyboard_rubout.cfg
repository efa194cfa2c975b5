SPECIFICATION Spec
CONSTANTS
  Size <- FiveBytes
  Keys <- AllKeys
  MaxLines <- FiveLines
  RubOutLines = TRUE
  TypeBeyond = FALSE
\* The model ends when the buffer is full.
CHECK_DEADLOCK FALSE
INVARIANTS
  LinesAccounted
