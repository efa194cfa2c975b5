SPECIFICATION FairSpec
CONSTANTS
  Size <- FiveBytes
  Keys <- AllKeys
  MaxLines <- FiveLines
  RubOutLines = FALSE
  TypeBeyond = FALSE
\* The model ends when the buffer is full.
CHECK_DEADLOCK FALSE
INVARIANTS
  LinesAccounted
PROPERTIES
  ImplementsLineInput
  LineDelivered
