CONSTANTS
  Size = 8
  Chunk = 3
  Limit = 4
  Byte <- MCByte
  Zero = 0
  MaxWrite = 8
  MaxPad = 8
  SafePads = TRUE
SPECIFICATION Spec
CHECK_DEADLOCK FALSE
INVARIANTS WindowInFile StreamThenZeros AcknowledgedInFile SpillAsserts
PROPERTY ImplementsByteStream
