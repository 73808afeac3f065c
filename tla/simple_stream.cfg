CONSTANTS
  Size = 8
  Chunk = 3
  Byte <- MCByte
  Zero = 0
  Junk = junk
  MaxWrite = 7
  MaxPad = 8
  SafePads = TRUE
SPECIFICATION Spec
CHECK_DEADLOCK FALSE
INVARIANTS TypeOK StreamInFileAndBuffer AcknowledgedInPlace
PROPERTY ImplementsByteStream
