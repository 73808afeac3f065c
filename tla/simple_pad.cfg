CONSTANTS
  Size = 7
  Chunk = 2
  Byte <- MCByte
  Zero = 0
  Junk = junk
  MaxWrite = 3
  MaxPad = 7
  SafePads = FALSE
SPECIFICATION Spec
CHECK_DEADLOCK FALSE
INVARIANT TellIsAcknowledged
