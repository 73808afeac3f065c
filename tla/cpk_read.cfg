CONSTANTS
  FileSize = 6
  Slots = 2
  Addr = {a1, a2, a3}
  Null = null
  Huge = 15
  Nul <- MCNul
  Chunk = 2
  HeaderFirst = TRUE
SPECIFICATION CpkSpec
CHECK_DEADLOCK FALSE
INVARIANT DeliversFile
