CONSTANTS
  FileSize = 5
  Slots = 2
  Addr = {a1, a2, a3}
  Null = null
  Huge = 15
  Nul <- MCNul
  Chunk = 2
  HeaderFirst = TRUE
  MaxOpen = 2
  ImportSize = 2
  LooseSize = 1
  Ops = {"pread", "cstring"}
  ReadSizes = {3}
SYMMETRY MCSymmetry
SPECIFICATION HandlerSpec
CHECK_DEADLOCK FALSE
INVARIANTS SlotsInUse VectorBounded ReadsWhatWasOpened InsideChunk
