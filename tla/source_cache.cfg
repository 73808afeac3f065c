CONSTANTS
  FileSize = 7
  Slots = 2
  Addr = {a1, a2, a3}
  Null = null
  Huge = 15
  Nul <- MCNul
  Chunk = 2
  Limit = 4
SPECIFICATION FairSpec
CHECK_DEADLOCK FALSE
INVARIANTS CacheOwnsChunks EntriesAreChunks ReadsOpenFile ChunkInSlice
PROPERTIES ImplementsReadOnlyFile CallsEnd
