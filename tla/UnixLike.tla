------------------------------- MODULE UnixLike -------------------------------
(***************************************************************************)
(* UnixLike<T> (source.cpp), the provider of files: UnixProvider, whose    *)
(* chunks are MEM_CHUNK bytes read into the heap, and MmapProvider, whose  *)
(* chunks are MMAP_CHUNK bytes mapped, and which maps a file smaller than  *)
(* MMAP_LIMIT at once and closes it.  StringProvider and UniquePtrProvider *)
(* behave like the latter: one entry that is the whole file, and a Pread   *)
(* that is unreachable.                                                    *)
(***************************************************************************)
EXTENDS Source

CONSTANT
  Limit       \* MMAP_LIMIT

ASSUME UnixLikeAssumption == Limit \in Nat /\ Chunk <= Limit

VARIABLE
  io          \* the file is open

vars == <<sourceVars, io>>

\* The chunk the constructor of MmapProvider maps.
ToMap == IF FileSize < Limit THEN FileSize ELSE Chunk

\* Mutant: the file is closed although only its first chunk is mapped.
KeptOpenMutant(n) == FALSE

\* MmapProvider closes a file it mapped whole.
KeptOpen(n) == n # FileSize

\* UnixProvider: nothing is cached.
InitUnix ==
  /\ lru = [i \in Slot |-> Empty]
  /\ mem = [b \in Addr |-> Free]
  /\ io = TRUE

\* The first n bytes of the file are in memory.
InitMemory(n) ==
  \E a \in Addr :
    /\ lru = [i \in Slot |->
                IF i = 0 THEN [ptr |-> a, offset |-> 0, size |-> n] ELSE Empty]
    /\ mem = [b \in Addr |-> IF b = a THEN [from |-> 0, len |-> n] ELSE Free]

\* A UnixProvider, where mapping failed; a MmapProvider; a provider of memory.
Init ==
  /\ \/ InitUnix
     \/ InitMemory(ToMap) /\ io = KeptOpen(ToMap)
     \/ InitMemory(FileSize) /\ io = FALSE
  /\ phase = "idle"
  /\ call = NoCall
  /\ at = 0
  /\ buf = NoBytes
  /\ reply = [ok |-> TRUE, bytes |-> NoBytes]

-------------------------------------------------------------------------------
(* Misses *)

\* ReadChunk, external: a new chunk in memory with what the file has there.
Allocated(m, a, offs) == [m EXCEPT ![a] = [from |-> ChunkOffset(offs), len |-> ChunkSize(offs)]]

\* EnsureChunk on a miss: read the chunk, delete the last one, push the new
\* one; then the loop takes what it has.
LoadChunk ==
  /\ Running /\ ~TooLong
  /\ Missing(at)
  /\ io
  /\ \E a \in Addr :
       /\ mem[a] = Free
       /\ mem' = Allocated(DeletedLast, a, at)
       /\ lru' = LruPush(a, ChunkOffset(at), ChunkSize(at))
  /\ Deliver(Content(mem', lru'[0]), Taken(lru'[0]))
  /\ phase' = IF phase = "source" THEN "provider" ELSE phase
  /\ UNCHANGED <<call, reply, io>>

\* Mutant: the last chunk is deleted before the new one is read.
ThrownMemMutant == DeletedLast
ThrownMem == mem

\* ReadChunk throws.
LoadThrows ==
  /\ Running /\ ~TooLong
  /\ Missing(at)
  /\ Throw
  /\ mem' = ThrownMem
  /\ UNCHANGED <<lru, io>>

\* io.Pread into the caller's buffer, past the cache.
ReadDirect ==
  /\ Running /\ TooLong
  /\ Missing(at)
  /\ io
  /\ LET n == call.upto - at IN Deliver([i \in 0 .. n - 1 |-> at + i], n)
  /\ UNCHANGED <<lru, mem, phase, call, reply, io>>

ReadDirectThrows ==
  /\ Running /\ TooLong
  /\ Missing(at)
  /\ Throw
  /\ UNCHANGED <<lru, mem, io>>

-------------------------------------------------------------------------------
Call(op) ==
  /\ \E from, upto \in 0 .. FileSize : Begin(op, from, upto)
  /\ UNCHANGED io

\* ~UnixProvider, ~MmapProvider: deletes the chunks of the entries in use.
Destroy ==
  /\ phase = "idle"
  /\ phase' = "destroyed"
  /\ mem' = [a \in Addr |-> IF \E i \in Slot : lru[i].size > 0 /\ lru[i].ptr = a
                            THEN Free ELSE mem[a]]
  /\ UNCHANGED <<lru, call, at, buf, reply, io>>

\* What the thread does once a call has begun.
Step ==
  \/ CopyCached /\ UNCHANGED io
  \/ LoadChunk
  \/ LoadThrows
  \/ ReadDirect
  \/ ReadDirectThrows
  \/ Return /\ UNCHANGED io

Next ==
  \/ Call("pread")
  \/ Call("chunk")
  \/ Call("dump")
  \/ Call("cstring")
  \/ Step
  \/ AssertFails /\ UNCHANGED io
  \/ Destroy

Spec == Init /\ [][Next]_vars

\* A call runs until it returns or throws.
FairSpec == Spec /\ WF_vars(Step)

-------------------------------------------------------------------------------
(* Properties *)

\* The most an entry holds: a chunk, or the whole file where it is no longer open.
MaxEntry == IF io \/ FileSize <= Chunk THEN Chunk ELSE FileSize

\* Every entry is a chunk of the file, inside it, with that chunk's bytes, and
\* no two entries cover the same position: the cache never has two copies.  No
\* entry is longer than a chunk while the file is open, so that the cache takes
\* bounded memory, whatever the size of the file.
EntriesAreChunks ==
  phase # "destroyed" =>
    /\ \A i \in Slot : lru[i] # Empty =>
         /\ lru[i].offset + lru[i].size <= FileSize
         /\ lru[i].size <= MaxEntry
         /\ mem[lru[i].ptr].from = lru[i].offset
    /\ \A i, j \in Slot, p \in 0 .. FileSize - 1 :
         Covers(lru[i], p) /\ Covers(lru[j], p) => i = j

\* A closed file is never read: where it is closed, or there is none, the one
\* entry covers every position a call asks for, and Pread of StringProvider and
\* UniquePtrProvider is the unreachable it claims to be.
ReadsOpenFile == Running /\ Missing(at) => io

\* The provider and the Sources on it emulate a read-only file.
File == INSTANCE ReadOnlyFile WITH request <- call
ImplementsReadOnlyFile == File!Spec

\* Every call ends, unless it looks for a zero byte that its slice does not have:
\* each iteration of its loop makes progress or throws.
CallsEnd ==
  phase \in {"source", "provider", "chunks"} /\ ~Unterminated ~> phase = "idle"
===============================================================================
