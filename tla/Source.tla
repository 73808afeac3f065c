-------------------------------- MODULE Source --------------------------------
(***************************************************************************)
(* class Source and Source::Provider (source.hpp, source.cpp): reading a   *)
(* file through a cache of a few chunks kept in order of use.  A provider  *)
(* decides what a miss does; this module has what all of them share.  The  *)
(* calls of a Source are loops, and one action here is one iteration, so   *)
(* that an I/O error can end a call anywhere.  Several Sources share a     *)
(* provider, but a program uses them from one thread.                      *)
(*                                                                         *)
(* Positions are absolute: a slice adds its offset to every position and   *)
(* bounds the call by its end, so that a call is its range [from, upto) of *)
(* the file.  The byte at position p of the file is p.                     *)
(***************************************************************************)
EXTENDS Integers

CONSTANTS
  FileSize,   \* Provider::size
  Chunk,      \* MEM_CHUNK, MMAP_CHUNK or CPK_CHUNK
  Slots,      \* lru.size()
  Addr,       \* where chunks can be in memory
  Null,
  Huge,       \* FilePosition(-1)
  Nul         \* the positions that hold a zero byte

ASSUME SourceAssumption ==
  /\ FileSize \in Nat \ {0}
  /\ Chunk \in Nat \ {0}
  /\ Slots \in Nat \ {0}
  /\ Null \notin Addr
  /\ Huge \in Nat /\ FileSize <= Huge
  /\ Nul \subseteq 0 .. FileSize - 1

VARIABLES
  lru,     \* Provider::lru, most recently used first
  mem,     \* what is at each address: len bytes of the file from position from
  phase,   \* where control is: "idle" between calls, "source" in Pread_,
           \* "provider" in Provider::Pread, "chunks" in a loop over GetChunk,
           \* "aborted" where an assertion failed
  call,    \* the call in progress and its bounds
  at,      \* offs of the loop
  buf,     \* what the call has delivered so far
  reply    \* how the last call ended, for ReadOnlyFile

sourceVars == <<lru, mem, phase, call, at, buf, reply>>

Slot == 0 .. Slots - 1
Empty == [ptr |-> Null, offset |-> Huge, size |-> 0]
Free == [from |-> Huge, len |-> 0]
NoCall == [op |-> "none", from |-> 0, upto |-> 0]
NoBytes == [i \in {} |-> 0]

Lower(a, b) == IF a <= b THEN a ELSE b

-------------------------------------------------------------------------------
(* The cache *)

\* Mutant: the entry also covers the position behind its end.
CoversMutant(x, offs) == x.offset <= offs /\ offs <= x.offset + x.size
Covers(x, offs) == x.offset <= offs /\ offs < x.offset + x.size

\* The entry LruGet finds, the first that covers offs; none is a miss.
Found(offs) ==
  {i \in Slot : Covers(lru[i], offs) /\ \A j \in 0 .. i - 1 : ~Covers(lru[j], offs)}
Missing(offs) == Found(offs) = {}

\* LruGet moves the entry it found to the front.
ToFront(i) ==
  [j \in Slot |-> IF j = 0 THEN lru[i] ELSE IF j <= i THEN lru[j - 1] ELSE lru[j]]

\* LruPush drops the last entry.
LruPush(ptr, offset, size) ==
  [j \in Slot |-> IF j = 0 THEN [ptr |-> ptr, offset |-> offset, size |-> size]
                           ELSE lru[j - 1]]

\* The chunk at ptr is deleted: the others stay.
Deleted(ptr) == [a \in Addr |-> IF a = ptr THEN Free ELSE mem[a]]

\* Mutant: the chunk that LruPush drops is not deleted.
DeletedLastMutant == mem
DeletedLast == Deleted(lru[Slots - 1].ptr)

\* Mutant: chunks start where they are asked for.
ChunkOffsetMutant(offs) == offs

\* The chunk of a position, and what the file has of it.
ChunkOffset(offs) == (offs \div Chunk) * Chunk
ChunkSize(offs) == Lower(Chunk, FileSize - ChunkOffset(offs))

-------------------------------------------------------------------------------
(* Calls *)

\* Mutant: the end of the slice is forgotten.
TakenMutant(x) == x.size - (at - x.offset)

\* How many bytes of the entry x the loop takes: to_cpy, or the size of the
\* view GetChunk returns.
Taken(x) == Lower(call.upto - at, x.size - (at - x.offset))

\* The bytes at ptr + (at - offset), which are Huge where the chunk has none.
Content(m, x) ==
  [i \in 0 .. Taken(x) - 1 |->
     LET k == at - x.offset + i IN
     IF x.ptr \in Addr /\ k < m[x.ptr].len THEN m[x.ptr].from + k ELSE Huge]

\* n bytes are added to the buffer, the string or the sink.
Deliver(bytes, n) ==
  /\ buf' = [i \in 0 .. at - call.from + n - 1 |->
               IF i < at - call.from THEN buf[i] ELSE bytes[i - (at - call.from)]]
  /\ at' = at + n

\* The positions in buf of zero bytes.
Zeros == {i \in DOMAIN buf : buf[i] \in Nul}

\* The loop of the call has ended.
Done ==
  /\ phase \in {"source", "provider", "chunks"}
  /\ CASE call.op \in {"pread", "dump"} -> at = call.upto
       [] call.op = "chunk" -> at > call.from
       [] call.op = "cstring" -> Zeros # {}

\* Pread reads more than a chunk directly; Pread_ hands over at the first miss.
TooLong == phase = "source" /\ call.upto - at > Chunk

\* A call is between two iterations of its loop.
Running ==
  /\ phase \in {"source", "provider", "chunks"}
  /\ ~Done
  /\ at < call.upto

\* Pread's check and GetChunk's assertion admit this call.
Begin(op, from, upto) ==
  /\ phase = "idle"
  /\ from <= upto
  /\ op \in {"chunk", "cstring"} => from < upto
  /\ phase' = IF op = "pread" THEN "source" ELSE "chunks"
  /\ call' = [op |-> op, from |-> from, upto |-> upto]
  /\ at' = from
  /\ buf' = NoBytes
  /\ UNCHANGED <<lru, mem, reply>>

\* A hit: the entry moves to the front and the loop takes what it has.
CopyCached ==
  /\ Running
  /\ \E i \in Found(at) :
       /\ lru' = ToFront(i)
       /\ Deliver(Content(mem, lru[i]), Taken(lru[i]))
  /\ UNCHANGED <<mem, phase, call, reply>>

EndCall(r) ==
  /\ phase' = "idle"
  /\ call' = NoCall
  /\ at' = 0
  /\ buf' = NoBytes
  /\ reply' = r

\* What the call returns: PreadCString leaves out the zero byte and what
\* follows it in its chunk.
Result ==
  IF call.op = "cstring"
  THEN [i \in {j \in DOMAIN buf : \A z \in Zeros : j < z} |-> buf[i]]
  ELSE buf

Return ==
  /\ Done
  /\ EndCall([ok |-> TRUE, bytes |-> Result])
  /\ UNCHANGED <<lru, mem>>

\* An exception leaves the call.
Throw == EndCall([ok |-> FALSE, bytes |-> NoBytes])

\* A loop over GetChunk asks for a chunk at the end of its slice or behind it.
AsksBehind == phase = "chunks" /\ ~Done /\ at >= call.upto

\* LIBSHIT_ASSERT(offs < size) in GetChunk stops the program.  (A build without
\* assertions gets an empty view there and asks for it again, for ever.)
AssertFails ==
  /\ AsksBehind
  /\ phase' = "aborted"
  /\ UNCHANGED <<lru, mem, call, at, buf, reply>>

-------------------------------------------------------------------------------
(* Properties of every provider *)

\* The chunks in memory are exactly those the cache refers to, each by one
\* entry: none is lost, deleted twice or used after it was deleted, whichever
\* read failed when; and a destroyed provider leaves none.
CacheOwnsChunks ==
  IF phase = "destroyed" THEN \A a \in Addr : mem[a] = Free
  ELSE /\ \A a \in Addr : mem[a] # Free => \E i \in Slot : lru[i].ptr = a
       /\ \A i \in Slot :
            \/ lru[i] = Empty
            \/ /\ lru[i].ptr \in Addr
               /\ lru[i].size > 0
               /\ mem[lru[i].ptr].len = lru[i].size
               /\ \A j \in Slot : lru[j].ptr = lru[i].ptr => j = i

\* The call is PreadCString of a string that has no zero byte in its slice.  None
\* of its callers looks for one before.
Unterminated ==
  call.op = "cstring" /\ ~\E z \in Nul : call.from <= z /\ z < call.upto

\* LIBSHIT_ASSERT(offs < size) in GetChunk fails for a string without its zero
\* byte and never else: no other loop asks for a chunk behind the end of its
\* slice, wherever the slice and the chunks begin and end.
ChunkInSlice == AsksBehind => Unterminated
===============================================================================
