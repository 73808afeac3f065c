---------------------------- MODULE Source_proofs ----------------------------
(***************************************************************************)
(* Proofs about the providers.  First what they share: the types of the    *)
(* cache and of the loops, who owns the chunks, and what a hit and a new   *)
(* chunk do to both.  Then UnixLike, for every file, chunk, cache and      *)
(* limit: it is a read-only file, whatever is cached and whichever reads   *)
(* fail.  Then the provider of a file of the game alone, for every file,   *)
(* chunk size and cache size: the chunks in memory are the cache's, and no *)
(* byte is taken from behind one.  Then the handler's slots, for every     *)
(* number of open files, whatever the import's source does.                *)
(***************************************************************************)
EXTENDS UnixLike, CpkHandler, TLAPS, WellFoundedInduction, FiniteSetTheorems

CacheEntry == [ptr : Addr \union {Null}, offset : Nat, size : Nat]
Calls == [op : {"none", "pread", "chunk", "dump", "cstring"},
          from : 0 .. FileSize, upto : 0 .. FileSize]

CacheType ==
  /\ lru \in [Slot -> CacheEntry]
  /\ mem \in [Addr -> [from : Nat, len : Nat]]

\* A loop stays between the ends of its call.
LoopType ==
  /\ call \in Calls
  /\ at \in Nat /\ call.from <= at /\ at <= call.upto
  /\ phase \in {"idle", "source", "provider", "chunks", "aborted", "destroyed"}

\* Chunks are parts of the file.
ChunksInFile == \A a \in Addr : mem[a] # Free => mem[a].from + mem[a].len <= FileSize

\* The chunks in memory are those of the entries, each of one.
Owned ==
  /\ \A a \in Addr : mem[a] # Free => \E i \in Slot : lru[i].ptr = a
  /\ \A i \in Slot :
       \/ lru[i] = Empty
       \/ /\ lru[i].ptr \in Addr
          /\ lru[i].size > 0
          /\ mem[lru[i].ptr].len = lru[i].size
          /\ \A j \in Slot : lru[j].ptr = lru[i].ptr => j = i

LEMMA SlotNumbers == Slot \subseteq Int /\ Slots \in Nat \ {0} /\ 0 \in Slot /\ Slots - 1 \in Slot
BY SourceAssumption DEF Slot

\* A hit permutes the entries.
LEMMA FrontOrder ==
  ASSUME NEW i \in Slot, lru' = ToFront(i)
  PROVE  \E old, new \in [Slot -> Slot] :
           \A j \in Slot : old[new[j]] = j /\ new[old[j]] = j /\ lru'[j] = lru[old[j]]
<1> DEFINE old == [j \in Slot |-> IF j = 0 THEN i ELSE IF j <= i THEN j - 1 ELSE j]
           new == [j \in Slot |-> IF j = i THEN 0 ELSE IF j < i THEN j + 1 ELSE j]
<1>1. old \in [Slot -> Slot] /\ new \in [Slot -> Slot]
  BY SlotNumbers DEF Slot
<1>2. \A j \in Slot : lru'[j] = lru[old[j]]
  BY DEF ToFront
<1>3. \A j \in Slot : old[new[j]] = j /\ new[old[j]] = j
  <2>1. \A j \in Slot : new[j] \in Slot /\ old[j] \in Slot
    BY <1>1
  <2>2. \A j \in Slot :
          /\ old[j] = IF j = 0 THEN i ELSE IF j <= i THEN j - 1 ELSE j
          /\ new[j] = IF j = i THEN 0 ELSE IF j < i THEN j + 1 ELSE j
    OBVIOUS
  <2> HIDE DEF old, new
  <2>3. QED
    BY <2>1, <2>2, SlotNumbers DEF Slot
<1> HIDE DEF old, new
<1>4. QED
  BY <1>1, <1>2, <1>3

\* A hit changes the order of the entries, and of nothing who owns what.
LEMMA HitKeepsCache ==
  ASSUME CacheType, Owned, ChunksInFile, NEW i \in Slot, lru' = ToFront(i), mem' = mem
  PROVE  CacheType' /\ Owned' /\ ChunksInFile'
<1>1. PICK old \in [Slot -> Slot], new \in [Slot -> Slot] :
        \A j \in Slot : old[new[j]] = j /\ new[old[j]] = j /\ lru'[j] = lru[old[j]]
  BY FrontOrder
<1>2. \A j \in Slot : lru'[new[j]] = lru[j] /\ new[j] \in Slot /\ old[j] \in Slot
  BY <1>1
<1>3. Owned'
  <2>1. \A a \in Addr : mem[a] # Free => \E j \in Slot : lru'[j].ptr = a
    BY <1>2 DEF Owned
  <2>2. ASSUME NEW j \in Slot, lru'[j] # Empty
        PROVE  /\ lru'[j].ptr \in Addr /\ lru'[j].size > 0
               /\ mem[lru'[j].ptr].len = lru'[j].size
               /\ \A l \in Slot : lru'[l].ptr = lru'[j].ptr => l = j
    <3>1. lru[old[j]] # Empty /\ old[j] \in Slot
      BY <1>1, <1>2, <2>2
    <3>2. \A l \in Slot : lru[old[l]].ptr = lru[old[j]].ptr => old[l] = old[j]
      BY <1>2, <3>1 DEF Owned
    <3>3. \A l \in Slot : lru'[l].ptr = lru'[j].ptr => l = j
      BY <1>1, <1>2, <3>2
    <3>4. QED
      BY <1>1, <3>1, <3>3 DEF Owned
  <2>3. QED
    BY <2>1, <2>2 DEF Owned
<1>4. lru' \in [Slot -> CacheEntry]
  <2>1. lru' = [j \in Slot |-> lru'[j]]
    BY DEF ToFront
  <2>2. \A j \in Slot : lru'[j] \in CacheEntry
    BY <1>1, <1>2 DEF CacheType
  <2>3. QED
    BY <2>1, <2>2
<1>5. QED
  BY <1>3, <1>4 DEF CacheType, ChunksInFile

\* A new chunk is pushed, and the one LruPush drops is deleted: the other entries
\* keep their chunks, and none is left without an entry.
LEMMA PushKeepsCache ==
  ASSUME CacheType, Owned, ChunksInFile, NEW a \in Addr, mem[a] = Free,
         NEW o \in Nat, NEW offs \in Nat, NEW n \in Nat \ {0}, o + n <= FileSize,
         mem' = [Deleted(lru[Slots - 1].ptr) EXCEPT ![a] = [from |-> o, len |-> n]],
         lru' = LruPush(a, offs, n)
  PROVE  /\ CacheType' /\ Owned' /\ ChunksInFile'
         /\ lru'[0] = [ptr |-> a, offset |-> offs, size |-> n]
         /\ mem'[a] = [from |-> o, len |-> n]
         /\ \A j \in Slot : j # 0 => /\ j - 1 \in Slot /\ lru'[j] = lru[j - 1]
                                     /\ lru'[j] # Empty => mem'[lru'[j].ptr] = mem[lru'[j].ptr]
<1> DEFINE last == lru[Slots - 1].ptr
<1>1. /\ mem' \in [Addr -> [from : Nat, len : Nat]]
      /\ mem'[a] = [from |-> o, len |-> n]
      /\ \A b \in Addr \ {a} : mem'[b] = IF b = last THEN Free ELSE mem[b]
  <2>1. Deleted(last) \in [Addr -> [from : Nat, len : Nat]]
    BY SourceAssumption DEF Deleted, CacheType, Free
  <2>2. \A b \in Addr : Deleted(last)[b] = IF b = last THEN Free ELSE mem[b]
    BY DEF Deleted
  <2>3. [from |-> o, len |-> n] \in [from : Nat, len : Nat]
    OBVIOUS
  <2>4. QED
    BY <2>1, <2>2, <2>3
<1>2. /\ lru' \in [Slot -> CacheEntry]
      /\ lru'[0] = [ptr |-> a, offset |-> offs, size |-> n]
      /\ \A j \in Slot : j # 0 => j - 1 \in Slot /\ j - 1 # Slots - 1 /\ lru'[j] = lru[j - 1]
  <2>1. lru' = [j \in Slot |-> IF j = 0 THEN [ptr |-> a, offset |-> offs, size |-> n]
                                       ELSE lru[j - 1]]
    BY DEF LruPush
  <2>2. \A j \in Slot : j # 0 => j - 1 \in Slot /\ j - 1 # Slots - 1
    BY SlotNumbers DEF Slot
  <2>3. [ptr |-> a, offset |-> offs, size |-> n] \in CacheEntry
    BY DEF CacheEntry
  <2>4. QED
    BY <2>1, <2>2, <2>3, SlotNumbers DEF CacheType
<1>3. \A j \in Slot : lru[j] # Empty => lru[j].ptr # a
  BY SourceAssumption DEF Owned, Free
<1>4. \A j \in Slot : j # Slots - 1 /\ lru[j] # Empty => lru[j].ptr # last
  BY SlotNumbers DEF Owned
<1> HIDE DEF last
<1>5. ASSUME NEW j \in Slot, j # 0, lru'[j] # Empty
      PROVE  /\ lru[j - 1].ptr \in Addr /\ lru[j - 1].size > 0
             /\ mem[lru[j - 1].ptr].len = lru[j - 1].size
             /\ \A l \in Slot : lru[l].ptr = lru[j - 1].ptr => l = j - 1
             /\ lru[j - 1].ptr # last /\ lru[j - 1].ptr # a
             /\ mem'[lru[j - 1].ptr] = mem[lru[j - 1].ptr]
  <2>1. lru'[j] = lru[j - 1] /\ j - 1 \in Slot /\ j - 1 # Slots - 1
    BY <1>2, <1>5
  <2>2. lru[j - 1] # Empty
    BY <1>5, <2>1
  <2>3. lru[j - 1].ptr \in Addr /\ lru[j - 1].ptr # last /\ lru[j - 1].ptr # a
    BY <1>3, <1>4, <2>1, <2>2 DEF Owned
  <2>4. QED
    BY <1>1, <2>1, <2>2, <2>3 DEF Owned
<1>6. Owned'
  <2>1. ASSUME NEW b \in Addr, mem'[b] # Free
        PROVE  \E j \in Slot : lru'[j].ptr = b
    <3>1. CASE b = a
      BY <1>2, <3>1, SlotNumbers
    <3>2. CASE b # a
      <4>1. b # last /\ mem[b] # Free
        BY <1>1, <2>1, <3>2
      <4>2. PICK j \in Slot : lru[j].ptr = b
        BY <4>1 DEF Owned
      <4>3. j # Slots - 1
        BY <4>1, <4>2 DEF last
      <4>4. PICK k \in Slot : k # 0 /\ k - 1 = j
        <5> DEFINE n1 == j + 1
        <5>1. n1 \in Slot /\ n1 # 0 /\ n1 - 1 = j
          BY SlotNumbers, <4>3 DEF Slot
        <5> HIDE DEF n1
        <5>2. QED
          BY <5>1
      <4>5. lru'[k] = lru[j]
        BY <1>2, <4>4
      <4>6. QED
        BY <4>2, <4>4, <4>5
    <3>3. QED
      BY <3>1, <3>2
  <2>2. ASSUME NEW j \in Slot, lru'[j] # Empty
        PROVE  /\ lru'[j].ptr \in Addr /\ lru'[j].size > 0
               /\ mem'[lru'[j].ptr].len = lru'[j].size
               /\ \A l \in Slot : lru'[l].ptr = lru'[j].ptr => l = j
    <3>1. ASSUME NEW l \in Slot, l # 0
          PROVE  lru'[l].ptr # a
      <4>1. lru'[l] = lru[l - 1] /\ l - 1 \in Slot
        BY <1>2, <3>1
      <4>2. CASE lru[l - 1] = Empty
        BY <4>1, <4>2, SourceAssumption DEF Empty
      <4>3. QED
        BY <1>3, <4>1, <4>2
    <3>2. CASE j = 0
      BY <1>1, <1>2, <3>1, <3>2
    <3>3. CASE j # 0
      <4>1. lru'[j] = lru[j - 1]
        BY <1>2, <3>3
      <4>2. ASSUME NEW l \in Slot, lru'[l].ptr = lru'[j].ptr PROVE l = j
        <5>1. l # 0
          BY <1>2, <1>5, <2>2, <3>3, <4>1, <4>2
        <5>2. lru'[l] = lru[l - 1] /\ l - 1 \in Slot
          BY <1>2, <5>1
        <5>3. l - 1 = j - 1
          BY <1>5, <2>2, <3>3, <4>1, <4>2, <5>2
        <5>4. QED
          BY SlotNumbers, <5>3
      <4>3. QED
        BY <1>5, <2>2, <3>3, <4>1, <4>2
    <3>4. QED
      BY <3>2, <3>3
  <2>3. QED
    BY <2>1, <2>2 DEF Owned
<1>7. ChunksInFile'
  <2>1. \A b \in Addr : mem'[b] # Free => mem'[b].from + mem'[b].len <= FileSize
    BY <1>1 DEF ChunksInFile
  <2>2. QED
    BY <2>1 DEF ChunksInFile
<1>8. CacheType'
  BY <1>1, <1>2 DEF CacheType
<1>9. \A j \in Slot : j # 0 => /\ j - 1 \in Slot /\ lru'[j] = lru[j - 1]
                               /\ lru'[j] # Empty => mem'[lru'[j].ptr] = mem[lru'[j].ptr]
  BY <1>2, <1>5
<1>10. QED
  BY <1>1, <1>2, <1>6, <1>7, <1>8, <1>9

\* The first chunk of an empty memory.
LEMMA FirstChunk ==
  ASSUME NEW a \in Addr, NEW n \in Nat \ {0}, n <= FileSize,
         lru = [i \in Slot |-> IF i = 0 THEN [ptr |-> a, offset |-> 0, size |-> n] ELSE Empty],
         mem = [b \in Addr |-> IF b = a THEN [from |-> 0, len |-> n] ELSE Free]
  PROVE  CacheType /\ Owned /\ ChunksInFile
<1>1. CacheType
  BY SourceAssumption DEF CacheType, CacheEntry, Empty, Free
<1>2. ChunksInFile
  BY SourceAssumption DEF ChunksInFile
<1>3. Owned
  BY SlotNumbers, SourceAssumption DEF Owned, Empty
<1>4. QED
  BY <1>1, <1>2, <1>3

LEMMA NoChunks ==
  ASSUME lru = [i \in Slot |-> Empty], mem = [b \in Addr |-> Free]
  PROVE  CacheType /\ Owned /\ ChunksInFile
BY SourceAssumption DEF CacheType, CacheEntry, Empty, Free, Owned, ChunksInFile

\* A call begins with nothing delivered, and ends likewise.
LEMMA BeginType ==
  ASSUME NEW op \in {"pread", "chunk", "dump", "cstring"},
         NEW from \in 0 .. FileSize, NEW upto \in 0 .. FileSize, Begin(op, from, upto)
  PROVE  /\ LoopType' /\ phase' \in {"source", "chunks"}
         /\ buf' = [i \in 0 .. at' - call'.from - 1 |-> call'.from + i]
<1>1. LoopType' /\ phase' \in {"source", "chunks"}
  BY SourceAssumption DEF Begin, LoopType, Calls
<1>2. buf' = NoBytes /\ at' = from /\ call'.from = from
  BY DEF Begin
<1>3. 0 .. from - from - 1 = {}
  BY SourceAssumption
<1>4. QED
  BY <1>1, <1>2, <1>3 DEF NoBytes

LEMMA EndType ==
  ASSUME NEW r, EndCall(r)
  PROVE  /\ LoopType' /\ phase' = "idle"
         /\ buf' = [i \in 0 .. at' - call'.from - 1 |-> call'.from + i]
BY SourceAssumption DEF EndCall, LoopType, Calls, NoCall, NoBytes

-------------------------------------------------------------------------------
(* UnixLike *)

\* The loop a call is in, and that it was admitted.
CallType ==
  /\ phase \in {"idle", "destroyed"} => call = NoCall
  /\ phase \in {"source", "provider"} => call.op = "pread"
  /\ phase = "chunks" => /\ call.op \in {"chunk", "dump", "cstring"}
                         /\ call.op \in {"chunk", "cstring"} => call.from < call.upto
  /\ phase = "aborted" => call.op # "none"

\* What a call has delivered is what the file has there.
SoFar == buf = [i \in 0 .. at - call.from - 1 |-> call.from + i]

\* An entry is where its chunk is from.
InPlace == \A i \in Slot : lru[i] # Empty => mem[lru[i].ptr].from = lru[i].offset

IsChunk(x) ==
  /\ \E q \in Nat : x.offset = q * Chunk
  /\ x.offset < FileSize
  /\ x.size = Lower(Chunk, FileSize - x.offset)

\* An open file is cached in aligned chunks, none twice; one that is closed is
\* cached as a whole.
Cached ==
  IF io THEN /\ \A i \in Slot : lru[i] # Empty => IsChunk(lru[i])
             /\ \A i, j \in Slot : lru[i] # Empty /\ lru[j] # Empty
                                   /\ lru[i].offset = lru[j].offset => i = j
        ELSE \E i \in Slot : /\ lru[i] # Empty /\ lru[i].offset = 0 /\ lru[i].size = FileSize
                             /\ \A j \in Slot : j # i => lru[j] = Empty

CacheInv == CacheType /\ Owned /\ ChunksInFile /\ InPlace /\ Cached

\* The inductive invariant.
FileInv ==
  /\ LoopType /\ CallType /\ SoFar /\ io \in BOOLEAN
  /\ IF phase = "destroyed" THEN \A a \in Addr : mem[a] = Free ELSE CacheInv

-------------------------------------------------------------------------------
(* Chunks *)

\* A set of natural numbers has a least one.
LEMMA Least ==
  ASSUME NEW S, S \subseteq Nat, S # {}
  PROVE  \E m \in S : \A k \in S : m <= k
<1> DEFINE R == OpToRel(<, Nat)
<1>1. R = {p \in Nat \X Nat : p[1] < p[2]}
  BY DEF OpToRel
<1>2. IsWellFoundedOn(R, Nat)
  BY NatLessThanWellFounded
<1> HIDE DEF R
<1>3. PICK m \in S : \A k \in S : <<k, m>> \notin R
  BY <1>2, WFMin
<1>4. \A k \in S : ~(k < m)
  BY <1>1, <1>3
<1>5. QED
  BY <1>4

\* A position is in one multiple of the chunk size only.
LEMMA SameMultiple ==
  ASSUME NEW c \in Nat \ {0}, NEW q \in Nat, NEW r \in Nat, NEW p \in Nat,
         q * c <= p, p < q * c + c, r * c <= p, p < r * c + c
  PROVE  q = r
<1>1. q * c \in Nat /\ r * c \in Nat
  OBVIOUS
<1>2. ~(q >= r + 1)
  <2> SUFFICES ASSUME q >= r + 1 PROVE FALSE
    OBVIOUS
  <2>1. q * c >= (r + 1) * c /\ (r + 1) * c = r * c + c
    BY SMT
  <2>2. QED
    BY <1>1, <2>1
<1>3. ~(r >= q + 1)
  <2> SUFFICES ASSUME r >= q + 1 PROVE FALSE
    OBVIOUS
  <2>1. r * c >= (q + 1) * c /\ (q + 1) * c = q * c + c
    BY SMT
  <2>2. QED
    BY <1>1, <2>1
<1>4. QED
  BY <1>2, <1>3

\* The chunk of a position before the end of the file.
LEMMA ChunkOf ==
  ASSUME NEW p \in Nat, p < FileSize
  PROVE  /\ ChunkOffset(p) \in Nat /\ ChunkOffset(p) <= p
         /\ ChunkSize(p) \in Nat \ {0} /\ p < ChunkOffset(p) + ChunkSize(p)
         /\ ChunkOffset(p) + ChunkSize(p) <= FileSize
         /\ p < ChunkOffset(p) + Chunk
         /\ \E q \in Nat : ChunkOffset(p) = q * Chunk
<1> DEFINE q == p \div Chunk
           r == p % Chunk
           o == q * Chunk
<1>1. q \in Nat /\ r \in Nat /\ r < Chunk /\ p = o + r /\ o \in Nat
  BY UnixLikeAssumption, SourceAssumption, SMT
<1>2. FileSize \in Nat /\ Chunk \in Nat
  BY UnixLikeAssumption, SourceAssumption
<1>3. ChunkOffset(p) = o
  BY DEF ChunkOffset
<1>4. \E k \in Nat : ChunkOffset(p) = k * Chunk
  BY <1>1, <1>3
<1> HIDE DEF q, r, o
<1>5. ChunkSize(p) = IF Chunk <= FileSize - o THEN Chunk ELSE FileSize - o
  BY <1>3 DEF ChunkSize, Lower
<1>6. /\ ChunkOffset(p) \in Nat /\ ChunkOffset(p) <= p /\ p < ChunkOffset(p) + Chunk
  BY <1>1, <1>2, <1>3
<1>7. /\ ChunkSize(p) \in Nat \ {0} /\ p < o + ChunkSize(p) /\ o + ChunkSize(p) <= FileSize
  BY <1>1, <1>2, <1>5
<1>8. QED
  BY <1>3, <1>4, <1>6, <1>7

\* A chunk that covers a position is the chunk of the position.
LEMMA OneChunk ==
  ASSUME NEW x \in CacheEntry, IsChunk(x), NEW p \in Nat, p < FileSize, Covers(x, p)
  PROVE  x.offset = ChunkOffset(p)
<1>1. PICK q \in Nat : x.offset = q * Chunk
  BY DEF IsChunk
<1>2. PICK r \in Nat : ChunkOffset(p) = r * Chunk
  BY ChunkOf
<1>3. /\ x.offset \in Nat /\ x.offset <= p /\ p < x.offset + x.size /\ x.size <= Chunk
      /\ x.size \in Nat /\ Chunk \in Nat \ {0}
  BY SourceAssumption, UnixLikeAssumption DEF IsChunk, Covers, Lower, CacheEntry
<1>4. p < x.offset + Chunk
  BY <1>3
<1>5. ChunkOffset(p) <= p /\ p < ChunkOffset(p) + Chunk
  BY ChunkOf
<1>6. q = r
  BY <1>1, <1>2, <1>3, <1>4, <1>5, SameMultiple
<1>7. QED
  BY <1>1, <1>2, <1>6

\* A miss: no entry at all covers the position.
LEMMA NoneCovers ==
  ASSUME NEW p, Missing(p)
  PROVE  \A i \in Slot : ~Covers(lru[i], p)
<1> SUFFICES ASSUME NEW i \in Slot, Covers(lru[i], p) PROVE FALSE
  OBVIOUS
<1> DEFINE S == {j \in Slot : Covers(lru[j], p)}
<1>1. S \subseteq Nat /\ i \in S
  BY SourceAssumption DEF Slot
<1>2. PICK m \in S : \A k \in S : m <= k
  <2> HIDE DEF S
  <2>1. QED
    BY <1>1, Least
<1>3. \A j \in 0 .. m - 1 : j \in Slot /\ ~(m <= j)
  BY SlotNumbers DEF Slot
<1>4. m \in Found(p)
  BY <1>2, <1>3 DEF Found
<1>5. QED
  BY <1>4 DEF Missing

\* The entry a hit finds has its chunk.
LEMMA HitEntry ==
  ASSUME CacheInv, LoopType, at < FileSize, NEW i \in Slot, Covers(lru[i], at)
  PROVE  /\ lru[i] # Empty /\ lru[i] \in CacheEntry
         /\ lru[i].ptr \in Addr /\ lru[i].size > 0
         /\ mem[lru[i].ptr] = [from |-> lru[i].offset, len |-> lru[i].size]
         /\ lru[i].offset + lru[i].size <= FileSize
<1>1. lru[i] # Empty /\ lru[i] \in CacheEntry
  BY SourceAssumption DEF Covers, Empty, CacheInv, CacheType, LoopType
<1>2. /\ lru[i].ptr \in Addr /\ lru[i].size > 0 /\ mem[lru[i].ptr].len = lru[i].size
      /\ mem[lru[i].ptr].from = lru[i].offset
  BY <1>1 DEF CacheInv, Owned, InPlace
<1>3. mem[lru[i].ptr] \in [from : Nat, len : Nat]
  BY <1>2 DEF CacheInv, CacheType
<1>4. mem[lru[i].ptr] # Free
  BY <1>2, SourceAssumption DEF Free
<1>5. QED
  BY <1>1, <1>2, <1>3, <1>4 DEF CacheInv, ChunksInFile

-------------------------------------------------------------------------------
(* What a loop delivers *)

\* The bytes of a chunk in its place are the file's.
LEMMA FromChunk ==
  ASSUME LoopType, Running, NEW m, NEW x \in CacheEntry, x.ptr \in Addr,
         m[x.ptr] = [from |-> x.offset, len |-> x.size], Covers(x, at)
  PROVE  /\ Taken(x) \in Nat \ {0} /\ at + Taken(x) <= call.upto
         /\ Content(m, x) = [i \in 0 .. Taken(x) - 1 |-> at + i]
<1> DEFINE d == at - x.offset
           n == Taken(x)
<1>1. /\ at \in Nat /\ call.upto \in Nat /\ at < call.upto
      /\ x.offset \in Nat /\ x.size \in Nat
  BY SourceAssumption DEF LoopType, Calls, CacheEntry, Running
<1>2. d \in Nat /\ d < x.size /\ x.offset + d = at
  BY <1>1 DEF Covers
<1>3. n = IF call.upto - at <= x.size - d THEN call.upto - at ELSE x.size - d
  BY DEF Taken, Lower
<1>4. Content(m, x) = [i \in 0 .. n - 1 |-> IF d + i < x.size THEN x.offset + (d + i) ELSE Huge]
  BY DEF Content
<1> HIDE DEF d, n
<1>5. n \in Nat \ {0} /\ at + n <= call.upto /\ d + n <= x.size
  BY <1>1, <1>2, <1>3
<1>6. \A i \in 0 .. n - 1 : d + i < x.size /\ x.offset + (d + i) = at + i
  BY <1>1, <1>2, <1>5
<1>7. Content(m, x) = [i \in 0 .. n - 1 |-> at + i]
  BY <1>4, <1>6
<1>8. QED
  BY <1>5, <1>7 DEF n

\* Bytes of the file from the position on are the next ones of the answer.
LEMMA MoreDelivered ==
  ASSUME LoopType, SoFar, NEW n \in Nat, at + n <= call.upto, NEW bytes,
         bytes = [i \in 0 .. n - 1 |-> at + i],
         Deliver(bytes, n), call' = call, phase' \in {"source", "provider", "chunks"}
  PROVE  LoopType' /\ SoFar' /\ at' = at + n
<1>1. call.from \in Nat /\ call.upto \in Nat /\ at \in Nat /\ call.from <= at
  BY SourceAssumption DEF LoopType, Calls
<1> DEFINE k == at - call.from
<1>2. k \in Nat /\ call.from + k = at
  BY <1>1
<1>3. at' = at + n /\ at' - call'.from = k + n
  BY <1>1 DEF Deliver
<1>4. buf' = [i \in 0 .. k + n - 1 |-> IF i < k THEN buf[i] ELSE bytes[i - k]]
  BY DEF Deliver
<1>5. buf = [i \in 0 .. k - 1 |-> call.from + i]
  BY DEF SoFar
<1> HIDE DEF k
<1>6. \A i \in 0 .. k + n - 1 : (IF i < k THEN buf[i] ELSE bytes[i - k]) = call.from + i
  <2> SUFFICES ASSUME NEW i \in 0 .. k + n - 1
               PROVE  (IF i < k THEN buf[i] ELSE bytes[i - k]) = call.from + i
    OBVIOUS
  <2>1. CASE i < k
    BY <1>2, <1>5, <2>1
  <2>2. CASE ~(i < k)
    <3>1. i - k \in 0 .. n - 1 /\ at + (i - k) = call.from + i
      BY <1>1, <1>2, <2>2
    <3>2. QED
      BY <2>2, <3>1
  <2>3. QED
    BY <2>1, <2>2
<1>7. buf' = [i \in 0 .. k + n - 1 |-> call.from + i]
  BY <1>4, <1>6
<1>8. SoFar'
  <2>1. at' - call'.from - 1 = k + n - 1
    <3>1. at' \in Nat /\ call'.from \in Nat
      BY <1>1, <1>3
    <3>2. QED
      BY <1>2, <1>3, <3>1
  <2>2. call'.from = call.from
    OBVIOUS
  <2>3. QED
    BY <1>7, <2>1, <2>2 DEF SoFar
<1>9. LoopType'
  BY <1>1, <1>3 DEF LoopType
<1>10. QED
  BY <1>3, <1>8, <1>9

-------------------------------------------------------------------------------
(* The steps *)

\* A hit: the entry moves to the front and the loop takes what it has.
LEMMA HitStep ==
  ASSUME FileInv, CopyCached, io' = io
  PROVE  FileInv' /\ at' > at
<1>1. PICK i \in Found(at) :
        lru' = ToFront(i) /\ Deliver(Content(mem, lru[i]), Taken(lru[i]))
  BY DEF CopyCached
<1>2. /\ Running /\ UNCHANGED <<mem, phase, call>> /\ i \in Slot /\ Covers(lru[i], at)
      /\ phase \in {"source", "provider", "chunks"} /\ LoopType /\ CallType /\ SoFar
      /\ CacheInv /\ io \in BOOLEAN
  BY <1>1 DEF CopyCached, Found, Running, FileInv
<1>3. at < FileSize /\ at \in Nat
  BY <1>2, SourceAssumption DEF Running, LoopType, Calls
<1>4. /\ lru[i] \in CacheEntry /\ lru[i].ptr \in Addr
      /\ mem[lru[i].ptr] = [from |-> lru[i].offset, len |-> lru[i].size]
  BY <1>2, <1>3, HitEntry
<1>5. /\ Taken(lru[i]) \in Nat \ {0} /\ at + Taken(lru[i]) <= call.upto
      /\ Content(mem, lru[i]) = [j \in 0 .. Taken(lru[i]) - 1 |-> at + j]
  BY <1>2, <1>4, FromChunk
<1>6. LoopType' /\ SoFar' /\ at' > at
  <2> DEFINE n == Taken(lru[i])
             bytes == Content(mem, lru[i])
  <2>1. n \in Nat \ {0} /\ at + n <= call.upto /\ bytes = [j \in 0 .. n - 1 |-> at + j]
        /\ Deliver(bytes, n)
    BY <1>1, <1>5
  <2> HIDE DEF n, bytes
  <2>2. LoopType' /\ SoFar' /\ at' = at + n
    BY <1>2, <2>1, MoreDelivered
  <2>3. QED
    BY <1>3, <2>1, <2>2
<1>7. CacheType' /\ Owned' /\ ChunksInFile'
  BY <1>1, <1>2, HitKeepsCache DEF CacheInv
<1>8. PICK old \in [Slot -> Slot], new \in [Slot -> Slot] :
        \A j \in Slot : old[new[j]] = j /\ new[old[j]] = j /\ lru'[j] = lru[old[j]]
  BY <1>1, <1>2, FrontOrder
<1>9. \A j \in Slot : old[j] \in Slot /\ new[j] \in Slot /\ lru'[new[j]] = lru[j]
  BY <1>8
<1>10. InPlace'
  BY <1>2, <1>8, <1>9 DEF CacheInv, InPlace
<1>11. Cached'
  <2>1. CASE io
    <3>1. \A j \in Slot : lru'[j] # Empty => IsChunk(lru'[j])
      BY <1>2, <1>8, <1>9, <2>1 DEF CacheInv, Cached
    <3>2. ASSUME NEW j \in Slot, NEW k \in Slot, lru'[j] # Empty, lru'[k] # Empty,
                 lru'[j].offset = lru'[k].offset
          PROVE  j = k
      <4>1. old[j] = old[k]
        BY <1>2, <1>8, <1>9, <2>1, <3>2 DEF CacheInv, Cached
      <4>2. QED
        BY <1>8, <4>1
    <3>3. QED
      BY <2>1, <3>1, <3>2 DEF Cached, IsChunk
  <2>2. CASE ~io
    <3>1. PICK k \in Slot : /\ lru[k] # Empty /\ lru[k].offset = 0 /\ lru[k].size = FileSize
                            /\ \A j \in Slot : j # k => lru[j] = Empty
      BY <1>2, <2>2 DEF CacheInv, Cached
    <3>2. \A j \in Slot : j # new[k] => lru'[j] = Empty
      BY <1>8, <1>9, <3>1
    <3>3. lru'[new[k]] = lru[k] /\ new[k] \in Slot
      BY <1>9
    <3>4. QED
      BY <2>2, <3>1, <3>2, <3>3 DEF Cached
  <2>3. QED
    BY <2>1, <2>2
<1>12. CallType'
  BY <1>2 DEF CallType
<1>13. QED
  BY <1>2, <1>6, <1>7, <1>10, <1>11, <1>12 DEF FileInv, CacheInv

\* A miss on an open file: the chunk is not in the cache yet, so that no other
\* entry has its offset.
LEMMA LoadStep ==
  ASSUME FileInv, LoadChunk
  PROVE  FileInv' /\ at' > at
<1> DEFINE o == ChunkOffset(at)
           n == ChunkSize(at)
<1>1. PICK a \in Addr : /\ mem[a] = Free
                        /\ mem' = [Deleted(lru[Slots - 1].ptr) EXCEPT
                                     ![a] = [from |-> o, len |-> n]]
                        /\ lru' = LruPush(a, o, n)
  BY DEF LoadChunk, Allocated, DeletedLast
<1>2. /\ Running /\ Missing(at) /\ io = TRUE /\ io' = io /\ call' = call
      /\ phase \in {"source", "provider", "chunks"}
      /\ phase' = IF phase = "source" THEN "provider" ELSE phase
      /\ LoopType /\ CallType /\ SoFar /\ CacheInv
      /\ Deliver(Content(mem', lru'[0]), Taken(lru'[0]))
  BY DEF LoadChunk, Running, FileInv
<1>3. at < FileSize /\ at \in Nat
  BY <1>2, SourceAssumption DEF Running, LoopType, Calls
<1>4. /\ o \in Nat /\ o <= at /\ n \in Nat \ {0} /\ at < o + n /\ o + n <= FileSize
      /\ at < o + Chunk /\ \E q \in Nat : o = q * Chunk
  BY <1>3, ChunkOf
<1>5. n = Lower(Chunk, FileSize - o)
  BY DEF ChunkSize
<1> HIDE DEF o, n
<1>6. /\ CacheType' /\ Owned' /\ ChunksInFile'
      /\ lru'[0] = [ptr |-> a, offset |-> o, size |-> n]
      /\ mem'[a] = [from |-> o, len |-> n]
      /\ \A j \in Slot : j # 0 => /\ j - 1 \in Slot /\ lru'[j] = lru[j - 1]
                                  /\ lru'[j] # Empty => mem'[lru'[j].ptr] = mem[lru'[j].ptr]
  <2>1. CacheType /\ Owned /\ ChunksInFile
    BY <1>2 DEF CacheInv
  <2>2. QED
    BY <1>1, <1>4, <2>1, PushKeepsCache
<1>7. InPlace'
  BY <1>2, <1>6 DEF CacheInv, InPlace
<1>8. Cached'
  <2>1. \A j \in Slot : lru[j] # Empty => IsChunk(lru[j])
    BY <1>2 DEF CacheInv, Cached
  <2>2. \A j, k \in Slot : lru[j] # Empty /\ lru[k] # Empty /\ lru[j].offset = lru[k].offset
                          => j = k
    BY <1>2 DEF CacheInv, Cached
  <2>3. \A j \in Slot : lru[j] # Empty => lru[j].offset # o
    <3> SUFFICES ASSUME NEW j \in Slot, lru[j] # Empty, lru[j].offset = o PROVE FALSE
      OBVIOUS
    <3>1. lru[j].size = n
      BY <1>5, <2>1 DEF IsChunk
    <3>2. Covers(lru[j], at)
      BY <1>4, <3>1 DEF Covers
    <3>3. QED
      BY <1>2, <3>2, NoneCovers
  <2>4. o < FileSize
    BY <1>3, <1>4, SourceAssumption
  <2>5. \A j \in Slot : lru'[j] # Empty => IsChunk(lru'[j])
    BY <1>4, <1>5, <1>6, <2>1, <2>4 DEF IsChunk
  <2>6. ASSUME NEW j \in Slot, NEW k \in Slot, lru'[j] # Empty, lru'[k] # Empty,
               lru'[j].offset = lru'[k].offset
        PROVE  j = k
    <3>1. CASE j = 0 \/ k = 0
      BY <1>6, <2>3, <2>6, <3>1
    <3>2. CASE j # 0 /\ k # 0
      <4>1. j - 1 = k - 1
        BY <1>6, <2>2, <2>6, <3>2
      <4>2. QED
        BY <4>1, SlotNumbers
    <3>3. QED
      BY <3>1, <3>2
  <2>7. QED
    BY <1>2, <2>5, <2>6 DEF Cached, IsChunk
<1>9. LoopType' /\ SoFar' /\ at' > at
  <2> DEFINE x == lru'[0]
             m == mem'
             k == Taken(x)
             bytes == Content(m, x)
  <2>1. /\ x \in CacheEntry /\ x.ptr \in Addr
        /\ m[x.ptr] = [from |-> x.offset, len |-> x.size] /\ Covers(x, at)
    BY <1>4, <1>6 DEF CacheEntry, Covers
  <2>2. Deliver(bytes, k)
    BY <1>2
  <2> HIDE DEF x, m
  <2>3. k \in Nat \ {0} /\ at + k <= call.upto /\ bytes = [i \in 0 .. k - 1 |-> at + i]
    BY <1>2, <2>1, FromChunk
  <2>4. phase' \in {"source", "provider", "chunks"}
    BY <1>2
  <2> HIDE DEF k, bytes
  <2>5. LoopType' /\ SoFar' /\ at' = at + k
    BY <1>2, <2>2, <2>3, <2>4, MoreDelivered
  <2>6. QED
    BY <1>3, <2>3, <2>5
<1>10. CallType' /\ phase' # "destroyed" /\ io' \in BOOLEAN
  BY <1>2 DEF CallType
<1>11. QED
  BY <1>6, <1>7, <1>8, <1>9, <1>10 DEF FileInv, CacheInv

\* A read past the cache.
LEMMA DirectStep ==
  ASSUME FileInv, ReadDirect
  PROVE  FileInv' /\ at' > at
<1> DEFINE n == call.upto - at
           bytes == [i \in 0 .. n - 1 |-> at + i]
<1>1. /\ Running /\ UNCHANGED <<lru, mem, phase, call, io>>
      /\ phase \in {"source", "provider", "chunks"} /\ LoopType /\ CallType /\ SoFar
      /\ CacheInv /\ io \in BOOLEAN /\ Deliver(bytes, n)
  BY DEF ReadDirect, Running, FileInv
<1>2. n \in Nat \ {0} /\ at + n <= call.upto /\ at \in Nat
  BY <1>1, SourceAssumption DEF Running, LoopType, Calls
<1>3. bytes = [i \in 0 .. n - 1 |-> at + i]
  OBVIOUS
<1> HIDE DEF n, bytes
<1>4. LoopType' /\ SoFar' /\ at' = at + n
  BY <1>1, <1>2, <1>3, MoreDelivered
<1>5. CacheInv' /\ CallType'
  BY <1>1 DEF CacheInv, CacheType, Owned, ChunksInFile, InPlace, Cached, IsChunk, CallType
<1>6. QED
  BY <1>1, <1>2, <1>4, <1>5 DEF FileInv

\* A call ends, by its return or by an exception, and the cache stays.
LEMMA EndStep ==
  ASSUME FileInv, phase # "destroyed", NEW r, EndCall(r), UNCHANGED <<lru, mem, io>>
  PROVE  FileInv'
<1>1. LoopType' /\ phase' = "idle" /\ SoFar'
  BY EndType DEF SoFar
<1>2. CallType'
  BY DEF EndCall, CallType
<1>3. CacheInv'
  BY DEF FileInv, CacheInv, CacheType, Owned, ChunksInFile, InPlace, Cached, IsChunk
<1>4. QED
  BY <1>1, <1>2, <1>3 DEF FileInv

LEMMA CallStep ==
  ASSUME FileInv, NEW op \in {"pread", "chunk", "dump", "cstring"}, Call(op)
  PROVE  FileInv'
<1>1. PICK from \in 0 .. FileSize, upto \in 0 .. FileSize :
        Begin(op, from, upto)
  BY DEF Call
<1>2. LoopType' /\ phase' \in {"source", "chunks"} /\ SoFar'
  BY <1>1, BeginType DEF SoFar
<1>3. /\ phase = "idle" /\ phase' = IF op = "pread" THEN "source" ELSE "chunks"
      /\ call' = [op |-> op, from |-> from, upto |-> upto] /\ UNCHANGED <<lru, mem, io>>
      /\ op \in {"chunk", "cstring"} => from < upto
  BY <1>1 DEF Begin, Call
<1>4. CallType'
  BY <1>1, <1>3 DEF CallType
<1>5. CacheInv' /\ io' \in BOOLEAN
  BY <1>3 DEF FileInv, CacheInv, CacheType, Owned, ChunksInFile, InPlace, Cached, IsChunk
<1>6. QED
  BY <1>2, <1>4, <1>5 DEF FileInv

LEMMA DestroyStep ==
  ASSUME FileInv, Destroy
  PROVE  FileInv'
<1>1. /\ phase = "idle" /\ phase' = "destroyed" /\ UNCHANGED <<call, at, buf, io>>
      /\ mem' = [a \in Addr |-> IF \E i \in Slot : lru[i].size > 0 /\ lru[i].ptr = a
                                THEN Free ELSE mem[a]]
  BY DEF Destroy
<1>2. ASSUME NEW a \in Addr PROVE mem'[a] = Free
  <2>1. CASE mem[a] = Free
    BY <1>1, <2>1
  <2>2. CASE mem[a] # Free
    <3>1. PICK i \in Slot : lru[i].ptr = a
      BY <1>1, <2>2 DEF FileInv, CacheInv, Owned
    <3>2. lru[i].size > 0
      BY <1>1, <3>1, SourceAssumption DEF FileInv, CacheInv, Owned, Empty
    <3>3. QED
      BY <1>1, <3>1, <3>2
  <2>3. QED
    BY <2>1, <2>2
<1>3. LoopType' /\ CallType' /\ SoFar' /\ io' \in BOOLEAN
  BY <1>1 DEF FileInv, LoopType, CallType, SoFar
<1>4. QED
  BY <1>1, <1>2, <1>3 DEF FileInv

\* The assertion fails: nothing changes any more.
LEMMA AbortStep ==
  ASSUME FileInv, AssertFails, io' = io
  PROVE  FileInv'
<1>1. phase = "chunks" /\ phase' = "aborted" /\ UNCHANGED <<lru, mem, call, at, buf>>
  BY DEF AssertFails, AsksBehind
<1>2. LoopType' /\ CallType' /\ SoFar' /\ io' \in BOOLEAN
  BY <1>1 DEF FileInv, LoopType, CallType, SoFar
<1>3. CacheInv'
  BY <1>1 DEF FileInv, CacheInv, CacheType, Owned, ChunksInFile, InPlace, Cached, IsChunk
<1>4. QED
  BY <1>1, <1>2, <1>3 DEF FileInv

LEMMA StepKeepsFile ==
  ASSUME FileInv, Step
  PROVE  FileInv'
<1>1. CASE CopyCached /\ UNCHANGED io
  BY <1>1, HitStep
<1>2. CASE LoadChunk
  BY <1>2, LoadStep
<1>3. CASE LoadThrows
  BY <1>3, EndStep DEF LoadThrows, Throw, ThrownMem, Running
<1>4. CASE ReadDirect
  BY <1>4, DirectStep
<1>5. CASE ReadDirectThrows
  BY <1>5, EndStep DEF ReadDirectThrows, Throw, Running
<1>6. CASE Return /\ UNCHANGED io
  BY <1>6, EndStep DEF Return, Done
<1>7. QED
  BY <1>1, <1>2, <1>3, <1>4, <1>5, <1>6 DEF Step

LEMMA NextFile == FileInv /\ [Next]_vars => FileInv'
<1> SUFFICES ASSUME FileInv, [Next]_vars PROVE FileInv'
  OBVIOUS
<1>1. CASE \E op \in {"pread", "chunk", "dump", "cstring"} : Call(op)
  BY <1>1, CallStep
<1>2. CASE Step
  BY <1>2, StepKeepsFile
<1>3. CASE Destroy
  BY <1>3, DestroyStep
<1>4. CASE UNCHANGED vars
  BY <1>4 DEF vars, sourceVars, FileInv, LoopType, CallType, SoFar, CacheInv, CacheType, Owned,
     ChunksInFile, InPlace, Cached, IsChunk
<1>5. CASE AssertFails /\ UNCHANGED io
  BY <1>5, AbortStep
<1>6. QED
  BY <1>1, <1>2, <1>3, <1>4, <1>5 DEF Next

\* The constructors.
LEMMA InitMemoryCache ==
  ASSUME NEW n \in Nat \ {0}, InitMemory(n),
         \/ n = FileSize /\ io = FALSE
         \/ n < FileSize /\ n = Chunk /\ io = TRUE
  PROVE  CacheInv
<1>1. PICK a \in Addr :
        /\ lru = [i \in Slot |->
                    IF i = 0 THEN [ptr |-> a, offset |-> 0, size |-> n] ELSE Empty]
        /\ mem = [b \in Addr |-> IF b = a THEN [from |-> 0, len |-> n] ELSE Free]
  BY DEF InitMemory
<1>2. n <= FileSize
  BY SourceAssumption
<1>3. CacheType /\ Owned /\ ChunksInFile
  BY <1>1, <1>2, FirstChunk
<1>4. InPlace
  BY <1>1, SlotNumbers DEF InPlace
<1>5. lru[0] = [ptr |-> a, offset |-> 0, size |-> n] /\ \A i \in Slot : i # 0 => lru[i] = Empty
  BY <1>1, SlotNumbers
<1>6. lru[0] # Empty
  BY <1>5, SourceAssumption DEF Empty
<1>7. Cached
  <2>1. CASE n = FileSize /\ io = FALSE
    BY <1>5, <1>6, <2>1, SlotNumbers DEF Cached
  <2>2. CASE n < FileSize /\ n = Chunk /\ io = TRUE
    <3>1. IsChunk(lru[0])
      <4>1. 0 = 0 * Chunk /\ 0 \in Nat
        BY UnixLikeAssumption, SourceAssumption
      <4>2. Lower(Chunk, FileSize - 0) = n
        BY <2>2, SourceAssumption, UnixLikeAssumption DEF Lower
      <4>3. QED
        BY <1>5, <4>1, <4>2, SourceAssumption DEF IsChunk
    <3>2. QED
      BY <1>5, <2>2, <3>1 DEF Cached
  <2>3. QED
    BY <2>1, <2>2
<1>8. QED
  BY <1>3, <1>4, <1>7 DEF CacheInv

LEMMA InitFile == Init => FileInv
<1> SUFFICES ASSUME Init PROVE FileInv
  OBVIOUS
<1>1. phase = "idle" /\ call = NoCall /\ at = 0 /\ buf = NoBytes
  BY DEF Init
<1>2. LoopType /\ CallType
  BY <1>1, SourceAssumption DEF LoopType, CallType, Calls, NoCall
<1>3. SoFar
  <2>1. 0 .. 0 - 0 - 1 = {}
    OBVIOUS
  <2>2. QED
    BY <1>1, <2>1 DEF SoFar, NoCall, NoBytes
<1>4. CacheInv /\ io \in BOOLEAN
  <2>1. CASE InitUnix
    <3>1. CacheType /\ Owned /\ ChunksInFile
      BY <2>1, NoChunks DEF InitUnix
    <3>2. QED
      BY <2>1, <3>1 DEF InitUnix, CacheInv, InPlace, Cached
  <2>2. CASE InitMemory(ToMap) /\ io = KeptOpen(ToMap)
    <3>1. CASE ToMap = FileSize
      <4>1. io = FALSE
        BY <2>2, <3>1, Zenon DEF KeptOpen
      <4>2. QED
        BY <2>2, <3>1, <4>1, InitMemoryCache, SourceAssumption
    <3>2. CASE ToMap # FileSize
      <4>1. ToMap = Chunk /\ Chunk < FileSize /\ Chunk \in Nat \ {0}
        BY <3>2, SourceAssumption, UnixLikeAssumption DEF ToMap
      <4>2. io = TRUE
        BY <2>2, <3>2 DEF KeptOpen
      <4>3. QED
        BY <2>2, <4>1, <4>2, InitMemoryCache
    <3>3. QED
      BY <3>1, <3>2
  <2>3. CASE InitMemory(FileSize) /\ io = FALSE
    BY <2>3, InitMemoryCache, SourceAssumption
  <2>4. QED
    BY <2>1, <2>2, <2>3 DEF Init
<1>5. QED
  BY <1>1, <1>2, <1>3, <1>4 DEF FileInv

LEMMA FileInvariant == Spec => []FileInv
BY InitFile, NextFile, PTL DEF Spec

-------------------------------------------------------------------------------
(* The theorems *)

\* No chunk is lost, deleted twice or used after it was deleted, whichever
\* reads throw; a destroyed provider leaves none.
THEOREM ChunksOwned == Spec => []CacheOwnsChunks
<1>1. FileInv => CacheOwnsChunks
  BY DEF FileInv, CacheInv, Owned, CacheOwnsChunks
<1>2. QED
  BY <1>1, FileInvariant, PTL

\* The entries are distinct chunks of the file in their places, however large
\* the file, and none is larger than a chunk while the file is open.
THEOREM EntriesKept == Spec => []EntriesAreChunks
<1>1. FileInv => EntriesAreChunks
  <2> SUFFICES ASSUME FileInv, phase # "destroyed" PROVE EntriesAreChunks
    BY DEF EntriesAreChunks
  <2>1. CacheInv /\ io \in BOOLEAN
    BY DEF FileInv
  <2>2. FileSize \in Nat \ {0} /\ Huge \in Nat /\ FileSize <= Huge /\ Chunk \in Nat \ {0}
    BY SourceAssumption, UnixLikeAssumption
  <2>3. ASSUME NEW i \in Slot, lru[i] # Empty
        PROVE  /\ lru[i].offset + lru[i].size <= FileSize
               /\ lru[i].size <= MaxEntry
               /\ mem[lru[i].ptr].from = lru[i].offset
    <3>1. lru[i] \in CacheEntry /\ lru[i].offset \in Nat /\ lru[i].size \in Nat
      BY <2>1, <2>3 DEF CacheInv, CacheType, CacheEntry
    <3>2. mem[lru[i].ptr].from = lru[i].offset
      BY <2>1, <2>3 DEF CacheInv, InPlace
    <3>3. CASE io
      <4>1. lru[i].offset < FileSize /\ lru[i].size = Lower(Chunk, FileSize - lru[i].offset)
        BY <2>1, <2>3, <3>3 DEF CacheInv, Cached, IsChunk
      <4>2. QED
        BY <2>2, <3>1, <3>2, <3>3, <4>1 DEF Lower, MaxEntry
    <3>4. CASE ~io
      <4>1. lru[i].offset = 0 /\ lru[i].size = FileSize
        BY <2>1, <2>3, <3>4 DEF CacheInv, Cached
      <4>2. QED
        BY <2>2, <3>1, <3>2, <3>4, <4>1 DEF MaxEntry
    <3>5. QED
      BY <3>3, <3>4
  <2>4. ASSUME NEW i \in Slot, NEW j \in Slot, NEW p \in 0 .. FileSize - 1,
               Covers(lru[i], p), Covers(lru[j], p)
        PROVE  i = j
    <3>1. p \in Nat /\ p < FileSize
      BY <2>2
    <3>2. lru[i] # Empty /\ lru[j] # Empty
      BY <2>2, <2>4, <3>1 DEF Covers, Empty
    <3>3. lru[i] \in CacheEntry /\ lru[j] \in CacheEntry
      BY <2>1 DEF CacheInv, CacheType
    <3>4. CASE io
      <4>1. lru[i].offset = ChunkOffset(p)
        BY <2>1, <2>4, <3>1, <3>2, <3>3, <3>4, OneChunk DEF CacheInv, Cached
      <4>2. lru[j].offset = ChunkOffset(p)
        BY <2>1, <2>4, <3>1, <3>2, <3>3, <3>4, OneChunk DEF CacheInv, Cached
      <4>3. QED
        BY <2>1, <3>2, <3>4, <4>1, <4>2 DEF CacheInv, Cached
    <3>5. CASE ~io
      BY <2>1, <3>2, <3>5 DEF CacheInv, Cached
    <3>6. QED
      BY <3>4, <3>5
  <2>5. QED
    BY <2>3, <2>4 DEF EntriesAreChunks
<1>2. QED
  BY <1>1, FileInvariant, PTL

\* A closed file is never read: its one entry covers every position.
THEOREM OpenWhenRead == Spec => []ReadsOpenFile
<1>1. FileInv => ReadsOpenFile
  <2> SUFFICES ASSUME FileInv, Running, Missing(at), ~io PROVE FALSE
    BY DEF ReadsOpenFile
  <2>1. PICK i \in Slot : lru[i].offset = 0 /\ lru[i].size = FileSize
    BY DEF Running, FileInv, CacheInv, Cached
  <2>2. at \in Nat /\ at < FileSize
    BY SourceAssumption DEF Running, FileInv, LoopType, Calls
  <2>3. Covers(lru[i], at)
    BY <2>1, <2>2, SourceAssumption DEF Covers
  <2>4. QED
    BY <2>3, NoneCovers
<1>2. QED
  BY <1>1, FileInvariant, PTL

\* What a call has delivered, and the zeros in it.
LEMMA DeliveredZeros ==
  ASSUME LoopType, SoFar
  PROVE  /\ call.from \in Nat /\ call.upto \in Nat /\ at - call.from \in Nat
         /\ DOMAIN buf = 0 .. at - call.from - 1
         /\ \A i \in DOMAIN buf : buf[i] = call.from + i
         /\ Zeros = {i \in 0 .. at - call.from - 1 : call.from + i \in Nul}
<1>1. call.from \in Nat /\ call.upto \in Nat /\ at - call.from \in Nat
  BY SourceAssumption DEF LoopType, Calls
<1> DEFINE k == at - call.from
<1>2. buf = [i \in 0 .. k - 1 |-> call.from + i]
  BY DEF SoFar
<1> HIDE DEF k
<1>3. DOMAIN buf = 0 .. k - 1 /\ \A i \in 0 .. k - 1 : buf[i] = call.from + i
  BY <1>2
<1>4. Zeros = {i \in 0 .. k - 1 : call.from + i \in Nul}
  BY <1>3 DEF Zeros
<1>5. QED
  BY <1>1, <1>3, <1>4 DEF k

\* A loop over GetChunk asks behind the end of its slice only if it is
\* PreadCString and the slice has no zero byte: where it has one, the loop ends
\* before, and so do those of GetChunk's other callers.
THEOREM ChunkAsked == Spec => []ChunkInSlice
<1>1. FileInv => ChunkInSlice
  <2> SUFFICES ASSUME FileInv, phase = "chunks", ~Done, at >= call.upto, ~Unterminated
               PROVE  FALSE
    BY DEF ChunkInSlice, AsksBehind
  <2>1. LoopType /\ SoFar /\ CallType
    BY DEF FileInv
  <2>2. call.from \in Nat /\ call.upto \in Nat /\ at \in Nat /\ at = call.upto
    BY <2>1, SourceAssumption DEF LoopType, Calls
  <2>3. call.op \in {"chunk", "dump", "cstring"}
    BY <2>1 DEF CallType
  <2>4. CASE call.op = "dump"
    BY <2>2, <2>4 DEF Done
  <2>5. CASE call.op = "chunk"
    BY <2>1, <2>2, <2>5 DEF Done, CallType
  <2>6. CASE call.op = "cstring"
    <3>1. PICK z \in Nul : call.from <= z /\ z < call.upto
      BY <2>6 DEF Unterminated
    <3>2. z \in Nat
      BY SourceAssumption
    <3>3. z - call.from \in 0 .. at - call.from - 1 /\ call.from + (z - call.from) = z
      BY <2>2, <3>1, <3>2
    <3>4. z - call.from \in Zeros
      BY <2>1, <3>3, DeliveredZeros
    <3>5. QED
      BY <2>6, <3>4 DEF Done
  <2>7. QED
    BY <2>3, <2>4, <2>5, <2>6
<1>2. QED
  BY <1>1, FileInvariant, PTL

\* A string ends before the first zero byte from its beginning on, which is in
\* its slice.
LEMMA FirstZero ==
  ASSUME LoopType, SoFar, Zeros # {}
  PROVE  \E z \in Nul :
           /\ call.from <= z /\ z < call.upto /\ \A p \in Nul : call.from <= p => z <= p
           /\ [i \in {j \in DOMAIN buf : \A y \in Zeros : j < y} |-> buf[i]]
                = [i \in 0 .. z - call.from - 1 |-> call.from + i]
<1> DEFINE k == at - call.from
           f == call.from
<1>1. /\ f \in Nat /\ k \in Nat /\ DOMAIN buf = 0 .. k - 1 /\ \A i \in DOMAIN buf : buf[i] = f + i
      /\ Zeros = {i \in 0 .. k - 1 : f + i \in Nul}
  BY DeliveredZeros
<1> HIDE DEF k, f
<1>2. Zeros \subseteq Nat /\ Nul \subseteq Nat
  BY <1>1, SourceAssumption
<1>3. PICK y \in Zeros : \A x \in Zeros : y <= x
  BY <1>2, Least
<1>4. y \in Nat /\ y < k /\ f + y \in Nul
  BY <1>1, <1>3
<1>5. ASSUME NEW p \in Nul, f <= p PROVE f + y <= p
  <2>1. p \in Nat
    BY <1>2
  <2>2. CASE p - f \in 0 .. k - 1
    <3>1. p - f \in Zeros
      BY <1>1, <1>5, <2>1, <2>2
    <3>2. QED
      BY <1>1, <1>3, <1>4, <2>1, <3>1
  <2>3. CASE ~(p - f \in 0 .. k - 1)
    BY <1>1, <1>4, <1>5, <2>1, <2>3
  <2>4. QED
    BY <2>2, <2>3
<1>6. {j \in DOMAIN buf : \A x \in Zeros : j < x} = 0 .. y - 1
  <2>1. ASSUME NEW j \in 0 .. k - 1 PROVE (\A x \in Zeros : j < x) <=> j < y
    <3>1. ASSUME NEW x \in Zeros, j < y PROVE j < x
      BY <1>2, <1>3, <1>4, <2>1, <3>1
    <3>2. QED
      BY <1>3, <3>1
  <2>2. {j \in DOMAIN buf : \A x \in Zeros : j < x} = {j \in 0 .. k - 1 : j < y}
    <3>1. DOMAIN buf = 0 .. k - 1
      BY <1>1
    <3> DEFINE Before(j) == \A x \in Zeros : j < x
    <3>2. \A j \in 0 .. k - 1 : Before(j) <=> j < y
      BY <2>1
    <3> HIDE DEF Before
    <3>3. {j \in DOMAIN buf : Before(j)} = {j \in 0 .. k - 1 : j < y}
      BY <3>1, <3>2
    <3>4. QED
      BY <3>3 DEF Before
  <2>3. {j \in 0 .. k - 1 : j < y} = 0 .. y - 1
    <3>1. k \in Nat /\ y \in Nat /\ y < k
      BY <1>1, <1>4
    <3>2. QED
      BY <3>1
  <2>4. QED
    BY <2>2, <2>3
<1>7. [i \in {j \in DOMAIN buf : \A x \in Zeros : j < x} |-> buf[i]] = [i \in 0 .. y - 1 |-> f + i]
  BY <1>1, <1>4, <1>6
<1>8. (f + y) - f - 1 = y - 1 /\ f <= f + y /\ f + y < call.upto
  <2>1. at \in Nat /\ call.upto \in Nat /\ at <= call.upto
    BY SourceAssumption DEF LoopType, Calls
  <2>2. at = f + k
    BY <2>1, SourceAssumption DEF f, k, LoopType, Calls
  <2>3. QED
    BY <1>1, <1>4, <2>1, <2>2
<1> DEFINE z == f + y
<1>9. z \in Nul /\ f <= z /\ z < call.upto /\ (\A p \in Nul : f <= p => z <= p) /\ z - f - 1 = y - 1
  BY <1>4, <1>5, <1>8
<1> HIDE DEF z
<1>10. QED
  BY <1>7, <1>9 DEF f

\* A call that returns answers as the file does.
LEMMA ReturnAnswers ==
  ASSUME FileInv, Return
  PROVE  File!Answer
<1>1. /\ Done /\ call' = NoCall /\ reply' = [ok |-> TRUE, bytes |-> Result]
      /\ LoopType /\ CallType /\ SoFar
  BY DEF Return, EndCall, FileInv
<1>2. call.op \in {"pread", "dump", "chunk", "cstring"}
  BY <1>1 DEF Done, CallType
<1>3. call # NoCall
  BY <1>2 DEF NoCall
<1>4. call.from \in Nat /\ call.upto \in Nat /\ at \in Nat /\ call.from <= at /\ at <= call.upto
  BY <1>1, SourceAssumption DEF LoopType, Calls
<1>5. Result \in File!Answers(call)
  <2>1. CASE call.op \in {"pread", "dump"}
    <3>1. at = call.upto /\ Result = buf
      BY <1>1, <2>1 DEF Done, Result
    <3>2. buf = [i \in 0 .. call.upto - call.from - 1 |-> call.from + i]
      BY <1>1, <3>1 DEF SoFar
    <3>3. QED
      BY <2>1, <3>1, <3>2 DEF File!Answers, File!Bytes
  <2>2. CASE call.op = "chunk"
    <3>1. at > call.from /\ Result = buf
      BY <1>1, <2>2 DEF Done, Result
    <3>2. at - call.from \in 1 .. call.upto - call.from
      BY <1>4, <3>1
    <3>3. buf = File!Bytes(call.from, at - call.from)
      BY <1>1 DEF SoFar, File!Bytes
    <3>4. QED
      BY <2>2, <3>1, <3>2, <3>3 DEF File!Answers
  <2>3. CASE call.op = "cstring"
    <3>1. Zeros # {}
      BY <1>1, <2>3 DEF Done
    <3>2. PICK z \in Nul :
            /\ call.from <= z /\ z < call.upto /\ \A p \in Nul : call.from <= p => z <= p
            /\ [i \in {j \in DOMAIN buf : \A y \in Zeros : j < y} |-> buf[i]]
                 = [i \in 0 .. z - call.from - 1 |-> call.from + i]
      BY <1>1, <3>1, FirstZero
    <3>3. Result = File!Bytes(call.from, z - call.from)
      BY <2>3, <3>2 DEF Result, File!Bytes
    <3>4. QED
      BY <2>3, <3>2, <3>3 DEF File!Answers
  <2>4. QED
    BY <1>2, <2>1, <2>2, <2>3
<1>6. QED
  BY <1>1, <1>3, <1>5 DEF File!Answer, File!Returned, File!NoRequest, NoCall

\* An exception leaves the call unanswered.
LEMMA ThrowAnswers ==
  ASSUME FileInv, Running, Throw
  PROVE  File!Throw
<1>1. call # NoCall
  BY DEF FileInv, CallType, Running, NoCall
<1>2. QED
  BY <1>1 DEF Throw, EndCall, File!Throw, File!Thrown, File!NoRequest, File!NoBytes, NoCall, NoBytes

\* The provider and its Sources implement a read-only file: what is cached, and
\* what has failed before, never shows in an answer.
THEOREM Implements == Spec => ImplementsReadOnlyFile
<1>1. Init => File!Init
  BY DEF Init, File!Init, File!NoRequest, File!Returned, File!NoBytes, NoCall, NoBytes
<1>2. FileInv /\ [Next]_vars => [File!Next]_File!vars
  <2> SUFFICES ASSUME FileInv, [Next]_vars PROVE File!Next \/ UNCHANGED <<call, reply>>
    BY DEF File!vars
  <2>1. CASE \E op \in {"pread", "chunk", "dump", "cstring"} : Call(op)
    <3>1. PICK op \in {"pread", "chunk", "dump", "cstring"},
               from \in 0 .. FileSize, upto \in 0 .. FileSize : Begin(op, from, upto)
      BY <2>1 DEF Call
    <3>2. call = NoCall
      BY <3>1 DEF Begin, FileInv, CallType
    <3>3. File!Ask
      BY <3>1, <3>2 DEF Begin, File!Ask, File!NoRequest, NoCall
    <3>4. QED
      BY <3>3 DEF File!Next
  <2>2. CASE (CopyCached /\ UNCHANGED io) \/ LoadChunk \/ ReadDirect \/ Destroy
    BY <2>2 DEF CopyCached, LoadChunk, ReadDirect, Destroy
  <2>3. CASE LoadThrows \/ ReadDirectThrows
    BY <2>3, ThrowAnswers DEF LoadThrows, ReadDirectThrows, File!Next
  <2>4. CASE Return /\ UNCHANGED io
    BY <2>4, ReturnAnswers DEF File!Next
  <2>5. CASE UNCHANGED vars \/ AssertFails
    BY <2>5 DEF vars, sourceVars, AssertFails
  <2>6. QED
    BY <2>1, <2>2, <2>3, <2>4, <2>5 DEF Next, Step
<1>3. QED
  BY <1>1, <1>2, FileInvariant, PTL DEF Spec, ImplementsReadOnlyFile, File!Spec

-------------------------------------------------------------------------------
(* CpkSource *)

-------------------------------------------------------------------------------
(* The provider *)

\* What the call has delivered is as long as its loop has got.
Delivered ==
  /\ DOMAIN buf = 0 .. at - call.from - 1
  /\ \A i \in DOMAIN buf : buf[i] \in Nat \ {Huge}

\* The inductive invariant.
CpkCacheInv ==
  /\ CacheType /\ LoopType /\ ChunksInFile /\ Delivered /\ Owned
  /\ phase = "destroyed" => \A a \in Addr : mem[a] = Free

-------------------------------------------------------------------------------
(* Chunks *)

\* The chunk of a position before the end of the file.
LEMMA PartOfChunk ==
  ASSUME NEW p \in Nat, p < FileSize
  PROVE  /\ ChunkOffset(p) \in Nat /\ ChunkOffset(p) <= p
         /\ p % Chunk \in Nat /\ ChunkOffset(p) + (p % Chunk) = p
         /\ ChunkSize(p) \in Nat /\ p % Chunk < ChunkSize(p)
         /\ ChunkOffset(p) + ChunkSize(p) <= FileSize
<1> DEFINE q == p \div Chunk
           r == p % Chunk
           o == q * Chunk
<1>1. q \in Nat /\ r \in Nat /\ r < Chunk /\ p = o + r /\ o \in Nat
  BY SourceAssumption, SMT
<1>2. FileSize \in Nat /\ Chunk \in Nat
  BY SourceAssumption
<1>3. ChunkOffset(p) = o
  BY DEF ChunkOffset
<1> HIDE DEF q, r, o
<1>4. ChunkSize(p) = IF Chunk <= FileSize - o THEN Chunk ELSE FileSize - o
  BY <1>3 DEF ChunkSize, Lower
<1>5. ChunkOffset(p) \in Nat /\ ChunkOffset(p) <= p
  BY <1>1, <1>3
<1>6. r < ChunkSize(p) /\ ChunkSize(p) \in Nat /\ o + ChunkSize(p) <= FileSize
  BY <1>1, <1>2, <1>4
<1>7. QED
  BY <1>1, <1>3, <1>5, <1>6 DEF r

\* Bytes of the file put behind those delivered before.
LEMMA CpkMoreDelivered ==
  ASSUME LoopType, Delivered, NEW n \in Nat, at + n <= call.upto, NEW bytes,
         \A i \in 0 .. n - 1 : bytes[i] \in Nat \ {Huge},
         Deliver(bytes, n), call' = call, phase' \in {"source", "provider", "chunks"}
  PROVE  LoopType' /\ Delivered'
<1>1. call.from \in Nat /\ call.upto \in Nat /\ at \in Nat /\ call.from <= at
  BY SourceAssumption DEF LoopType, Calls
<1> DEFINE k == at - call.from
<1>2. k \in Nat
  BY <1>1
<1>3. at' = at + n /\ at' - call'.from = k + n
  BY <1>1 DEF Deliver
<1>4. buf' = [i \in 0 .. k + n - 1 |-> IF i < k THEN buf[i] ELSE bytes[i - k]]
  BY DEF Deliver
<1>5. DOMAIN buf = 0 .. k - 1
  BY DEF Delivered
<1> HIDE DEF k
<1>6. \A i \in 0 .. k + n - 1 : buf'[i] \in Nat \ {Huge}
  <2> SUFFICES ASSUME NEW i \in 0 .. k + n - 1 PROVE buf'[i] \in Nat \ {Huge}
    OBVIOUS
  <2>1. CASE i < k
    <3>1. i \in DOMAIN buf
      BY <1>2, <1>5, <2>1
    <3>2. QED
      BY <1>4, <2>1, <3>1 DEF Delivered
  <2>2. CASE ~(i < k)
    <3>1. i - k \in 0 .. n - 1
      BY <1>2, <2>2
    <3>2. QED
      BY <1>4, <2>2, <3>1
  <2>3. QED
    BY <2>1, <2>2
<1>7. DOMAIN buf' = 0 .. k + n - 1
  BY <1>4
<1>8. Delivered'
  <2>1. at' - call'.from - 1 = k + n - 1
    <3>1. at' \in Nat /\ call'.from \in Nat
      BY <1>1, <1>3
    <3>2. QED
      BY <1>2, <1>3, <3>1
  <2>2. DOMAIN buf' = 0 .. (at' - call'.from - 1)
    BY <1>7, <2>1
  <2>3. \A i \in DOMAIN buf' : buf'[i] \in Nat \ {Huge}
    BY <1>6, <1>7
  <2>4. QED
    BY <2>2, <2>3 DEF Delivered
<1>9. LoopType'
  BY <1>1, <1>3 DEF LoopType
<1>10. QED
  BY <1>8, <1>9

\* The bytes a loop takes of a cached chunk are in it.
LEMMA CpkFromChunk ==
  ASSUME LoopType, Running, NEW m, NEW x \in CacheEntry, x.ptr \in Addr,
         m[x.ptr].from \in Nat, m[x.ptr].len = x.size,
         m[x.ptr].from + x.size <= FileSize, Covers(x, at)
  PROVE  /\ Taken(x) \in Nat /\ at + Taken(x) <= call.upto
         /\ \A i \in 0 .. Taken(x) - 1 : Content(m, x)[i] \in Nat \ {Huge}
<1> DEFINE d == at - x.offset
           n == Taken(x)
<1>1. /\ at \in Nat /\ call.upto \in Nat /\ at < call.upto
      /\ x.offset \in Nat /\ x.size \in Nat
  BY SourceAssumption DEF LoopType, Calls, CacheEntry, Running
<1>2. d \in Nat /\ d < x.size
  BY <1>1 DEF Covers
<1>3. n = IF call.upto - at <= x.size - d THEN call.upto - at ELSE x.size - d
  BY DEF Taken, Lower
<1>4. Content(m, x) = [i \in 0 .. n - 1 |->
        IF x.ptr \in Addr /\ d + i < m[x.ptr].len THEN m[x.ptr].from + (d + i) ELSE Huge]
  BY DEF Content
<1> HIDE DEF d, n
<1>5. n \in Nat /\ at + n <= call.upto /\ d + n <= x.size
  BY <1>1, <1>2, <1>3
<1>6. \A i \in 0 .. n - 1 : Content(m, x)[i] \in Nat \ {Huge}
  <2> SUFFICES ASSUME NEW i \in 0 .. n - 1 PROVE Content(m, x)[i] \in Nat \ {Huge}
    OBVIOUS
  <2>1. d + i < x.size /\ d + i \in Nat
    BY <1>1, <1>2, <1>5
  <2>2. Content(m, x)[i] = m[x.ptr].from + (d + i)
    BY <1>4, <2>1
  <2>3. QED
    BY <1>1, <2>1, <2>2, SourceAssumption
<1>7. QED
  BY <1>5, <1>6 DEF n

-------------------------------------------------------------------------------
(* The steps *)

\* A loop that takes cached bytes.
LEMMA CopyStep ==
  ASSUME CpkCacheInv, CopyCached
  PROVE  CpkCacheInv'
<1>1. PICK i \in Found(at) :
        lru' = ToFront(i) /\ Deliver(Content(mem, lru[i]), Taken(lru[i]))
  BY DEF CopyCached
<1>2. /\ i \in Slot /\ Covers(lru[i], at) /\ lru[i] \in CacheEntry
      /\ Running /\ mem' = mem /\ phase' = phase /\ call' = call
  BY <1>1 DEF Found, CopyCached, CpkCacheInv, CacheType
<1>3. lru[i] # Empty
  BY <1>2, SourceAssumption DEF Covers, Empty, CpkCacheInv, LoopType
<1>4. lru[i].ptr \in Addr /\ mem[lru[i].ptr].len = lru[i].size /\ lru[i].size > 0
  BY <1>2, <1>3 DEF CpkCacheInv, Owned
<1>5. /\ mem[lru[i].ptr].from \in Nat
      /\ mem[lru[i].ptr].from + lru[i].size <= FileSize
  BY <1>4 DEF CpkCacheInv, CacheType, ChunksInFile, Free
<1>6. LoopType' /\ Delivered'
  <2>1. /\ Taken(lru[i]) \in Nat /\ at + Taken(lru[i]) <= call.upto
        /\ \A j \in 0 .. Taken(lru[i]) - 1 : Content(mem, lru[i])[j] \in Nat \ {Huge}
    BY <1>2, <1>4, <1>5, CpkFromChunk DEF CpkCacheInv
  <2>2. phase' \in {"source", "provider", "chunks"}
    BY <1>2 DEF Running
  <2>3. QED
    BY <1>1, <1>2, <2>1, <2>2, CpkMoreDelivered DEF CpkCacheInv
<1>7. CacheType' /\ Owned' /\ ChunksInFile'
  BY <1>1, <1>2, HitKeepsCache DEF CpkCacheInv
<1>8. QED
  BY <1>2, <1>6, <1>7 DEF CpkCacheInv, Running

\* A miss reads one chunk, and the loop takes bytes of it.
LEMMA CpkLoadStep ==
  ASSUME CpkCacheInv, CpkLoadChunk
  PROVE  CpkCacheInv'
<1>1. PICK a \in Addr :
        /\ mem[a] = Free
        /\ mem' = [DeletedLast EXCEPT ![a] = [from |-> ChunkOffset(at), len |-> ChunkSize(at)]]
        /\ lru' = Pushed(a)
        /\ IF phase = "chunks" THEN Deliver(Content(mem', lru'[0]), Taken(lru'[0]))
                             ELSE Deliver(Copied(mem', a), ToCopy)
  BY DEF CpkLoadChunk
<1>2. /\ Running /\ call' = call /\ phase' \in {"source", "provider", "chunks"}
      /\ at \in Nat /\ at < FileSize /\ call.upto \in Nat /\ at < call.upto
  BY SourceAssumption DEF CpkLoadChunk, InPread, Running, CpkCacheInv, LoopType, Calls
<1>3. /\ CacheType' /\ Owned' /\ ChunksInFile'
      /\ lru'[0] = [ptr |-> a, offset |-> at, size |-> ChunkSize(at)]
      /\ mem'[a] = [from |-> ChunkOffset(at), len |-> ChunkSize(at)]
  <2>1. ChunkOffset(at) \in Nat /\ ChunkSize(at) \in Nat \ {0}
        /\ ChunkOffset(at) + ChunkSize(at) <= FileSize
    BY <1>2, PartOfChunk
  <2>2. CacheType /\ Owned /\ ChunksInFile
    BY DEF CpkCacheInv
  <2>3. QED
    BY <1>1, <1>2, <2>1, <2>2, PushKeepsCache DEF DeletedLast, Pushed
<1> DEFINE o == ChunkOffset(at)
           n == ChunkSize(at)
           r == at % Chunk
           x == lru'[0]
           m == mem'
<1>4. /\ o \in Nat /\ n \in Nat /\ r \in Nat /\ r < n /\ o + n <= FileSize
  BY <1>2, PartOfChunk
<1>5. m[a] = [from |-> o, len |-> n] /\ x = [ptr |-> a, offset |-> at, size |-> n]
  BY <1>3
<1> HIDE DEF o, n, r, x, m
<1>6. LoopType' /\ Delivered'
  <2>1. CASE phase = "chunks"
    <3>1. x \in CacheEntry /\ x.ptr \in Addr /\ Covers(x, at)
      BY <1>2, <1>4, <1>5 DEF CacheEntry, Covers
    <3>2. m[x.ptr].from \in Nat /\ m[x.ptr].len = x.size /\ m[x.ptr].from + x.size <= FileSize
      BY <1>4, <1>5
    <3>3. /\ Taken(x) \in Nat /\ at + Taken(x) <= call.upto
          /\ \A j \in 0 .. Taken(x) - 1 : Content(m, x)[j] \in Nat \ {Huge}
      BY <1>2, <3>1, <3>2, CpkFromChunk DEF CpkCacheInv
    <3>4. Deliver(Content(m, x), Taken(x))
      BY <1>1, <2>1 DEF m, x
    <3>5. QED
      BY <1>2, <3>3, <3>4, CpkMoreDelivered DEF CpkCacheInv
  <2>2. CASE phase # "chunks"
    <3> DEFINE k == ToCopy
    <3>1. k = IF call.upto - at <= n - r THEN call.upto - at ELSE n - r
      BY DEF ToCopy, Lower, n, r
    <3>2. Copied(m, a) = [i \in 0 .. k - 1 |->
                            IF r + i < m[a].len THEN m[a].from + (r + i) ELSE Huge]
      BY DEF Copied, r
    <3>3. Deliver(Copied(m, a), k)
      BY <1>1, <2>2 DEF m
    <3> HIDE DEF k
    <3>4. k \in Nat /\ at + k <= call.upto /\ r + k <= n
      BY <1>2, <1>4, <3>1
    <3>5. ASSUME NEW i \in 0 .. k - 1 PROVE Copied(m, a)[i] \in Nat \ {Huge}
      <4>1. r + i \in Nat /\ r + i < n
        BY <1>4, <3>4
      <4>2. Copied(m, a)[i] = o + (r + i)
        BY <1>5, <3>2, <4>1
      <4>3. QED
        BY <1>4, <4>1, <4>2, SourceAssumption
    <3>6. QED
      BY <1>2, <3>3, <3>4, <3>5, CpkMoreDelivered DEF CpkCacheInv
  <2>3. QED
    BY <2>1, <2>2
<1>7. QED
  BY <1>2, <1>3, <1>6 DEF CpkCacheInv

\* OrigRead into the caller's buffer.
LEMMA CpkDirectStep ==
  ASSUME CpkCacheInv, CpkReadDirect
  PROVE  CpkCacheInv'
<1> DEFINE n == call.upto - at
<1>1. /\ Running /\ call' = call /\ phase' = phase /\ lru' = lru /\ mem' = mem
      /\ at \in Nat /\ call.upto \in Nat /\ n \in Nat /\ call.upto <= FileSize
      /\ Deliver([i \in 0 .. n - 1 |-> at + i], n)
  BY SourceAssumption DEF CpkReadDirect, Running, CpkCacheInv, LoopType, Calls
<1>2. \A i \in 0 .. n - 1 : [j \in 0 .. n - 1 |-> at + j][i] \in Nat \ {Huge}
  BY <1>1, SourceAssumption
<1>3. at + n <= call.upto /\ phase' \in {"source", "provider", "chunks"}
  BY <1>1 DEF Running
<1> HIDE DEF n
<1>4. LoopType' /\ Delivered'
  BY <1>1, <1>2, <1>3, CpkMoreDelivered DEF CpkCacheInv
<1>5. QED
  BY <1>1, <1>3, <1>4 DEF CpkCacheInv, CacheType, Owned, ChunksInFile

\* A call ends, by its return or by an exception, and the cache stays.
LEMMA CpkEndStep ==
  ASSUME CpkCacheInv, NEW r, EndCall(r), UNCHANGED <<lru, mem>>
  PROVE  CpkCacheInv'
<1>1. LoopType' /\ Delivered'
  BY SourceAssumption DEF EndCall, LoopType, Calls, NoCall, Delivered, NoBytes
<1>2. CacheType' /\ Owned' /\ ChunksInFile' /\ phase' # "destroyed"
  BY DEF EndCall, CpkCacheInv, CacheType, Owned, ChunksInFile
<1>3. QED
  BY <1>1, <1>2 DEF CpkCacheInv

LEMMA CpkCallStep ==
  ASSUME CpkCacheInv, NEW op \in {"pread", "chunk", "dump", "cstring"}, CpkCall(op)
  PROVE  CpkCacheInv'
<1>1. PICK from \in 0 .. FileSize, upto \in 0 .. FileSize : Begin(op, from, upto)
  BY DEF CpkCall
<1>2. LoopType'
  BY <1>1, SourceAssumption DEF Begin, LoopType, Calls
<1>3. Delivered'
  <2>1. buf' = NoBytes /\ at' = from /\ call'.from = from
    BY <1>1 DEF Begin
  <2>2. 0 .. from - from - 1 = {} /\ DOMAIN NoBytes = {}
    BY SourceAssumption DEF NoBytes
  <2>3. QED
    BY <2>1, <2>2 DEF Delivered
<1>4. CacheType' /\ Owned' /\ ChunksInFile' /\ phase' # "destroyed"
  BY <1>1 DEF Begin, CpkCacheInv, CacheType, Owned, ChunksInFile
<1>5. QED
  BY <1>2, <1>3, <1>4 DEF CpkCacheInv

\* Every chunk in memory is the cache's, so deleting the cache's leaves none.
LEMMA CpkDestroyStep ==
  ASSUME CpkCacheInv, CpkDestroy
  PROVE  CpkCacheInv'
<1>1. /\ mem' = [a \in Addr |-> IF \E i \in Slot : lru[i].ptr = a THEN Free ELSE mem[a]]
      /\ lru' = [i \in Slot |-> Empty] /\ UNCHANGED <<call, at, buf>>
      /\ phase' = "destroyed"
  BY DEF CpkDestroy
<1>2. \A a \in Addr : mem'[a] = Free
  BY <1>1 DEF CpkCacheInv, Owned
<1>3. CacheType'
  BY <1>1, SourceAssumption DEF CpkCacheInv, CacheType, CacheEntry, Empty, Free
<1>4. LoopType' /\ Delivered'
  BY <1>1 DEF CpkCacheInv, LoopType, Delivered
<1>5. Owned' /\ ChunksInFile'
  BY <1>1, <1>2 DEF Owned, ChunksInFile
<1>6. QED
  BY <1>2, <1>3, <1>4, <1>5 DEF CpkCacheInv

-------------------------------------------------------------------------------
(* The theorems *)

LEMMA InitCache == ASSUME NEW p \in {"idle", "destroyed"}, InitIn(p) PROVE CpkCacheInv
<1>1. CacheType /\ Owned /\ ChunksInFile
  BY NoChunks DEF InitIn
<1>2. LoopType /\ Delivered
  BY SourceAssumption DEF InitIn, LoopType, Calls, NoCall, Delivered, NoBytes
<1>3. QED
  BY <1>1, <1>2 DEF CpkCacheInv, InitIn

\* The assertion fails: nothing changes any more.
LEMMA CpkAbortStep ==
  ASSUME CpkCacheInv, AssertFails
  PROVE  CpkCacheInv'
BY DEF AssertFails, CpkCacheInv, CacheType, LoopType, ChunksInFile, Delivered, Owned

LEMMA StepKeepsCache == ASSUME CpkCacheInv, CpkStep PROVE CpkCacheInv'
<1>1. CASE Copy
  BY <1>1, CopyStep DEF Copy
<1>2. CASE CpkLoadChunk
  BY <1>2, CpkLoadStep
<1>3. CASE CpkReadDirect
  BY <1>3, CpkDirectStep
<1>4. CASE OrigReadFails
  BY <1>4, CpkEndStep DEF OrigReadFails, Throw
<1>5. CASE Return
  BY <1>5, CpkEndStep DEF Return
<1>6. QED
  BY <1>1, <1>2, <1>3, <1>4, <1>5 DEF CpkStep

LEMMA NextCache == CpkCacheInv /\ [CpkNext]_cpkVars => CpkCacheInv'
<1> SUFFICES ASSUME CpkCacheInv, [CpkNext]_cpkVars PROVE CpkCacheInv'
  OBVIOUS
<1>1. CASE \E op \in {"pread", "chunk", "dump", "cstring"} : CpkCall(op)
  BY <1>1, CpkCallStep
<1>2. CASE CpkStep
  BY <1>2, StepKeepsCache
<1>3. CASE CpkDestroy
  BY <1>3, CpkDestroyStep
<1>4. CASE UNCHANGED cpkVars
  BY <1>4 DEF cpkVars, sourceVars, CpkCacheInv, CacheType, LoopType, ChunksInFile,
     Delivered, Owned
<1>5. CASE AssertFails
  BY <1>5, CpkAbortStep
<1>6. QED
  BY <1>1, <1>2, <1>3, <1>4, <1>5 DEF CpkNext

\* However reads fail, the chunks in memory are the cache's, each of one entry,
\* and a destroyed source leaves none.
THEOREM CpkChunksOwned == CpkSpec => []CacheOwnsChunks
<1>1. CpkInit => CpkCacheInv
  BY InitCache DEF CpkInit
<1>2. CpkCacheInv => CacheOwnsChunks
  BY DEF CpkCacheInv, Owned, CacheOwnsChunks
<1>3. QED
  BY <1>1, <1>2, NextCache, PTL DEF CpkSpec

\* No read takes a byte from behind the end of a chunk, although CpkSource may
\* keep a chunk under the wrong position.
THEOREM ReadsInsideChunks == CpkSpec => []InsideChunk
<1>1. CpkInit => CpkCacheInv
  BY InitCache DEF CpkInit
<1>2. CpkCacheInv => InsideChunk
  BY DEF CpkCacheInv, Delivered, InsideChunk
<1>3. QED
  BY <1>1, <1>2, NextCache, PTL DEF CpkSpec

-------------------------------------------------------------------------------
(* The handler *)

Handle == {"unset", "invalid", "loose", "cpk"}
Block == {"null", "import"}
Entry == [valid : BOOLEAN, handle : Handle, block : Block, size : Nat, pos : Nat]
OpenFiles == [what : {"import", "loose", "cpk"}, got : Nat]

SlotsType ==
  /\ entry_vect \in Seq(Entry)
  /\ open \in [DOMAIN open -> OpenFiles]
  /\ stage \in {"game", "import", "imported", "loose", "orig"}
  /\ index \in Nat

\* OpenFile has room for its file, and its source's slot is not the game's.
Opening ==
  /\ index # 0 => stage = "import"
  /\ index \notin DOMAIN open
  /\ stage # "game" => Cardinality(DOMAIN open) < MaxOpen

\* The inductive invariant.
SlotsInv ==
  SlotsType /\ Opening /\ SlotsInUse /\ VectorBounded /\ ReadsWhatWasOpened

-------------------------------------------------------------------------------
(* The slots *)

\* A free slot is a closed one or the next.
LEMMA FreeSlot ==
  ASSUME SlotsType, NEW i \in FreeSlots
  PROVE  /\ Len(entry_vect) \in Nat
         /\ i \in 1 .. Len(entry_vect) + 1
         /\ i \in Indices => ~entry_vect[i].valid
         /\ i \notin Indices => /\ i = Len(entry_vect) + 1
                                /\ \A j \in Indices : entry_vect[j].valid
BY DEF FreeSlots, SlotsType, Indices

\* The vector with an entry replaced or added is a vector.
LEMMA VectorWith ==
  ASSUME SlotsType, NEW i \in 1 .. Len(entry_vect) + 1, NEW e \in Entry
  PROVE  /\ WithEntry(i, e) \in Seq(Entry)
         /\ DOMAIN WithEntry(i, e) = Indices \union {i}
         /\ 1 .. Len(WithEntry(i, e)) = Indices \union {i}
         /\ Len(WithEntry(i, e)) =
              IF i \in Indices THEN Len(entry_vect) ELSE Len(entry_vect) + 1
         /\ WithEntry(i, e)[i] = e
         /\ \A j \in Indices \ {i} : WithEntry(i, e)[j] = entry_vect[j]
<1> DEFINE n == IF i \in Indices THEN Len(entry_vect) ELSE Len(entry_vect) + 1
<1>1. n \in Nat /\ Indices \union {i} = 1 .. n /\ Len(entry_vect) \in Nat
  BY DEF SlotsType, Indices
<1>2. \A j \in Indices : entry_vect[j] \in Entry
  BY DEF SlotsType, Indices
<1>3. WithEntry(i, e) \in [1 .. n -> Entry]
  BY <1>1, <1>2 DEF WithEntry
<1>4. WithEntry(i, e) \in Seq(Entry) /\ Len(WithEntry(i, e)) = n
  BY <1>1, <1>3
<1>5. /\ WithEntry(i, e)[i] = e
      /\ \A j \in Indices \ {i} : WithEntry(i, e)[j] = entry_vect[j]
  BY DEF WithEntry
<1>6. DOMAIN WithEntry(i, e) = Indices \union {i}
  BY DEF WithEntry
<1>7. QED
  BY <1>1, <1>4, <1>5, <1>6

\* What a slot holds before it is taken.
LEMMA OldEntry ==
  ASSUME SlotsType, NEW i \in 1 .. Len(entry_vect) + 1
  PROVE  EntryAt(i) \in Entry
<1>1. NewEntry \in Entry
  BY DEF NewEntry, Entry, Handle, Block
<1>2. CASE i \in Indices
  BY <1>2 DEF SlotsType, EntryAt, Indices
<1>3. CASE i \notin Indices
  BY <1>1, <1>3 DEF EntryAt
<1>4. QED
  BY <1>2, <1>3

\* If every slot is the game's, there are as many as it has files open.
LEMMA RoomForOne ==
  ASSUME SlotsInv, index = 0, Cardinality(DOMAIN open) < MaxOpen,
         NEW i \in FreeSlots, NEW e \in Entry
  PROVE  Len(WithEntry(i, e)) <= MaxOpen
<1>1. SlotsType
  BY DEF SlotsInv
<1>2. i \in 1 .. Len(entry_vect) + 1 /\ Len(entry_vect) \in Nat
  BY <1>1, FreeSlot
<1>3. CASE i \in Indices
  BY <1>1, <1>2, <1>3, VectorWith DEF SlotsInv, VectorBounded
<1>4. CASE i \notin Indices
  <2>1. \A j \in Indices : entry_vect[j].valid
    BY <1>1, <1>4, FreeSlot
  <2>2. DOMAIN open = 1 .. Len(entry_vect)
    BY <2>1 DEF SlotsInv, SlotsInUse, Indices
  <2>3. Cardinality(DOMAIN open) = Len(entry_vect)
    <3> DEFINE n == Len(entry_vect)
    <3>1. n \in Nat
      BY <1>2
    <3> HIDE DEF n
    <3>2. Cardinality(1 .. n) = IF 1 > n THEN 0 ELSE n - 1 + 1
      BY <3>1, FS_Interval
    <3>3. Cardinality(1 .. n) = n
      BY <3>1, <3>2
    <3>4. QED
      BY <2>2, <3>3 DEF n
  <2>4. Len(WithEntry(i, e)) = Len(entry_vect) + 1
    BY <1>1, <1>2, <1>4, VectorWith
  <2>5. QED
    BY <1>2, <2>3, <2>4, CpkHandlerAssumption
<1>5. QED
  BY <1>3, <1>4

\* The slots the game's functions and GetEntryVect fill.
LEMMA Filled ==
  ASSUME SlotsType, NEW i \in 1 .. Len(entry_vect) + 1
  PROVE  /\ OrigEntry(i) \in Entry /\ OrigEntry(i).valid /\ OrigEntry(i).pos = 0
         /\ Served(OrigEntry(i)) = "cpk"
         /\ ImportEntry(i) \in Entry /\ ImportEntry(i).valid /\ ImportEntry(i).pos = 0
         /\ Served(ImportEntry(i)) = "import"
         /\ LooseEntry(i) \in Entry /\ LooseEntry(i).valid /\ LooseEntry(i).pos = 0
         /\ Served(LooseEntry(i)) = "loose"
<1>1. EntryAt(i) \in Entry
  BY OldEntry
<1>2. FileSize \in Nat /\ ImportSize \in Nat /\ LooseSize \in Nat
  BY SourceAssumption, CpkHandlerAssumption
<1>3. GetEntryVect(i) \in Entry /\ GetEntryVect(i).valid /\ GetEntryVect(i).pos = 0
  BY <1>1 DEF GetEntryVect, Entry
<1>4. QED
  BY <1>1, <1>2, <1>3 DEF OrigEntry, ImportEntry, LooseEntry, Served, Entry, Handle, Block

-------------------------------------------------------------------------------
(* The steps *)

\* OpenFile gives the game a slot that was free.
LEMMA Answered ==
  ASSUME SlotsInv, index = 0, Cardinality(DOMAIN open) < MaxOpen,
         NEW i \in FreeSlots, NEW e \in Entry, NEW what \in {"import", "loose", "cpk"},
         e.valid, e.pos = 0, Served(e) = what, Answer(i, e, what)
  PROVE  SlotsInv'
<1>1. SlotsType /\ i \in 1 .. Len(entry_vect) + 1 /\ Len(entry_vect) \in Nat
  BY FreeSlot DEF SlotsInv
<1>2. i \in Indices => ~entry_vect[i].valid
  BY <1>1, FreeSlot
<1>3. /\ entry_vect' \in Seq(Entry)
      /\ entry_vect'[i] = e
      /\ \A j \in Indices \ {i} : entry_vect'[j] = entry_vect[j]
      /\ index' = 0 /\ stage' = "game"
  <2> DEFINE w == WithEntry(i, e)
  <2>1. entry_vect' = w /\ index' = 0 /\ stage' = "game"
    BY DEF Answer, handlerVars
  <2>2. /\ w \in Seq(Entry) /\ w[i] = e
        /\ \A j \in Indices \ {i} : w[j] = entry_vect[j]
    BY <1>1, VectorWith
  <2> HIDE DEF w
  <2>3. QED
    BY <2>1, <2>2
<1>4. Indices' = Indices \union {i}
  <2>1. entry_vect' = WithEntry(i, e)
    BY DEF Answer
  <2>2. Indices' = 1 .. Len(WithEntry(i, e))
    BY <2>1 DEF Indices
  <2>3. QED
    BY <1>1, <2>2, VectorWith
<1>5. /\ DOMAIN open' = DOMAIN open \union {i}
      /\ open'[i] = [what |-> what, got |-> 0]
      /\ \A j \in DOMAIN open \ {i} : open'[j] = open[j]
  BY DEF Answer
<1>6. SlotsType'
  <2>1. open' \in [DOMAIN open' -> OpenFiles]
    BY <1>1, <1>5 DEF Answer, SlotsType, OpenFiles
  <2>2. QED
    BY <1>3, <2>1 DEF SlotsType
<1>7. Opening'
  <2>1. \A j \in DOMAIN open : j \in Nat \ {0}
    BY <1>1 DEF SlotsInv, SlotsInUse, Indices
  <2>2. QED
    BY <1>1, <1>3, <1>5, <2>1 DEF Opening
<1>8. SlotsInUse'
  BY <1>2, <1>3, <1>4, <1>5 DEF SlotsInv, SlotsInUse
<1>9. VectorBounded'
  BY RoomForOne DEF Answer, VectorBounded
<1>10. ReadsWhatWasOpened'
  <2>1. e.pos <= e.size
    BY DEF Entry
  <2>2. \A j \in DOMAIN open \ {i} : j \in Indices
    BY DEF SlotsInv, SlotsInUse
  <2>3. \A j \in DOMAIN open' : j # i =>
          j \in DOMAIN open /\ entry_vect'[j] = entry_vect[j] /\ open'[j] = open[j]
    BY <1>3, <1>5, <2>2
  <2>4. QED
    BY <1>3, <1>5, <2>1, <2>3 DEF SlotsInv, ReadsWhatWasOpened, Served
<1>11. QED
  BY <1>6, <1>7, <1>8, <1>9, <1>10 DEF SlotsInv

\* GetSource takes a free slot for the source.
LEMMA SourceOpened ==
  ASSUME SlotsInv, GetSource
  PROVE  SlotsInv'
<1>1. PICK i \in FreeSlots : entry_vect' = WithEntry(i, OrigEntry(i)) /\ index' = i
  BY DEF GetSource
<1>2. index = 0
  BY DEF SlotsInv, Opening, GetSource
<1>3. SlotsType /\ i \in 1 .. Len(entry_vect) + 1 /\ Len(entry_vect) \in Nat
  BY FreeSlot DEF SlotsInv
<1>4. i \in Indices => ~entry_vect[i].valid
  BY <1>3, FreeSlot
<1>5. OrigEntry(i) \in Entry /\ OrigEntry(i).valid
  BY <1>3, Filled
<1>6. /\ entry_vect' \in Seq(Entry)
      /\ entry_vect'[i].valid
      /\ \A j \in Indices \ {i} : entry_vect'[j] = entry_vect[j]
  <2> DEFINE w == WithEntry(i, OrigEntry(i))
  <2>1. /\ w \in Seq(Entry) /\ w[i] = OrigEntry(i)
        /\ \A j \in Indices \ {i} : w[j] = entry_vect[j]
    BY <1>3, <1>5, VectorWith
  <2>2. entry_vect' = w
    BY <1>1
  <2> HIDE DEF w
  <2>3. QED
    BY <1>5, <2>1, <2>2
<1>7. Indices' = Indices \union {i}
  <2>1. Indices' = 1 .. Len(WithEntry(i, OrigEntry(i)))
    BY <1>1 DEF Indices
  <2>2. QED
    BY <1>3, <1>5, <2>1, VectorWith
<1>8. open' = open /\ stage' = "import" /\ Cardinality(DOMAIN open) < MaxOpen
  BY DEF GetSource
<1>9. \A j \in DOMAIN open : j # i /\ j \in Indices
  BY <1>2, <1>4 DEF SlotsInv, SlotsInUse
<1>10. SlotsType'
  BY <1>1, <1>3, <1>6, <1>8 DEF SlotsType
<1>11. Opening'
  BY <1>1, <1>8, <1>9 DEF Opening
<1>12. SlotsInUse'
  BY <1>1, <1>2, <1>3, <1>4, <1>6, <1>7, <1>8 DEF SlotsInv, SlotsInUse
<1>13. VectorBounded'
  BY <1>1, <1>2, <1>5, <1>8, RoomForOne DEF VectorBounded
<1>14. ReadsWhatWasOpened'
  <2>1. \A j \in DOMAIN open : entry_vect'[j] = entry_vect[j]
    BY <1>6, <1>9
  <2>2. QED
    BY <1>8, <2>1 DEF SlotsInv, ReadsWhatWasOpened, Served
<1>15. QED
  BY <1>10, <1>11, <1>12, <1>13, <1>14 DEF SlotsInv

\* A slot that is in use changes but for its valid flag, and no game's file is
\* given away.
LEMMA SourceStepped ==
  ASSUME SlotsInv, index # 0, NEW p \in Nat,
         entry_vect' = [entry_vect EXCEPT ![index].pos = p],
         UNCHANGED <<open, stage, index>>
  PROVE  SlotsInv'
<1>1. SlotsType /\ Len(entry_vect) \in Nat /\ Indices = 1 .. Len(entry_vect)
  BY DEF SlotsInv, SlotsType, Indices
<1>2. index \in Indices /\ index \notin DOMAIN open
  BY DEF SlotsInv, SlotsInUse, Opening
<1>3. entry_vect[index] \in Entry
  BY <1>1, <1>2 DEF SlotsType
<1> DEFINE e == [entry_vect[index] EXCEPT !.pos = p]
<1>5. e \in Entry /\ e.valid = entry_vect[index].valid
  BY <1>3 DEF Entry
<1>6. entry_vect' = [entry_vect EXCEPT ![index] = e]
  OBVIOUS
<1> HIDE DEF e
<1>7. entry_vect' \in Seq(Entry) /\ Len(entry_vect') = Len(entry_vect)
  BY <1>1, <1>2, <1>5, <1>6 DEF SlotsType
<1>8. /\ entry_vect'[index] = e
      /\ \A j \in Indices \ {index} : entry_vect'[j] = entry_vect[j]
  BY <1>1, <1>2, <1>6 DEF SlotsType
<1>9. Indices' = Indices
  BY <1>7 DEF Indices
<1>10. SlotsType' /\ Opening'
  BY <1>7 DEF SlotsInv, SlotsType, Opening
<1>11. SlotsInUse'
  BY <1>2, <1>5, <1>8, <1>9 DEF SlotsInv, SlotsInUse
<1>12. VectorBounded'
  BY <1>7 DEF SlotsInv, VectorBounded
<1>13. ReadsWhatWasOpened'
  <2>1. \A j \in DOMAIN open : entry_vect'[j] = entry_vect[j]
    BY <1>2, <1>8 DEF SlotsInv, SlotsInUse
  <2>2. QED
    BY <2>1 DEF SlotsInv, ReadsWhatWasOpened, Served
<1>14. QED
  BY <1>10, <1>11, <1>12, <1>13 DEF SlotsInv

\* OrigCloseFile of a slot: its other fields stay.
LEMMA Closed ==
  ASSUME SlotsType, NEW i \in Indices
  PROVE  /\ OrigClosed(i) \in Seq(Entry)
         /\ Len(OrigClosed(i)) = Len(entry_vect)
         /\ 1 .. Len(OrigClosed(i)) = Indices
         /\ ~OrigClosed(i)[i].valid
         /\ \A j \in Indices \ {i} : OrigClosed(i)[j] = entry_vect[j]
<1>1. i \in 1 .. Len(entry_vect) + 1 /\ entry_vect[i] \in Entry
  BY DEF SlotsType, Indices
<1> DEFINE e == [entry_vect[i] EXCEPT !.valid = FALSE]
<1>2. e \in Entry /\ ~e.valid
  BY <1>1 DEF Entry
<1>3. OrigClosed(i) = WithEntry(i, e)
  BY DEF OrigClosed
<1> HIDE DEF e
<1>4. Indices \union {i} = Indices
  OBVIOUS
<1> DEFINE w == WithEntry(i, e)
<1>5. /\ w \in Seq(Entry) /\ w[i] = e /\ Len(w) = Len(entry_vect)
      /\ 1 .. Len(w) = Indices
      /\ \A j \in Indices \ {i} : w[j] = entry_vect[j]
  BY <1>1, <1>2, <1>4, VectorWith
<1>6. OrigClosed(i) = w
  BY <1>3
<1> HIDE DEF w
<1>7. QED
  BY <1>2, <1>5, <1>6

\* The game closes a file.
LEMMA GameClosed ==
  ASSUME SlotsInv, CloseFile
  PROVE  SlotsInv'
<1>1. PICK i \in DOMAIN open : /\ entry_vect' = OrigClosed(i)
                              /\ open' = [j \in DOMAIN open \ {i} |-> open[j]]
  BY DEF CloseFile
<1>2. SlotsType /\ i \in Indices /\ index = 0 /\ stage = "game"
  BY DEF SlotsInv, SlotsInUse, Opening, CloseFile
<1>3. /\ entry_vect' \in Seq(Entry) /\ Len(entry_vect') = Len(entry_vect)
      /\ ~entry_vect'[i].valid
      /\ \A j \in Indices \ {i} : entry_vect'[j] = entry_vect[j]
  <2> DEFINE w == OrigClosed(i)
  <2>1. /\ w \in Seq(Entry) /\ Len(w) = Len(entry_vect) /\ ~w[i].valid
        /\ \A j \in Indices \ {i} : w[j] = entry_vect[j]
    BY <1>2, Closed
  <2>2. entry_vect' = w
    BY <1>1
  <2> HIDE DEF w
  <2>3. QED
    BY <2>1, <2>2
<1>4. Indices' = Indices
  BY <1>3 DEF Indices
<1>5. index' = 0 /\ stage' = "game"
  BY <1>2 DEF CloseFile
<1>6. /\ DOMAIN open' = DOMAIN open \ {i}
      /\ \A j \in DOMAIN open \ {i} : open'[j] = open[j]
  BY <1>1
<1>7. SlotsType' /\ Opening'
  <2>1. open' \in [DOMAIN open' -> OpenFiles]
    BY <1>1, <1>2, <1>6 DEF SlotsType
  <2>2. index' \notin DOMAIN open'
    BY <1>2, <1>5, <1>6 DEF SlotsInv, Opening
  <2>3. QED
    BY <1>3, <1>5, <2>1, <2>2 DEF SlotsType, Opening
<1>8. SlotsInUse'
  BY <1>2, <1>3, <1>4, <1>5, <1>6 DEF SlotsInv, SlotsInUse
<1>9. VectorBounded'
  BY <1>3 DEF SlotsInv, VectorBounded
<1>10. ReadsWhatWasOpened'
  <2>1. \A j \in DOMAIN open' : /\ j \in DOMAIN open
                                /\ entry_vect'[j] = entry_vect[j] /\ open'[j] = open[j]
    BY <1>2, <1>3, <1>6 DEF SlotsInv, SlotsInUse
  <2>2. QED
    BY <2>1 DEF SlotsInv, ReadsWhatWasOpened, Served
<1>11. QED
  BY <1>7, <1>8, <1>9, <1>10 DEF SlotsInv

\* The end of an import frees the source's slot and no other.
LEMMA ImportEnded ==
  ASSUME SlotsInv, NEW ok \in BOOLEAN, EndImport(ok)
  PROVE  SlotsInv'
<1>1. /\ stage = "import" /\ index' = 0 /\ open' = open
      /\ stage' \in {"imported", "loose"}
  BY DEF EndImport
<1>2. Cardinality(DOMAIN open') < MaxOpen /\ 0 \notin DOMAIN open'
  <2>1. 0 \notin Indices
    BY DEF Indices
  <2>2. 0 \notin DOMAIN open
    BY <2>1 DEF SlotsInv, SlotsInUse
  <2>3. QED
    BY <1>1, <2>2 DEF SlotsInv, Opening
<1>3. Opening'
  BY <1>1, <1>2 DEF Opening
<1>4. CASE index = 0
  <2>1. entry_vect' = entry_vect
    BY <1>4 DEF EndImport
  <2>2. QED
    BY <1>1, <1>3, <1>4, <2>1 DEF SlotsInv, SlotsType, SlotsInUse, VectorBounded,
         ReadsWhatWasOpened, Served, Indices
<1>5. CASE index # 0
  <2>1. SlotsType /\ index \in Indices /\ index \notin DOMAIN open
    BY <1>5 DEF SlotsInv, SlotsInUse, Opening
  <2>2. /\ entry_vect' \in Seq(Entry) /\ Len(entry_vect') = Len(entry_vect)
        /\ ~entry_vect'[index].valid
        /\ \A j \in Indices \ {index} : entry_vect'[j] = entry_vect[j]
    <3> DEFINE w == OrigClosed(index)
    <3>1. /\ w \in Seq(Entry) /\ Len(w) = Len(entry_vect) /\ ~w[index].valid
          /\ \A j \in Indices \ {index} : w[j] = entry_vect[j]
      BY <2>1, Closed
    <3>2. entry_vect' = w
      BY <1>5 DEF EndImport, Left
    <3> HIDE DEF w
    <3>3. QED
      BY <3>1, <3>2
  <2>3. Indices' = Indices
    BY <2>2 DEF Indices
  <2>4. SlotsType'
    BY <1>1, <2>1, <2>2 DEF SlotsType
  <2>5. SlotsInUse'
    BY <1>1, <2>1, <2>2, <2>3 DEF SlotsInv, SlotsInUse
  <2>6. VectorBounded'
    BY <2>2 DEF SlotsInv, VectorBounded
  <2>7. ReadsWhatWasOpened'
    <3>1. \A j \in DOMAIN open : entry_vect'[j] = entry_vect[j]
      BY <2>1, <2>2 DEF SlotsInv, SlotsInUse
    <3>2. QED
      BY <1>1, <3>1 DEF SlotsInv, ReadsWhatWasOpened, Served
  <2>8. QED
    BY <1>3, <2>4, <2>5, <2>6, <2>7 DEF SlotsInv
<1>6. QED
  BY <1>4, <1>5

\* The game reads: the slot's position and what the game has got move together.
LEMMA GameRead ==
  ASSUME SlotsInv, Read
  PROVE  SlotsInv'
<1>1. PICK i \in DOMAIN open, n \in ReadSizes :
        /\ entry_vect' =
             [entry_vect EXCEPT ![i].pos = @ + ReadSize(entry_vect[i], n)]
        /\ open' = [open EXCEPT ![i].got = @ + ReadSize(entry_vect[i], n)]
  BY DEF Read
<1>2. /\ SlotsType /\ i \in Indices /\ Indices = 1 .. Len(entry_vect)
      /\ index' = index /\ stage' = stage
  BY DEF SlotsInv, SlotsInUse, Indices, Read
<1>3. /\ entry_vect[i] \in Entry /\ n \in Nat /\ open[i] \in OpenFiles
      /\ entry_vect[i].pos <= entry_vect[i].size
      /\ entry_vect[i].pos = open[i].got
  BY <1>2, CpkHandlerAssumption DEF SlotsType, SlotsInv, ReadsWhatWasOpened
<1> DEFINE k == ReadSize(entry_vect[i], n)
           e == [entry_vect[i] EXCEPT !.pos = @ + k]
           o == [open[i] EXCEPT !.got = @ + k]
<1>4. k \in Nat /\ entry_vect[i].pos + k <= entry_vect[i].size
  BY <1>3 DEF ReadSize, Lower, Entry
<1>5. entry_vect' = [entry_vect EXCEPT ![i] = e] /\ open' = [open EXCEPT ![i] = o]
  BY <1>1
<1> HIDE DEF k
<1>6. /\ e \in Entry /\ e.valid = entry_vect[i].valid /\ Served(e) = Served(entry_vect[i])
      /\ e.pos <= e.size
      /\ o \in OpenFiles /\ o.what = open[i].what /\ e.pos = o.got
  BY <1>3, <1>4 DEF Entry, OpenFiles, Served
<1> HIDE DEF e, o
<1>7. /\ entry_vect' \in Seq(Entry) /\ Len(entry_vect') = Len(entry_vect)
      /\ entry_vect'[i] = e
      /\ \A j \in Indices \ {i} : entry_vect'[j] = entry_vect[j]
  BY <1>2, <1>5, <1>6 DEF SlotsType
<1>8. /\ DOMAIN open' = DOMAIN open /\ open'[i] = o
      /\ open' \in [DOMAIN open -> OpenFiles]
      /\ \A j \in DOMAIN open \ {i} : open'[j] = open[j]
  BY <1>2, <1>5, <1>6 DEF SlotsType
<1>9. Indices' = Indices
  BY <1>7 DEF Indices
<1>10. SlotsType' /\ Opening'
  BY <1>2, <1>7, <1>8 DEF SlotsInv, SlotsType, Opening
<1>11. SlotsInUse'
  BY <1>2, <1>6, <1>7, <1>8, <1>9 DEF SlotsInv, SlotsInUse
<1>12. VectorBounded'
  BY <1>7 DEF SlotsInv, VectorBounded
<1>13. ReadsWhatWasOpened'
  <2>1. Served(entry_vect'[i]) = open'[i].what /\ entry_vect'[i].pos = open'[i].got
        /\ entry_vect'[i].pos <= entry_vect'[i].size
    BY <1>6, <1>7, <1>8 DEF SlotsInv, ReadsWhatWasOpened
  <2>2. \A j \in DOMAIN open' \ {i} : /\ j \in DOMAIN open
                                     /\ entry_vect'[j] = entry_vect[j] /\ open'[j] = open[j]
    BY <1>7, <1>8 DEF SlotsInv, SlotsInUse
  <2>3. QED
    BY <2>1, <2>2 DEF SlotsInv, ReadsWhatWasOpened, Served
<1>14. QED
  BY <1>10, <1>11, <1>12, <1>13 DEF SlotsInv

\* A step that leaves the slots alone and only goes on with OpenFile.
LEMMA WentOn ==
  ASSUME SlotsInv, UNCHANGED <<entry_vect, open, index>>,
         stage' \in {"game", "import", "imported", "loose", "orig"},
         index # 0 => stage' = "import",
         stage' # "game" => Cardinality(DOMAIN open) < MaxOpen
  PROVE  SlotsInv'
BY DEF SlotsInv, SlotsType, Opening, SlotsInUse, VectorBounded, ReadsWhatWasOpened,
       Served, Indices

-------------------------------------------------------------------------------
(* The theorems *)

LEMMA InitSlots == HandlerInit => SlotsInv
<1> SUFFICES ASSUME HandlerInit PROVE SlotsInv
  OBVIOUS
<1>1. entry_vect = <<>> /\ Len(entry_vect) = 0 /\ Indices = {}
  BY DEF HandlerInit, Indices
<1>2. DOMAIN open = {} /\ stage = "game" /\ index = 0
  BY DEF HandlerInit
<1>3. SlotsType
  BY <1>1, <1>2 DEF SlotsType, HandlerInit
<1>4. QED
  BY <1>1, <1>2, <1>3, CpkHandlerAssumption DEF SlotsInv, Opening, SlotsInUse,
     VectorBounded, ReadsWhatWasOpened

\* Where CpkSource leaves the position is a number.
LEMMA PosIsNat ==
  ASSUME CpkCacheInv, at < FileSize, NEW n \in Nat
  PROVE  PosAfter(n) \in Nat
<1>1. at \in Nat /\ ChunkOffset(at) \in Nat
  BY PartOfChunk DEF CpkCacheInv, LoopType
<1>2. QED
  BY <1>1 DEF PosAfter

\* What the source does to the slots.
LEMMA SourceSteps ==
  ASSUME SlotsInv, CpkCacheInv, SourceRead \/ SourceFails
  PROVE  SlotsInv'
<1>1. index # 0 /\ UNCHANGED <<open, stage, index>>
  BY DEF SourceRead, SourceFails
<1>2. /\ Running /\ at \in Nat /\ at < FileSize /\ at < call.upto /\ call.upto \in Nat
  BY SourceAssumption DEF SourceRead, SourceFails, CpkLoadChunk, CpkReadDirect, OrigReadFails,
     InPread, Running, CpkCacheInv, LoopType, Calls
<1>3. CASE SourceRead
  <2> DEFINE n == IF TooLong THEN call.upto - at ELSE ChunkSize(at)
  <2>1. n \in Nat
    BY <1>2, PartOfChunk
  <2>2. entry_vect' = [entry_vect EXCEPT ![index].pos = PosAfter(n)]
    BY <1>3 DEF SourceRead
  <2> HIDE DEF n
  <2>3. PosAfter(n) \in Nat
    BY <1>2, <2>1, PosIsNat
  <2>4. QED
    BY <1>1, <2>2, <2>3, SourceStepped
<1>4. CASE SourceFails
  <2>1. entry_vect' = [entry_vect EXCEPT ![index].pos = PosAfter(0)]
    BY <1>4 DEF SourceFails
  <2>2. PosAfter(0) \in Nat
    BY <1>2, PosIsNat
  <2>3. QED
    BY <1>1, <2>1, <2>2, SourceStepped
<1>5. QED
  BY <1>3, <1>4

LEMMA NextSlots ==
  ASSUME SlotsInv, CpkCacheInv, [HandlerNext]_handlerVars
  PROVE  SlotsInv'
<1>1. CASE OpenTxtFile
  BY <1>1, WentOn DEF OpenTxtFile, Goto, SlotsInv, Opening
<1>2. CASE GetSource
  BY <1>2, SourceOpened
<1>3. CASE SourceCall \/ SourceStep
  BY <1>3, WentOn DEF SourceCall, SourceStep, SlotsInv, SlotsType, Opening
<1>4. CASE EndImport(TRUE) \/ EndImport(FALSE)
  BY <1>4, ImportEnded
<1>5. CASE Imported
  <2>1. PICK i \in FreeSlots : Answer(i, ImportEntry(i), "import")
    BY <1>5 DEF Imported, FirstFree
  <2>2. index = 0 /\ Cardinality(DOMAIN open) < MaxOpen /\ SlotsType
    BY <1>5 DEF Imported, SlotsInv, Opening
  <2>3. QED
    BY <2>1, <2>2, Answered, Filled, FreeSlot
<1>6. CASE OpenFsFile
  <2>1. index = 0 /\ Cardinality(DOMAIN open) < MaxOpen /\ SlotsType
    BY <1>6 DEF OpenFsFile, SlotsInv, Opening
  <2>2. CASE Goto("orig")
    BY <2>1, <2>2, WentOn DEF Goto
  <2>3. CASE \E i \in FirstFree : Answer(i, LooseEntry(i), "loose")
    <3>1. PICK i \in FreeSlots : Answer(i, LooseEntry(i), "loose")
      BY <2>3 DEF FirstFree
    <3>2. QED
      BY <2>1, <3>1, Answered, Filled, FreeSlot
  <2>4. QED
    BY <1>6, <2>2, <2>3 DEF OpenFsFile
<1>7. CASE OrigOpenFile
  <2>1. index = 0 /\ Cardinality(DOMAIN open) < MaxOpen /\ SlotsType
    BY <1>7 DEF OrigOpenFile, SlotsInv, Opening
  <2>2. CASE Goto("game")
    BY <2>1, <2>2, WentOn DEF Goto
  <2>3. CASE \E i \in FreeSlots : Answer(i, OrigEntry(i), "cpk")
    <3>1. PICK i \in FreeSlots : Answer(i, OrigEntry(i), "cpk")
      BY <2>3
    <3>2. QED
      BY <2>1, <3>1, Answered, Filled, FreeSlot
  <2>4. QED
    BY <1>7, <2>2, <2>3 DEF OrigOpenFile
<1>8. CASE Read
  BY <1>8, GameRead
<1>9. CASE CloseFile
  BY <1>9, GameClosed
<1>10. CASE UNCHANGED handlerVars
  BY <1>10, WentOn DEF handlerVars, SlotsInv, SlotsType, Opening
<1>11. CASE SourceRead \/ SourceFails
  BY <1>11, SourceSteps
<1>12. QED
  BY <1>1, <1>2, <1>3, <1>4, <1>5, <1>6, <1>7, <1>8, <1>9, <1>10, <1>11 DEF HandlerNext

\* An import's source is a CpkSource, and a new one begins where the last ended.
LEMMA NextSource ==
  ASSUME CpkCacheInv, SlotsInv, [HandlerNext]_handlerVars
  PROVE  CpkCacheInv'
<1>1. CASE UNCHANGED cpkVars
  BY <1>1, NextCache
<1>2. CASE GetSource
  BY <1>2 DEF GetSource, CpkCacheInv, CacheType, LoopType, ChunksInFile, Delivered, Owned
<1>3. CASE SourceCall \/ SourceRead \/ SourceFails \/ SourceStep
  <2>1. Ops \subseteq {"pread", "chunk", "dump", "cstring"}
    BY CpkHandlerAssumption
  <2>2. (\E op \in {"pread", "chunk", "dump", "cstring"} : CpkCall(op))
          \/ CpkLoadChunk \/ CpkReadDirect \/ OrigReadFails \/ Copy \/ Return
          \/ AssertFails
    BY <1>3, <2>1 DEF SourceCall, SourceRead, SourceFails, SourceStep
  <2>3. QED
    BY <2>2, CpkCallStep, CopyStep, CpkLoadStep, CpkDirectStep, CpkEndStep,
       CpkAbortStep
    DEF Copy, OrigReadFails, Throw, Return
<1>4. CASE EndImport(TRUE) \/ EndImport(FALSE)
  BY <1>1, <1>4, CpkDestroyStep DEF EndImport
<1>5. CASE OpenTxtFile \/ Imported \/ OpenFsFile \/ OrigOpenFile \/ Read \/ CloseFile
  BY <1>1, <1>5 DEF OpenTxtFile, Imported, OpenFsFile, OrigOpenFile, Read, CloseFile,
     Answer, Goto
<1>6. CASE UNCHANGED handlerVars
  BY <1>1, <1>6 DEF handlerVars
<1>7. QED
  BY <1>2, <1>3, <1>4, <1>5, <1>6 DEF HandlerNext

LEMMA HandlerInvariant == HandlerSpec => [](SlotsInv /\ CpkCacheInv)
<1>1. HandlerInit => SlotsInv /\ CpkCacheInv
  BY InitSlots, InitCache DEF HandlerInit
<1>2. SlotsInv /\ CpkCacheInv /\ [HandlerNext]_handlerVars => (SlotsInv /\ CpkCacheInv)'
  BY NextSlots, NextSource
<1>3. QED
  BY <1>1, <1>2, PTL DEF HandlerSpec

\* Every slot in use is a file the game has open or an import's source: an
\* import that fails gives its slot back, wherever it fails.
THEOREM NoSlotLost == HandlerSpec => []SlotsInUse
<1>1. SlotsInv => SlotsInUse
  BY DEF SlotsInv
<1>2. QED
  BY <1>1, HandlerInvariant, PTL

\* entry_vect never has more slots than the game has files open at a time.
THEOREM NoSlotTooMany == HandlerSpec => []VectorBounded
<1>1. SlotsInv => VectorBounded
  BY DEF SlotsInv
<1>2. QED
  BY <1>1, HandlerInvariant, PTL

\* A file is read from what OpenFile found for it, from its beginning and inside
\* its size, whatever the slot held before.
THEOREM ReadsOpened == HandlerSpec => []ReadsWhatWasOpened
<1>1. SlotsInv => ReadsWhatWasOpened
  BY DEF SlotsInv
<1>2. QED
  BY <1>1, HandlerInvariant, PTL

\* Imports leak no chunk, whichever of their reads fails.
THEOREM ImportChunksOwned == HandlerSpec => []CacheOwnsChunks
<1>1. CpkCacheInv => CacheOwnsChunks
  BY DEF CpkCacheInv, Owned, CacheOwnsChunks
<1>2. QED
  BY <1>1, HandlerInvariant, PTL
===============================================================================
