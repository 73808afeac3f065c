------------------------------ MODULE CpkSource ------------------------------
(***************************************************************************)
(* CpkSource (windows_server/cpk.cpp), the provider that reads a file of   *)
(* the running game through the game's own CpkHandler: chunks of CPK_CHUNK *)
(* bytes (128 MiB, so that most files are one chunk), read into the heap.  *)
(* Its Pread does not look a chunk up again once it has started, and       *)
(* pushes each under the position it was asked for.                        *)
(***************************************************************************)
EXTENDS Source

CONSTANT
  HeaderFirst   \* the client is OpenTxtFile: it begins with Pread(0, hdr_buf, 4),
                \* and an exception ends its use of the source

ASSUME CpkSourceAssumption == HeaderFirst \in BOOLEAN

VARIABLE
  opened        \* a call was made

cpkVars == <<sourceVars, opened>>

NoReply == [ok |-> TRUE, bytes |-> NoBytes]

\* Nothing is cached and nothing was called.
InitIn(p) ==
  /\ lru = [i \in Slot |-> Empty]
  /\ mem = [b \in Addr |-> Free]
  /\ phase = p
  /\ call = NoCall
  /\ at = 0
  /\ buf = NoBytes
  /\ reply = NoReply
  /\ opened = FALSE

CpkInit == InitIn("idle")

\* Control is in Pread, or gets there.
InPread == Running /\ ~TooLong /\ (phase = "provider" \/ Missing(at))

\* Mutant: the chunk is taken to begin at the position asked for.
ToCopyMutant == Lower(call.upto - at, ChunkSize(at))

\* What a Pread call takes of a chunk just read, and those bytes, which are Huge
\* behind the end of the chunk.
ToCopy == Lower(call.upto - at, ChunkSize(at) - (at % Chunk))
Copied(m, a) ==
  [i \in 0 .. ToCopy - 1 |->
     LET k == (at % Chunk) + i IN IF k < m[a].len THEN m[a].from + k ELSE Huge]

Pushed(a) == LruPush(a, at, ChunkSize(at))

\* One iteration of Pread.  A Pread call copies out of cbuf; GetTemporaryEntry
\* copies nothing, and its caller takes the bytes of the entry.
CpkLoadChunk ==
  /\ InPread
  /\ \E a \in Addr :
       /\ mem[a] = Free
       /\ mem' = [DeletedLast EXCEPT ![a] = [from |-> ChunkOffset(at), len |-> ChunkSize(at)]]
       /\ lru' = Pushed(a)
       /\ IF phase = "chunks"
          THEN Deliver(Content(mem', lru'[0]), Taken(lru'[0]))
          ELSE Deliver(Copied(mem', a), ToCopy)
  /\ phase' = IF phase = "source" THEN "provider" ELSE phase
  /\ UNCHANGED <<call, reply, opened>>

\* OrigRead into the caller's buffer, past the cache.
CpkReadDirect ==
  /\ Running /\ TooLong
  /\ Missing(at)
  /\ LET n == call.upto - at IN Deliver([i \in 0 .. n - 1 |-> at + i], n)
  /\ UNCHANGED <<lru, mem, phase, call, reply, opened>>

\* OrigRead fails: cbuf is freed and nothing else has changed.
OrigReadFails ==
  /\ InPread \/ (Running /\ TooLong /\ Missing(at))
  /\ Throw
  /\ UNCHANGED <<lru, mem, opened>>

CpkCall(op) ==
  /\ \E from, upto \in 0 .. FileSize :
       /\ Begin(op, from, upto)
       /\ HeaderFirst => /\ reply.ok
                         /\ ~opened => op = "pread" /\ from = 0 /\ upto > 0
  /\ opened' = TRUE

\* Pread_ answers a hit itself.
Copy == phase # "provider" /\ CopyCached

\* ~CpkSource deletes every entry's chunk; OrigCloseFile is the game's.
CpkDestroy ==
  /\ phase = "idle"
  /\ phase' = "destroyed"
  /\ mem' = [a \in Addr |-> IF \E i \in Slot : lru[i].ptr = a THEN Free ELSE mem[a]]
  /\ lru' = [i \in Slot |-> Empty]
  /\ reply' = NoReply
  /\ opened' = FALSE
  /\ UNCHANGED <<call, at, buf>>

CpkStep ==
  \/ Copy /\ UNCHANGED opened
  \/ CpkLoadChunk
  \/ CpkReadDirect
  \/ OrigReadFails
  \/ Return /\ UNCHANGED opened

CpkNext ==
  \/ CpkCall("pread")
  \/ CpkCall("chunk")
  \/ CpkCall("dump")
  \/ CpkCall("cstring")
  \/ CpkStep
  \/ AssertFails /\ UNCHANGED opened
  \/ CpkDestroy

CpkSpec == CpkInit /\ [][CpkNext]_cpkVars

-------------------------------------------------------------------------------
(* Properties *)

\* What a call delivers is what the file has there.
DeliversFile == \A i \in DOMAIN buf : buf[i] = call.from + i

\* Every byte a call takes is inside the chunk it is taken from: an entry under
\* the wrong position gives the wrong bytes, but never memory behind its chunk.
InsideChunk == \A i \in DOMAIN buf : buf[i] # Huge
===============================================================================
