------------------------------- MODULE MmapSink -------------------------------
(***************************************************************************)
(* MmapSink (sink.cpp): a Sink whose buffer is a window of the file mapped *)
(* into memory.  The file has its full size, zero filled, from the start.  *)
(* A file smaller than MMAP_LIMIT is one window; otherwise the window is   *)
(* MMAP_CHUNK bytes and moves when it is full.  With Size < Limit this is  *)
(* MemorySink too (sink.hpp): a caller's buffer as the only window, and    *)
(* Write_ and Pad_ unreachable.                                            *)
(***************************************************************************)
EXTENDS Sink

CONSTANTS
  Chunk,     \* MMAP_CHUNK
  Limit      \* MMAP_LIMIT

ASSUME MmapSinkAssumption ==
  /\ Chunk \in Nat \ {0}
  /\ Limit \in Nat
  /\ Chunk <= Limit

VARIABLE
  mapped     \* buf is not null: the window [offset, offset + buf_size) is mapped

vars == <<offset, buf_put, buf_size, mapped, file, status, sent, told>>

FirstWindow == IF Size < Limit THEN Size ELSE Chunk

\* The constructor.  A failure here is ToFile's business, which falls back to
\* a SimpleSink.
Init ==
  /\ offset = 0
  /\ buf_put = 0
  /\ buf_size = FirstWindow
  /\ mapped = TRUE
  /\ file = [p \in Pos |-> Zero]
  /\ status = "open"
  /\ sent = [p \in Pos |-> Zero]
  /\ told = 0

\* Mutant: a window past the end.
WindowSizeMutant(off) == Chunk

MoreFile(off) == off < Size
WindowSize(off) == Lower(Chunk, Size - off)

\* Mutant: the window's first len bytes are not counted.
MapNextMutant(off, put, len) ==
  /\ offset' = off
  /\ mapped' = MoreFile(off)
  /\ buf_put' = IF MoreFile(off) THEN 0 ELSE put
  /\ buf_size' = IF MoreFile(off) THEN WindowSize(off) ELSE buf_size

\* MapNext(len) after offset became off and buf_put became put: the next window
\* starts with len bytes in use, or there is none and buf is null.
MapNext(off, put, len) ==
  /\ offset' = off
  /\ mapped' = MoreFile(off)
  /\ buf_put' = IF MoreFile(off) THEN len ELSE put
  /\ buf_size' = IF MoreFile(off) THEN WindowSize(off) ELSE buf_size

\* io.Mmap throws: the old window stays, with the new offset.
MapNextThrows(off, put) ==
  /\ MoreFile(off)
  /\ offset' = off
  /\ buf_put' = put
  /\ status' = "failed"
  /\ UNCHANGED <<buf_size, mapped>>

-------------------------------------------------------------------------------
(* Write and Pad *)

\* The inline half of Write writes through the window into the file.
WriteInWindow(data, n) ==
  /\ n <= Room
  /\ file' = Copy(file, Tell, data, 0, n)
  /\ buf_put' = buf_put + n
  /\ Acknowledge(data, n)
  /\ UNCHANGED <<offset, buf_size, mapped, status>>

\* The whole chunks Write_ sends to io.Pwrite instead of through a window.
Direct(len) == (len \div Chunk) * Chunk

\* Mutant: the next window begins where this one does.
PastWindowMutant == offset

\* The window is full when Write_ and Pad_ are entered, and offset passes it.
PastWindow == offset + buf_size

\* buf_put when MapNext is entered: reset only if something was written directly.
PutBeforeMap(to_write) == IF to_write > 0 THEN 0 ELSE buf_size

\* The file once the window is topped up and k more bytes were written directly.
TailAndDirect(data, k) ==
  Copy(Copy(file, Tell, data, 0, Room), PastWindow, data, Room, k)

\* MmapSink::Write_ for the n - Room bytes that did not fit: whole chunks go
\* straight to the file, what is left goes through the next window.
Write_(data, n) ==
  LET to_write == Direct(n - Room)
      off      == PastWindow + to_write
      rest     == n - Room - to_write IN
  /\ MapNext(off, PutBeforeMap(to_write), rest)
  /\ file' = Copy(TailAndDirect(data, to_write), off, data, Room + to_write, rest)
  /\ Acknowledge(data, n)
  /\ UNCHANGED status

\* io.Pwrite throws after k bytes, or mapping the next window does.
WriteThrows(data, n) ==
  LET to_write == Direct(n - Room) IN
  /\ \/ /\ \E k \in 0 .. to_write - 1 : file' = TailAndDirect(data, k)
        /\ offset' = PastWindow
        /\ buf_put' = buf_size
        /\ status' = "failed"
        /\ UNCHANGED <<buf_size, mapped>>
     \/ /\ file' = TailAndDirect(data, to_write)
        /\ MapNextThrows(PastWindow + to_write, PutBeforeMap(to_write))
  /\ UNCHANGED <<sent, told>>

PadInWindow(n) ==
  /\ n <= Room
  /\ file' = Copy(file, Tell, Zeros(n), 0, n)
  /\ buf_put' = buf_put + n
  /\ Acknowledge(Zeros(n), n)
  /\ UNCHANGED <<offset, buf_size, mapped, status>>

\* MmapSink::Pad_ zeroes nothing: it skips whole chunks, then maps a window and
\* counts its first bytes as written, since the file is zero there.
Pad_(n) ==
  /\ MapNext(PastWindow + Direct(n - Room), buf_size, (n - Room) % Chunk)
  /\ file' = Copy(file, Tell, Zeros(n), 0, Room)
  /\ Acknowledge(Zeros(n), n)
  /\ UNCHANGED status

PadThrows(n) ==
  /\ file' = Copy(file, Tell, Zeros(n), 0, Room)
  /\ MapNextThrows(PastWindow + Direct(n - Room), buf_size)
  /\ UNCHANGED <<sent, told>>

Write(data, n) ==
  /\ Admitted(n)
  /\ \/ WriteInWindow(data, n)
     \/ /\ n > Room
        /\ Write_(data, n) \/ WriteThrows(data, n)

\* Pad_ leaves buf_put as it was when it skips to the end of the file.
MiscountsEnd(n) == n > Room /\ PastWindow + Direct(n - Room) = Size

Pad(n) ==
  /\ Admitted(n)
  /\ SafePads => ~MiscountsEnd(n)
  /\ \/ PadInWindow(n)
     \/ /\ n > Room
        /\ Pad_(n) \/ PadThrows(n)

\* The destructor unmaps; Flush has nothing to do.
Destroy ==
  /\ status \in {"open", "failed"}
  /\ status' = IF status = "open" THEN "closed" ELSE "abandoned"
  /\ UNCHANGED <<offset, buf_put, buf_size, mapped, file, sent, told>>

Next ==
  \/ \E n \in 1 .. MaxWrite : \E data \in Data(n) : Write(data, n)
  \/ \E n \in 1 .. MaxPad : Pad(n)
  \/ Destroy

Spec == Init /\ [][Next]_vars

-------------------------------------------------------------------------------
(* Properties *)

\* Every variable has its type.
TypeOK ==
  /\ offset \in Nat
  /\ buf_put \in Nat
  /\ buf_size \in 1 .. Size
  /\ mapped \in BOOLEAN
  /\ file \in [Pos -> Byte]
  /\ status \in {"open", "failed", "closed", "abandoned"}
  /\ sent \in [Pos -> Byte]
  /\ told \in Nat

\* The window is inside the file, so no memcpy or memset through it can touch
\* memory behind the mapping, and nothing is counted in a window that is gone.
WindowInFile ==
  status = "open" =>
    /\ buf_put <= buf_size
    /\ IF mapped THEN offset + buf_size <= Size ELSE offset = Size /\ buf_put = 0

\* The file is the stream so far followed by zeros: what Pad_ skips without
\* writing is zero because nothing was ever written ahead of the position.
StreamThenZeros ==
  status = "open" => \A p \in Pos : file[p] = IF p < Tell THEN sent[p] ELSE Zero

\* The bytes of calls that returned are in the file whatever throws later.
AcknowledgedInFile == \A p \in 0 .. told - 1 : file[p] = sent[p]

\* The assertions at the head of Write_ and Pad_, and the assertion in MapNext:
\* whenever a call the size check admits overruns the buffer, the window is a
\* full chunk with more file behind it, and the next window has room for what
\* is left.  Where the whole file is one window (a small file, a MemorySink)
\* no admitted call overruns it.
SpillAsserts ==
  \A n \in 1 .. Size :
    Admitted(n) /\ n > Room =>
      /\ PastWindow < Size
      /\ buf_size = Chunk
      /\ (n - Room) % Chunk <= Size - (PastWindow + Direct(n - Room))
      /\ Size >= Limit

\* The sink implements the byte stream its clients rely on.
Stream == INSTANCE ByteStream WITH
  tell <- Tell, out <- file, MaxLen <- IF MaxWrite >= MaxPad THEN MaxWrite ELSE MaxPad

ImplementsByteStream == Stream!Spec
===============================================================================
