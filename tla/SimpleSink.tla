------------------------------ MODULE SimpleSink ------------------------------
(***************************************************************************)
(* SimpleSink (sink.cpp): a Sink that collects MEM_CHUNK bytes in a buffer *)
(* of its own and appends full buffers to a file it never seeks in.  Any   *)
(* io.Write can throw; the exception leaves the member function where it   *)
(* is, so what was assigned before stays assigned, and the destructor      *)
(* then flushes whatever buf and buf_put say.                              *)
(***************************************************************************)
EXTENDS Sink

CONSTANTS
  Chunk,      \* MEM_CHUNK
  Junk        \* what the uninitialised buffer holds

ASSUME SimpleSinkAssumption ==
  /\ Chunk \in Nat \ {0}
  /\ Junk \notin Byte

VARIABLES
  buf,        \* SimpleSink::buf
  wpos,       \* where the next io.Write appends
  torn        \* history: an io.Write that threw had appended a part

vars == <<offset, buf_put, buf_size, buf, file, wpos, torn, status, sent, told>>

\* A failed call and the destructor can append up to a buffer more than Size.
FilePos == 0 .. Size + Chunk - 1
BufPos == 0 .. Chunk - 1

Init ==
  /\ offset = 0
  /\ buf_put = 0
  /\ buf_size = Chunk
  /\ buf = [i \in BufPos |-> Junk]
  /\ file = [p \in FilePos |-> Junk]
  /\ wpos = 0
  /\ torn = FALSE
  /\ status = "open"
  /\ sent = [p \in Pos |-> Zero]
  /\ told = 0

-------------------------------------------------------------------------------
(* io.Write, external: LowIo appends n bytes or throws. *)

IoWrite(data, from, n) ==
  /\ file' = Copy(file, wpos, data, from, n)
  /\ wpos' = wpos + n

\* io.Write(buf, MEM_CHUNK) of the topped up buffer, then io.Write of the rest.
IoWriteBoth(full, data, from, n) ==
  /\ file' = Copy(Copy(file, wpos, full, 0, Chunk), wpos + Chunk, data, from, n)
  /\ wpos' = wpos + Chunk + n

\* An io.Write throws after k bytes.
Tear(k) == torn' = (torn \/ k > 0)

-------------------------------------------------------------------------------
(* Write and Pad *)

\* The inline half, when everything fits in the buffer.
PutInBuffer(data, n) ==
  /\ n <= Room
  /\ buf' = Copy(buf, buf_put, data, 0, n)
  /\ buf_put' = buf_put + n
  /\ Acknowledge(data, n)
  /\ UNCHANGED <<offset, buf_size, file, wpos, torn, status>>

\* The inline half, when it does not: the buffer after the top up.
ToppedUp(data) == Copy(buf, buf_put, data, 0, Room)

\* Write_ and Pad_ begin by writing the full buffer; that throws.
SpillThrows(data) ==
  /\ \E k \in 0 .. Chunk - 1 : IoWrite(ToppedUp(data), 0, k) /\ Tear(k)
  /\ buf' = ToppedUp(data)
  /\ buf_put' = Chunk
  /\ status' = "failed"
  /\ UNCHANGED <<offset, buf_size, sent, told>>

\* Mutant: the bytes written past the buffer are not counted.
AfterSpillMutant(len) == offset + Chunk

\* offset after Write_, whose len bytes go to the file when they fill a buffer.
AfterSpill(len) == IF len >= Chunk THEN offset + Chunk + len ELSE offset + Chunk

\* SimpleSink::Write_ for the n - Room bytes the buffer did not take.
Write_(data, n) ==
  /\ offset' = AfterSpill(n - Room)
  /\ IF n - Room >= Chunk
     THEN /\ IoWriteBoth(ToppedUp(data), data, Room, n - Room)
          /\ buf' = ToppedUp(data)
          /\ buf_put' = 0
     ELSE /\ IoWrite(ToppedUp(data), 0, Chunk)
          /\ buf' = Copy(ToppedUp(data), 0, data, Room, n - Room)
          /\ buf_put' = n - Room
  /\ Acknowledge(data, n)
  /\ UNCHANGED <<buf_size, torn, status>>

\* The second io.Write of Write_ throws: offset has moved, buf_put has not.
WriteRestThrows(data, n) ==
  /\ n - Room >= Chunk
  /\ \E k \in 0 .. n - Room - 1 : IoWriteBoth(ToppedUp(data), data, Room, k) /\ Tear(k)
  /\ offset' = offset + Chunk
  /\ buf' = ToppedUp(data)
  /\ buf_put' = Chunk
  /\ status' = "failed"
  /\ UNCHANGED <<buf_size, sent, told>>

\* The whole buffers of zeros the loop of Pad_ writes, i from MEM_CHUNK while
\* i < len: one short of len / MEM_CHUNK when len is a multiple of it.
PadChunks(len) == (len - 1) \div Chunk

\* SimpleSink::Pad_ for the n - Room zeros the buffer did not take.
Pad_(n) ==
  LET len  == n - Room
      full == ToppedUp(Zeros(n)) IN
  /\ IF len >= Chunk
     THEN /\ IoWriteBoth(full, Zeros(n), 0, PadChunks(len) * Chunk)
          /\ offset' = offset + Chunk + PadChunks(len) * Chunk
          /\ buf' = Zeros(Chunk)
     ELSE /\ IoWrite(full, 0, Chunk)
          /\ offset' = offset + Chunk
          /\ buf' = Copy(full, 0, Zeros(n), 0, len)
  /\ buf_put' = len % Chunk
  /\ Acknowledge(Zeros(n), n)
  /\ UNCHANGED <<buf_size, torn, status>>

\* An io.Write of Pad_'s loop throws, after m buffers of zeros.
PadLoopThrows(n) ==
  LET full == ToppedUp(Zeros(n)) IN
  /\ n - Room >= Chunk
  /\ \E m \in 0 .. PadChunks(n - Room) - 1, k \in 0 .. Chunk - 1 :
       IoWriteBoth(full, Zeros(n), 0, m * Chunk + k) /\ Tear(k)
  /\ offset' = offset + Chunk
  /\ buf' = Zeros(Chunk)
  /\ buf_put' = Chunk
  /\ status' = "failed"
  /\ UNCHANGED <<buf_size, sent, told>>

Write(data, n) ==
  /\ Admitted(n)
  /\ \/ PutInBuffer(data, n)
     \/ /\ n > Room
        /\ \/ Write_(data, n)
           \/ SpillThrows(data)
           \/ WriteRestThrows(data, n)

\* Pad_ loses a chunk when what is left to it is a multiple of Chunk.
LosesChunk(n) == n > Room /\ (n - Room) % Chunk = 0

Pad(n) ==
  /\ Admitted(n)
  /\ SafePads => ~LosesChunk(n)
  /\ \/ PutInBuffer(Zeros(n), n)
     \/ /\ n > Room
        /\ \/ Pad_(n)
           \/ SpillThrows(Zeros(n))
           \/ PadLoopThrows(n)

-------------------------------------------------------------------------------
(* Flush and the destructor *)

\* Mutants: buf_put is not reset; offset is not advanced.
FlushOkMutant1 ==
  /\ IoWrite(buf, 0, buf_put)
  /\ offset' = offset + buf_put
  /\ UNCHANGED <<buf_put, torn>>
FlushOkMutant2 ==
  /\ IoWrite(buf, 0, buf_put)
  /\ UNCHANGED <<offset, torn>>
  /\ buf_put' = 0

FlushOk ==
  /\ IoWrite(buf, 0, buf_put)
  /\ offset' = offset + buf_put
  /\ buf_put' = 0
  /\ UNCHANGED torn

FlushThrows ==
  /\ buf_put > 0
  /\ \E k \in 0 .. buf_put - 1 : IoWrite(buf, 0, k) /\ Tear(k)
  /\ UNCHANGED <<offset, buf_put>>

\* A client's Flush.
Flush ==
  /\ status = "open"
  /\ buf_put > 0
  /\ \/ FlushOk /\ UNCHANGED status
     \/ FlushThrows /\ status' = "failed"
  /\ UNCHANGED <<buf_size, buf, sent, told>>

\* ~SimpleSink: flushes, and swallows what that throws.
Destroy ==
  /\ \/ /\ status = "open"
        /\ FlushOk
        /\ status' = "closed"
     \/ /\ status = "failed"
        /\ FlushOk
        /\ status' = "abandoned"
     \/ /\ status \in {"open", "failed"}
        /\ FlushThrows
        /\ status' = "abandoned"
  /\ UNCHANGED <<buf_size, buf, sent, told>>

Next ==
  \/ \E n \in 1 .. MaxWrite : \E data \in Data(n) : Write(data, n)
  \/ \E n \in 1 .. MaxPad : Pad(n)
  \/ Flush
  \/ Destroy

Spec == Init /\ [][Next]_vars

-------------------------------------------------------------------------------
(* Properties *)

Cell == Byte \cup {Junk}

\* Every variable has its type, and the buffer is never filled past its end.
TypeOK ==
  /\ offset \in Nat
  /\ buf_put \in 0 .. Chunk
  /\ buf_size = Chunk
  /\ buf \in [BufPos -> Cell]
  /\ file \in [FilePos -> Cell]
  /\ wpos \in Nat
  /\ torn \in BOOLEAN
  /\ status \in {"open", "failed", "closed", "abandoned"}
  /\ sent \in [Pos -> Byte]
  /\ told \in Nat

\* Tell() is the number of bytes the client's calls asked for: the tests of
\* sink.cpp require it after every Write and Pad.
TellIsAcknowledged == status = "open" => Tell = told

\* As long as nothing threw, what the client wrote is in the file up to offset
\* and in the buffer from there: no spill, top up or flush loses, repeats or
\* moves a byte, whatever the lengths and however they straddle the buffer.
StreamInFileAndBuffer ==
  status = "open" =>
    /\ wpos = offset
    /\ offset + buf_put = told
    /\ told <= Size
    /\ \A p \in 0 .. offset - 1 : file[p] = sent[p]
    /\ \A i \in 0 .. buf_put - 1 : buf[i] = sent[offset + i]

\* However a call or the destructor fails, the sink never counts a byte as
\* behind the buffer that io.Write has not put in the file.
OffsetInFile == offset <= wpos

\* Where the file holds a byte at a position the client has acknowledged, it
\* is that byte, and the bytes the next flush would append are in their place
\* too, even though after an exception the destructor flushes the buffer again
\* -- unless an io.Write that threw had appended a part, which that flush then
\* repeats.
AcknowledgedInPlace ==
  /\ told <= Size
  /\ ~torn =>
       /\ \A p \in 0 .. told - 1 : p < wpos => file[p] = sent[p]
       /\ \A i \in 0 .. buf_put - 1 : wpos + i < told => buf[i] = sent[wpos + i]

\* The sink implements the byte stream its clients rely on.
Stream == INSTANCE ByteStream WITH
  tell <- Tell, out <- file, MaxLen <- IF MaxWrite >= MaxPad THEN MaxWrite ELSE MaxPad

ImplementsByteStream == Stream!Spec
===============================================================================
