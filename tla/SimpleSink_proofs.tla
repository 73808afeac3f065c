--------------------------- MODULE SimpleSink_proofs ---------------------------
(***************************************************************************)
(* Proofs about SimpleSink, for every size, buffer size and byte set.      *)
(***************************************************************************)
EXTENDS SimpleSink, TLAPS

\* Positions are integers.
LEMMA Positions == FilePos \subseteq Int /\ BufPos \subseteq Int /\ Pos \subseteq Int
BY DEF FilePos, BufPos, Pos

\* Whole buffers of zeros are no more bytes than Pad_ was asked for.
LEMMA PadChunksBound ==
  ASSUME NEW len \in Nat, len >= Chunk
  PROVE  /\ PadChunks(len) \in Nat
         /\ PadChunks(len) * Chunk < len
BY SimpleSinkAssumption DEF PadChunks

\* The quotient and the remainder of a division are the only pair of their kind.
LEMMA Division ==
  ASSUME NEW a \in Int, NEW c \in Nat \ {0}, NEW q \in Int, NEW r \in 0 .. c - 1,
         a = q * c + r
  PROVE  a \div c = q /\ a % c = r
<1> DEFINE d == a \div c
           e == a % c
<1>1. d \in Int /\ e \in 0 .. c - 1 /\ a = d * c + e
  BY SMT
<1> HIDE DEF d, e
<1>2. ~(d >= q + 1)
  <2> SUFFICES ASSUME d >= q + 1 PROVE FALSE
    OBVIOUS
  <2>1. d * c >= (q + 1) * c /\ (q + 1) * c = q * c + c
    BY <1>1, SMT
  <2>2. q * c \in Int /\ d * c \in Int
    BY <1>1
  <2>3. QED
    BY <1>1, <2>1, <2>2
<1>3. ~(q >= d + 1)
  <2> SUFFICES ASSUME q >= d + 1 PROVE FALSE
    OBVIOUS
  <2>1. q * c >= (d + 1) * c /\ (d + 1) * c = d * c + c
    BY <1>1, SMT
  <2>2. q * c \in Int /\ d * c \in Int
    BY <1>1
  <2>3. QED
    BY <1>1, <2>1, <2>2
<1>4. d = q
  BY <1>1, <1>2, <1>3
<1>5. e = r
  <2>1. q * c \in Int
    OBVIOUS
  <2>2. QED
    BY <1>1, <1>4, <2>1
<1>6. QED
  BY <1>4, <1>5 DEF d, e

\* A pad that is not a multiple of the buffer is the buffers Pad_ writes and the
\* zeros it leaves in the buffer.
LEMMA PadChunksExact ==
  ASSUME NEW len \in Nat \ {0}, len % Chunk # 0
  PROVE  /\ PadChunks(len) * Chunk \in Nat
         /\ len % Chunk \in 1 .. Chunk - 1
         /\ PadChunks(len) * Chunk + (len % Chunk) = len
<1> DEFINE q == len \div Chunk
           r == len % Chunk
<1>1. q \in Nat /\ r \in 0 .. Chunk - 1 /\ len = q * Chunk + r
  BY SimpleSinkAssumption, SMT
<1>2. r \in 1 .. Chunk - 1
  BY <1>1, SimpleSinkAssumption
<1> HIDE DEF q, r
<1>3. q * Chunk \in Nat
  BY <1>1, SimpleSinkAssumption
<1>4. r - 1 \in 0 .. Chunk - 1 /\ len - 1 = q * Chunk + (r - 1)
  BY <1>1, <1>2, <1>3, SimpleSinkAssumption
<1>5. PadChunks(len) = q
  <2>1. len - 1 \in Int /\ q \in Int /\ Chunk \in Nat \ {0}
    BY <1>1, SimpleSinkAssumption
  <2>2. (len - 1) \div Chunk = q
    <3> DEFINE a == len - 1
               b == r - 1
    <3>1. a \in Int /\ b \in 0 .. Chunk - 1 /\ a = q * Chunk + b
      BY <1>4, <2>1
    <3> HIDE DEF a, b
    <3>2. a \div Chunk = q
      BY <3>1, <2>1, Division
    <3>3. QED
      BY <3>2 DEF a
  <2>3. QED
    BY <2>2 DEF PadChunks
<1>6. PadChunks(len) * Chunk = q * Chunk
  BY <1>5
<1>7. PadChunks(len) * Chunk \in Nat
  BY <1>3, <1>6
<1>8. PadChunks(len) * Chunk + r = len
  BY <1>1, <1>6, Zenon
<1>9. QED
  <2>1. PadChunks(len) * Chunk \in Nat /\ r \in 1 .. Chunk - 1 /\ PadChunks(len) * Chunk + r = len
    BY <1>2, <1>7, <1>8
  <2>2. r = len % Chunk
    BY DEF r
  <2>3. QED
    BY <2>1, <2>2, Zenon

-------------------------------------------------------------------------------
(* Type correctness *)

\* The buffer after the top up, and what io.Write appends of it or after it.
LEMMA ToppedUpType ==
  ASSUME TypeOK, NEW n \in Nat, NEW data \in Data(n), n > Room
  PROVE  ToppedUp(data) \in [BufPos -> Cell]
<1>1. \A q \in 0 .. 0 + Room - 1 : data[q] \in Cell
  BY SimpleSinkAssumption DEF Data, Cell, Room, TypeOK
<1>2. QED
  BY <1>1, Positions, SimpleSinkAssumption DEF ToppedUp, TypeOK, Room, Copy

LEMMA IoWriteType ==
  ASSUME TypeOK, NEW data, NEW from \in Int, NEW n \in Nat,
         \A q \in from .. from + n - 1 : data[q] \in Cell,
         IoWrite(data, from, n)
  PROVE  file' \in [FilePos -> Cell] /\ wpos' \in Nat
BY Positions DEF IoWrite, TypeOK, Copy

LEMMA IoWriteBufType ==
  ASSUME TypeOK, NEW full \in [BufPos -> Cell], NEW n \in Nat, n <= Chunk,
         IoWrite(full, 0, n)
  PROVE  file' \in [FilePos -> Cell] /\ wpos' \in Nat
<1>1. \A q \in 0 .. 0 + n - 1 : full[q] \in Cell
  BY SimpleSinkAssumption DEF BufPos
<1>2. QED
  BY <1>1, IoWriteType

LEMMA IoWriteBothType ==
  ASSUME TypeOK, NEW full \in [BufPos -> Cell],
         NEW data, NEW from \in Int, NEW n \in Nat,
         \A q \in from .. from + n - 1 : data[q] \in Cell,
         IoWriteBoth(full, data, from, n)
  PROVE  file' \in [FilePos -> Cell] /\ wpos' \in Nat
<1>1. Copy(file, wpos, full, 0, Chunk) \in [FilePos -> Cell]
  BY Positions, SimpleSinkAssumption DEF TypeOK, Copy, BufPos
<1>2. file' \in [FilePos -> Cell]
  BY <1>1, Positions, SimpleSinkAssumption DEF IoWriteBoth, TypeOK, Copy
<1>3. QED
  BY <1>2, SimpleSinkAssumption DEF IoWriteBoth, TypeOK

LEMMA AcknowledgeType ==
  ASSUME TypeOK, NEW n \in Nat, NEW data \in Data(n), Acknowledge(data, n)
  PROVE  sent' \in [Pos -> Byte] /\ told' \in Nat
<1>1. \A q \in 0 .. 0 + n - 1 : data[q] \in Byte
  BY DEF Data
<1>2. QED
  BY <1>1, Positions DEF Acknowledge, TypeOK, Copy

LEMMA ZerosType == ASSUME NEW n \in Nat PROVE Zeros(n) \in Data(n)
BY SinkAssumption DEF Zeros, Data

LEMMA PutInBufferType ==
  ASSUME TypeOK, NEW n \in Nat, NEW data \in Data(n), PutInBuffer(data, n)
  PROVE  TypeOK'
<1>1. \A q \in 0 .. 0 + n - 1 : data[q] \in Cell
  BY DEF Data, Cell
<1>2. buf' \in [BufPos -> Cell]
  BY <1>1, Positions, SimpleSinkAssumption DEF PutInBuffer, TypeOK, Copy
<1>3. buf_put' \in 0 .. Chunk
  BY SimpleSinkAssumption DEF PutInBuffer, TypeOK, Room
<1>4. QED
  BY <1>2, <1>3, AcknowledgeType DEF PutInBuffer, TypeOK

LEMMA WriteType ==
  ASSUME TypeOK, NEW n \in Nat, NEW data \in Data(n), n > Room, Write_(data, n)
  PROVE  TypeOK'
<1> DEFINE len == n - Room
<1>1. len \in Nat /\ Room \in Nat /\ buf_size = Chunk
  BY SimpleSinkAssumption DEF TypeOK, Room
<1>2. ToppedUp(data) \in [BufPos -> Cell]
  BY ToppedUpType
<1>3. \A q \in Room .. Room + len - 1 : data[q] \in Cell
  BY <1>1 DEF Data, Cell
<1>4. sent' \in [Pos -> Byte] /\ told' \in Nat
  BY AcknowledgeType DEF Write_
<1>5. offset' \in Nat
  BY <1>1, SimpleSinkAssumption DEF Write_, AfterSpill, TypeOK
<1>6. CASE len >= Chunk
  <2>1. file' \in [FilePos -> Cell] /\ wpos' \in Nat
    BY <1>1, <1>2, <1>3, <1>6, IoWriteBothType DEF Write_
  <2>2. QED
    BY <2>1, <1>1, <1>2, <1>4, <1>5, <1>6, SimpleSinkAssumption DEF Write_, TypeOK
<1>7. CASE ~(len >= Chunk)
  <2>1. file' \in [FilePos -> Cell] /\ wpos' \in Nat
    BY <1>1, <1>2, <1>7, IoWriteBufType, SimpleSinkAssumption DEF Write_
  <2>2. buf' \in [BufPos -> Cell]
    BY <1>1, <1>2, <1>3, <1>7, Positions DEF Write_, Copy
  <2>3. QED
    BY <2>1, <2>2, <1>1, <1>4, <1>5, <1>7, SimpleSinkAssumption DEF Write_, TypeOK
<1>8. QED
  BY <1>6, <1>7

LEMMA PadType ==
  ASSUME TypeOK, NEW n \in Nat, n > Room, Pad_(n)
  PROVE  TypeOK'
<1> DEFINE len == n - Room
           full == ToppedUp(Zeros(n))
<1>1. len \in Nat /\ Room \in Nat /\ buf_size = Chunk /\ Chunk \in Nat \ {0}
  BY SimpleSinkAssumption DEF TypeOK, Room
<1>2. Zeros(n) \in Data(n) /\ Zeros(Chunk) \in [BufPos -> Cell]
  BY <1>1, ZerosType, SinkAssumption DEF Zeros, Cell, BufPos
<1>3. full \in [BufPos -> Cell]
  BY <1>2, ToppedUpType
<1>4. sent' \in [Pos -> Byte] /\ told' \in Nat
  BY <1>2, AcknowledgeType DEF Pad_
<1>5. buf_put' \in 0 .. Chunk
  BY <1>1 DEF Pad_
<1>6. \A q \in 0 .. n - 1 : Zeros(n)[q] \in Cell
  BY SinkAssumption DEF Zeros, Cell
<1>7. CASE len >= Chunk
  <2>1. PadChunks(len) \in Nat /\ PadChunks(len) * Chunk \in Nat /\ PadChunks(len) * Chunk < len
    BY <1>1, <1>7, PadChunksBound
  <2>2. \A q \in 0 .. 0 + PadChunks(len) * Chunk - 1 : Zeros(n)[q] \in Cell
    BY <2>1, <1>1, <1>6
  <2>3. file' \in [FilePos -> Cell] /\ wpos' \in Nat
    BY <2>1, <2>2, <1>3, <1>7, IoWriteBothType DEF Pad_
  <2>4. offset' \in Nat
    BY <2>1, <1>1, <1>7 DEF Pad_, TypeOK
  <2>5. QED
    BY <2>3, <2>4, <1>1, <1>2, <1>4, <1>5, <1>7 DEF Pad_, TypeOK
<1>8. CASE ~(len >= Chunk)
  <2>1. file' \in [FilePos -> Cell] /\ wpos' \in Nat
    BY <1>1, <1>3, <1>8, IoWriteBufType DEF Pad_
  <2>2. \A q \in 0 .. 0 + len - 1 : Zeros(n)[q] \in Cell
    BY <1>1, <1>6
  <2>3. buf' \in [BufPos -> Cell]
    BY <1>1, <1>3, <1>8, <2>2, Positions DEF Pad_, Copy
  <2>4. QED
    BY <2>1, <2>3, <1>1, <1>4, <1>5, <1>8 DEF Pad_, TypeOK
<1>9. QED
  BY <1>7, <1>8

LEMMA ThrowType ==
  ASSUME TypeOK, NEW n \in Nat, NEW data \in Data(n), n > Room,
         SpillThrows(data) \/ WriteRestThrows(data, n)
  PROVE  TypeOK'
<1>1. n - Room \in Nat /\ Room \in Nat /\ Chunk \in Nat \ {0} /\ buf_size = Chunk
  BY SimpleSinkAssumption DEF TypeOK, Room
<1>2. ToppedUp(data) \in [BufPos -> Cell]
  BY ToppedUpType
<1>3. CASE SpillThrows(data)
  <2>1. PICK k \in 0 .. Chunk - 1 : IoWrite(ToppedUp(data), 0, k) /\ Tear(k)
    BY <1>3 DEF SpillThrows
  <2>2. k \in Nat /\ k < Chunk
    BY <1>1
  <2>3. file' \in [FilePos -> Cell] /\ wpos' \in Nat
    BY <2>1, <2>2, <1>1, <1>2, IoWriteBufType
  <2>4. QED
    BY <2>1, <2>3, <1>1, <1>2, <1>3 DEF SpillThrows, Tear, TypeOK
<1>4. CASE WriteRestThrows(data, n)
  <2>1. PICK k \in 0 .. n - Room - 1 : IoWriteBoth(ToppedUp(data), data, Room, k) /\ Tear(k)
    BY <1>4 DEF WriteRestThrows
  <2>2. k \in Nat /\ k < n - Room
    BY <1>1, <1>4 DEF WriteRestThrows
  <2>3. \A q \in Room .. Room + k - 1 : data[q] \in Cell
    BY <2>2, <1>1 DEF Data, Cell
  <2>4. file' \in [FilePos -> Cell] /\ wpos' \in Nat
    BY <2>1, <2>2, <2>3, <1>1, <1>2, IoWriteBothType
  <2>5. QED
    BY <2>1, <2>4, <1>1, <1>2, <1>4 DEF WriteRestThrows, Tear, TypeOK
<1>5. QED
  BY <1>3, <1>4

LEMMA PadLoopThrowsType ==
  ASSUME TypeOK, NEW n \in Nat, n > Room, PadLoopThrows(n)
  PROVE  TypeOK'
<1> DEFINE len == n - Room
           full == ToppedUp(Zeros(n))
<1>1. len \in Nat /\ Room \in Nat /\ buf_size = Chunk /\ Chunk \in Nat \ {0}
  BY SimpleSinkAssumption DEF TypeOK, Room
<1>2. Zeros(n) \in Data(n) /\ Zeros(Chunk) \in [BufPos -> Cell]
  BY <1>1, ZerosType, SinkAssumption DEF Zeros, Cell, BufPos
<1>3. full \in [BufPos -> Cell]
  BY <1>2, ToppedUpType
<1>4. len >= Chunk
  BY DEF PadLoopThrows
<1>5. PICK m \in 0 .. PadChunks(len) - 1, k \in 0 .. Chunk - 1 :
        IoWriteBoth(full, Zeros(n), 0, m * Chunk + k) /\ Tear(k)
  BY DEF PadLoopThrows
<1>6. PadChunks(len) \in Nat /\ PadChunks(len) * Chunk < len
  BY <1>1, <1>4, PadChunksBound
<1>7. k \in Nat /\ k < Chunk
  BY <1>1
<1>8. m \in Nat /\ m + 1 <= PadChunks(len)
  BY <1>5, <1>6
<1>9. m * Chunk \in Nat /\ (m + 1) * Chunk <= PadChunks(len) * Chunk /\ (m + 1) * Chunk = m * Chunk + Chunk
  BY <1>1, <1>6, <1>8
<1>10. m * Chunk + k \in Nat /\ m * Chunk + k < len
  <2>1. PadChunks(len) * Chunk \in Nat
    BY <1>1, <1>6
  <2>2. QED
    BY <2>1, <1>1, <1>6, <1>7, <1>9
<1>11. \A q \in 0 .. 0 + (m * Chunk + k) - 1 : Zeros(n)[q] \in Cell
  BY <1>1, <1>10, SinkAssumption DEF Zeros, Cell
<1>12. file' \in [FilePos -> Cell] /\ wpos' \in Nat
  BY <1>3, <1>5, <1>10, <1>11, IoWriteBothType
<1>13. QED
  BY <1>1, <1>2, <1>5, <1>12 DEF PadLoopThrows, Tear, TypeOK

LEMMA FlushType ==
  ASSUME TypeOK, FlushOk \/ FlushThrows
  PROVE  /\ file' \in [FilePos -> Cell] /\ wpos' \in Nat
         /\ offset' \in Nat /\ buf_put' \in 0 .. Chunk /\ torn' \in BOOLEAN
<1>1. buf_put \in Nat /\ buf_put <= Chunk /\ Chunk \in Nat
  BY SimpleSinkAssumption DEF TypeOK
<1>2. CASE FlushOk
  <2>1. \A q \in 0 .. 0 + buf_put - 1 : buf[q] \in Cell
    BY <1>1 DEF TypeOK, BufPos
  <2>2. QED
    BY <2>1, <1>1, <1>2, IoWriteType DEF FlushOk, TypeOK
<1>3. CASE FlushThrows
  <2>1. PICK k \in 0 .. buf_put - 1 : IoWrite(buf, 0, k) /\ Tear(k)
    BY <1>3 DEF FlushThrows
  <2>2. k \in Nat /\ k < buf_put
    BY <1>1, <1>3 DEF FlushThrows
  <2>3. \A q \in 0 .. 0 + k - 1 : buf[q] \in Cell
    BY <1>1, <2>2 DEF TypeOK, BufPos
  <2>4. QED
    BY <2>1, <2>2, <2>3, <1>3, IoWriteType DEF FlushThrows, Tear, TypeOK
<1>4. QED
  BY <1>2, <1>3

\* Whatever the lengths and whichever call throws, every variable keeps its
\* type; in particular buf_put never passes the end of the buffer.
THEOREM TypeCorrect == Spec => []TypeOK
<1>1. Init => TypeOK
  <2>1. Init => torn \in BOOLEAN
    BY DEF Init
  <2>2. Init => buf \in [BufPos -> Cell] /\ file \in [FilePos -> Cell] /\ sent \in [Pos -> Byte]
    BY SinkAssumption DEF Init, Cell
  <2>3. QED
    BY <2>1, <2>2, SimpleSinkAssumption DEF Init, TypeOK
<1>2. ASSUME TypeOK, [Next]_vars PROVE TypeOK'
  <2>1. ASSUME NEW n \in 1 .. MaxWrite, NEW data \in Data(n), Write(data, n)
        PROVE  TypeOK'
    <3>1. n \in Nat
      BY SinkAssumption
    <3>2. QED
      BY <1>2, <2>1, <3>1, PutInBufferType, WriteType, ThrowType DEF Write
  <2>2. ASSUME NEW n \in 1 .. MaxPad, Pad(n)
        PROVE  TypeOK'
    <3>1. n \in Nat /\ Zeros(n) \in Data(n)
      BY SinkAssumption, ZerosType
    <3>2. QED
      BY <1>2, <2>2, <3>1, PutInBufferType, PadType, ThrowType, PadLoopThrowsType DEF Pad
  <2>3. CASE Flush
    BY <1>2, <2>3, FlushType DEF Flush, TypeOK
  <2>4. CASE Destroy
    BY <1>2, <2>4, FlushType DEF Destroy, TypeOK
  <2>5. CASE UNCHANGED vars
    BY <1>2, <2>5 DEF vars, TypeOK
  <2>6. QED
    BY <1>2, <2>1, <2>2, <2>3, <2>4, <2>5 DEF Next
<1>3. QED
  BY <1>1, <1>2, PTL DEF Spec

-------------------------------------------------------------------------------
(* The stream is never lost, repeated or moved *)

\* What the client has asked for is in the file and in the buffer after each of
\* the steps a call can take without an exception.
LEMMA PutInBufferStream ==
  ASSUME TypeOK, StreamInFileAndBuffer, status = "open",
         NEW n \in Nat \ {0}, NEW data \in Data(n), Tell + n <= Size,
         PutInBuffer(data, n)
  PROVE  StreamInFileAndBuffer'
<1>1. /\ offset' = offset /\ wpos' = wpos /\ file' = file /\ status' = status
      /\ buf_put' = buf_put + n /\ buf_put + n <= Chunk /\ told' = told + n
  BY SimpleSinkAssumption DEF PutInBuffer, Acknowledge, TypeOK, Room
<1>2. told + n <= Size /\ told = offset + buf_put
  BY DEF StreamInFileAndBuffer, Tell
<1>3. ASSUME NEW p \in 0 .. offset - 1 PROVE file[p] = sent'[p]
  BY <1>3, <1>2, SinkAssumption
  DEF PutInBuffer, Acknowledge, StreamInFileAndBuffer, TypeOK, Copy, Pos
<1>4. ASSUME NEW i \in 0 .. buf_put + n - 1 PROVE buf'[i] = sent'[offset + i]
  <2>1. i \in BufPos /\ offset + i \in Pos /\ i \in Nat /\ offset \in Nat /\ buf_put \in Nat
    BY <1>1, <1>2, SinkAssumption, SimpleSinkAssumption DEF TypeOK, BufPos, Pos
  <2>2. buf'[i] = IF buf_put <= i /\ i < buf_put + n THEN data[i - buf_put] ELSE buf[i]
    BY <2>1 DEF PutInBuffer, Copy, TypeOK
  <2>3. sent'[offset + i] = IF told <= offset + i /\ offset + i < told + n
                            THEN data[offset + i - told] ELSE sent[offset + i]
    BY <2>1 DEF PutInBuffer, Acknowledge, Copy, TypeOK
  <2>4. CASE i < buf_put
    BY <1>2, <2>1, <2>2, <2>3, <2>4 DEF StreamInFileAndBuffer
  <2>5. CASE buf_put <= i
    <3>1. offset + i - told = i - buf_put
      BY <1>2, <2>1
    <3>2. QED
      BY <1>2, <2>1, <2>2, <2>3, <2>5, <3>1
  <2>6. QED
    BY <2>1, <2>4, <2>5
<1>5. wpos' = offset' /\ offset' + buf_put' = told' /\ told' <= Size
  BY <1>1, <1>2 DEF StreamInFileAndBuffer, TypeOK
<1>6. \A p \in 0 .. offset' - 1 : file'[p] = sent'[p]
  BY <1>1, <1>3
<1>7. ASSUME NEW i \in 0 .. buf_put' - 1 PROVE buf'[i] = sent'[offset' + i]
  <2>1. i \in 0 .. buf_put + n - 1 /\ offset' = offset
    BY <1>1 DEF TypeOK
  <2>2. QED
    BY <2>1, <1>4
<1>8. QED
  BY <1>5, <1>6, <1>7 DEF StreamInFileAndBuffer

\* The topped up buffer holds the stream from offset on, the new bytes included.
LEMMA ToppedUpStream ==
  ASSUME TypeOK, StreamInFileAndBuffer, status = "open",
         NEW n \in Nat, NEW data \in Data(n), n > Room, Tell + n <= Size,
         Acknowledge(data, n)
  PROVE  \A i \in 0 .. Chunk - 1 : ToppedUp(data)[i] = sent'[offset + i]
<1> SUFFICES ASSUME NEW i \in 0 .. Chunk - 1
             PROVE  ToppedUp(data)[i] = sent'[offset + i]
  OBVIOUS
<1>1. told = offset + buf_put /\ told + n <= Size /\ Room = Chunk - buf_put
  BY DEF StreamInFileAndBuffer, Tell, TypeOK, Room
<1>2. /\ i \in BufPos /\ offset + i \in Pos /\ i \in Nat /\ i < Chunk
      /\ offset \in Nat /\ buf_put \in Nat /\ Chunk \in Nat
  BY <1>1, SinkAssumption, SimpleSinkAssumption DEF TypeOK, BufPos, Pos
<1>3. ToppedUp(data)[i] = IF buf_put <= i THEN data[i - buf_put] ELSE buf[i]
  BY <1>1, <1>2 DEF ToppedUp, Copy, TypeOK
<1>4. sent'[offset + i] = IF told <= offset + i /\ offset + i < told + n
                          THEN data[offset + i - told] ELSE sent[offset + i]
  BY <1>2 DEF Acknowledge, Copy, TypeOK
<1>5. CASE i < buf_put
  BY <1>1, <1>2, <1>3, <1>4, <1>5 DEF StreamInFileAndBuffer
<1>6. CASE buf_put <= i
  <2>1. offset + i - told = i - buf_put /\ offset + i < told + n /\ told <= offset + i
    BY <1>1, <1>2, <1>6
  <2>2. QED
    BY <1>2, <1>3, <1>4, <1>6, <2>1
<1>7. QED
  BY <1>2, <1>5, <1>6

\* The client's bytes past the top up continue the stream at offset + Chunk.
LEMMA RestStream ==
  ASSUME TypeOK, StreamInFileAndBuffer, status = "open",
         NEW n \in Nat, NEW data \in Data(n), n > Room, Tell + n <= Size,
         Acknowledge(data, n)
  PROVE  \A i \in 0 .. n - Room - 1 : data[Room + i] = sent'[offset + Chunk + i]
<1> SUFFICES ASSUME NEW i \in 0 .. n - Room - 1
             PROVE  data[Room + i] = sent'[offset + Chunk + i]
  OBVIOUS
<1>1. told = offset + buf_put /\ told + n <= Size /\ Room = Chunk - buf_put
  BY DEF StreamInFileAndBuffer, Tell, TypeOK, Room
<1>2. /\ offset \in Nat /\ buf_put \in Nat /\ buf_put <= Chunk /\ Chunk \in Nat
      /\ Room \in Nat /\ i \in Nat /\ i < n - Room
  BY <1>1, SimpleSinkAssumption DEF TypeOK
<1>3. /\ offset + Chunk + i \in Pos
      /\ told <= offset + Chunk + i /\ offset + Chunk + i < told + n
      /\ 0 + (offset + Chunk + i) - told = Room + i
  BY <1>1, <1>2, SinkAssumption DEF Pos
<1>4. sent'[offset + Chunk + i] = data[0 + (offset + Chunk + i) - told]
  BY <1>3 DEF Acknowledge, Copy, TypeOK
<1>5. QED
  BY <1>3, <1>4

\* Bytes the file already held are below told, where Acknowledge changes nothing.
LEMMA OldStream ==
  ASSUME TypeOK, StreamInFileAndBuffer, status = "open", NEW n \in Nat, NEW data,
         Acknowledge(data, n)
  PROVE  \A p \in 0 .. offset - 1 : sent'[p] = sent[p] /\ file[p] = sent[p] /\ p \in FilePos
<1> SUFFICES ASSUME NEW p \in 0 .. offset - 1
             PROVE  sent'[p] = sent[p] /\ file[p] = sent[p] /\ p \in FilePos
  OBVIOUS
<1>1. told = offset + buf_put /\ told <= Size /\ offset \in Nat /\ buf_put \in Nat
  BY SimpleSinkAssumption DEF StreamInFileAndBuffer, TypeOK
<1>2. p \in Pos /\ p \in FilePos /\ p < told
  BY <1>1, SinkAssumption, SimpleSinkAssumption DEF Pos, FilePos
<1>3. QED
  BY <1>1, <1>2 DEF Acknowledge, Copy, TypeOK, StreamInFileAndBuffer

\* A spill whose rest fits in the buffer.
LEMMA ShortSpillStream ==
  ASSUME TypeOK, StreamInFileAndBuffer, status = "open",
         NEW n \in Nat, NEW data \in Data(n), n > Room, Tell + n <= Size,
         n - Room < Chunk,
         Acknowledge(data, n),
         IoWrite(ToppedUp(data), 0, Chunk),
         offset' = offset + Chunk,
         buf' = Copy(ToppedUp(data), 0, data, Room, n - Room),
         buf_put' = n - Room,
         status' = status
  PROVE  StreamInFileAndBuffer'
<1>1. /\ told = offset + buf_put /\ told + n <= Size /\ Room = Chunk - buf_put
      /\ wpos = offset
  BY DEF StreamInFileAndBuffer, Tell, TypeOK, Room
<1>2. /\ offset \in Nat /\ buf_put \in Nat /\ buf_put <= Chunk /\ Chunk \in Nat \ {0}
      /\ Room \in Nat /\ Size \in Nat
  BY <1>1, SinkAssumption, SimpleSinkAssumption DEF TypeOK
<1>3. wpos' = offset' /\ offset' + buf_put' = told' /\ told' <= Size
  BY <1>1, <1>2 DEF IoWrite, Acknowledge
<1>4. ASSUME NEW p \in 0 .. offset + Chunk - 1 PROVE file'[p] = sent'[p]
  <2>1. p \in FilePos /\ p \in Nat /\ p < offset + Chunk
    BY <1>1, <1>2 DEF FilePos
  <2>2. file'[p] = IF offset <= p /\ p < offset + Chunk
                   THEN ToppedUp(data)[0 + p - offset] ELSE file[p]
    BY <1>1, <2>1 DEF IoWrite, Copy, TypeOK
  <2>3. CASE p < offset
    <3>1. p \in 0 .. offset - 1
      BY <1>2, <2>1, <2>3
    <3>2. sent'[p] = sent[p] /\ file[p] = sent[p]
      BY <3>1, OldStream
    <3>3. QED
      BY <1>2, <2>1, <2>2, <2>3, <3>2
  <2>4. CASE offset <= p
    <3>1. 0 + p - offset \in 0 .. Chunk - 1 /\ offset + (0 + p - offset) = p
      BY <1>2, <2>1, <2>4
    <3>2. ToppedUp(data)[0 + p - offset] = sent'[offset + (0 + p - offset)]
      BY <3>1, ToppedUpStream
    <3>3. QED
      BY <2>1, <2>2, <2>4, <3>1, <3>2
  <2>5. QED
    BY <1>2, <2>1, <2>3, <2>4
<1>5. ASSUME NEW i \in 0 .. n - Room - 1 PROVE buf'[i] = sent'[offset + Chunk + i]
  <2>1. i \in BufPos /\ i \in Nat /\ i < n - Room
    BY <1>2 DEF BufPos
  <2>2. buf'[i] = data[Room + i - 0]
    <3>1. DOMAIN ToppedUp(data) = BufPos
      BY DEF ToppedUp, Copy, TypeOK
    <3>2. QED
      BY <1>2, <2>1, <3>1 DEF Copy
  <2>3. Room + i - 0 = Room + i
    BY <1>2, <2>1
  <2>4. QED
    BY <2>2, <2>3, RestStream
<1>6. ASSUME NEW p \in 0 .. offset' - 1 PROVE file'[p] = sent'[p]
  <2>1. p \in 0 .. offset + Chunk - 1
    BY <1>2
  <2>2. QED
    BY <2>1, <1>4
<1>7. \A i \in 0 .. buf_put' - 1 : buf'[i] = sent'[offset' + i]
  BY <1>5
<1>8. QED
  BY <1>3, <1>6, <1>7 DEF StreamInFileAndBuffer

\* A spill whose rest goes straight to the file.
LEMMA LongSpillStream ==
  ASSUME TypeOK, StreamInFileAndBuffer, status = "open",
         NEW n \in Nat, NEW data \in Data(n), n > Room, Tell + n <= Size,
         n - Room >= Chunk, Write_(data, n)
  PROVE  StreamInFileAndBuffer'
<1> DEFINE len == n - Room
<1>1. /\ told = offset + buf_put /\ told + n <= Size /\ Room = Chunk - buf_put
      /\ wpos = offset
  BY DEF StreamInFileAndBuffer, Tell, TypeOK, Room
<1>2. /\ offset \in Nat /\ buf_put \in Nat /\ buf_put <= Chunk /\ Chunk \in Nat \ {0}
      /\ Room \in Nat /\ Size \in Nat /\ len \in Nat
  BY <1>1, SinkAssumption, SimpleSinkAssumption DEF TypeOK
<1>3. /\ IoWriteBoth(ToppedUp(data), data, Room, len) /\ Acknowledge(data, n)
      /\ offset' = offset + Chunk + len /\ buf_put' = 0 /\ status' = status
  BY DEF Write_, AfterSpill
<1>4. wpos' = offset' /\ offset' + buf_put' = told' /\ told' <= Size
  BY <1>1, <1>2, <1>3 DEF IoWriteBoth, Acknowledge
<1>5. ASSUME NEW p \in 0 .. offset' - 1 PROVE file'[p] = sent'[p]
  <2>1. p \in FilePos /\ p \in Nat /\ p < offset + Chunk + len
    BY <1>1, <1>2, <1>3 DEF FilePos
  <2>2. DOMAIN Copy(file, wpos, ToppedUp(data), 0, Chunk) = FilePos
    BY DEF Copy, TypeOK
  <2>3. file'[p] = IF offset + Chunk <= p /\ p < offset + Chunk + len
                   THEN data[Room + p - (offset + Chunk)]
                   ELSE Copy(file, wpos, ToppedUp(data), 0, Chunk)[p]
    BY <1>1, <1>3, <2>1, <2>2 DEF IoWriteBoth, Copy
  <2>4. Copy(file, wpos, ToppedUp(data), 0, Chunk)[p]
          = IF offset <= p /\ p < offset + Chunk
            THEN ToppedUp(data)[0 + p - offset] ELSE file[p]
    BY <1>1, <2>1 DEF Copy, TypeOK
  <2>5. CASE p < offset
    BY <1>2, <1>3, <2>1, <2>3, <2>4, <2>5, OldStream
  <2>6. CASE offset <= p /\ p < offset + Chunk
    <3>1. 0 + p - offset \in 0 .. Chunk - 1 /\ offset + (0 + p - offset) = p
      BY <1>2, <2>1, <2>6
    <3>2. ToppedUp(data)[0 + p - offset] = sent'[offset + (0 + p - offset)]
      BY <1>3, <3>1, ToppedUpStream
    <3>3. QED
      BY <1>2, <2>1, <2>3, <2>4, <2>6, <3>1, <3>2
  <2>7. CASE offset + Chunk <= p
    <3> DEFINE i == p - (offset + Chunk)
    <3>1. /\ i \in 0 .. n - Room - 1 /\ offset + Chunk + i = p
          /\ Room + p - (offset + Chunk) = Room + i
      BY <1>2, <2>1, <2>7
    <3>2. data[Room + i] = sent'[offset + Chunk + i]
      BY <1>3, <3>1, RestStream
    <3>3. QED
      BY <2>1, <2>3, <2>7, <3>1, <3>2
  <2>8. QED
    BY <1>2, <2>1, <2>5, <2>6, <2>7
<1>6. \A i \in 0 .. buf_put' - 1 : buf'[i] = sent'[offset' + i]
  BY <1>3
<1>7. QED
  BY <1>4, <1>5, <1>6 DEF StreamInFileAndBuffer

\* The zeros of a pad continue the stream up to its end.
LEMMA ZeroStream ==
  ASSUME TypeOK, StreamInFileAndBuffer, status = "open",
         NEW n \in Nat, n > Room, Tell + n <= Size, Acknowledge(Zeros(n), n)
  PROVE  \A p \in offset + Chunk .. told + n - 1 : sent'[p] = Zero
<1> SUFFICES ASSUME NEW p \in offset + Chunk .. told + n - 1
             PROVE  sent'[p] = Zero
  OBVIOUS
<1>1. told = offset + buf_put /\ told + n <= Size
  BY DEF StreamInFileAndBuffer, Tell
<1>2. offset \in Nat /\ buf_put \in Nat /\ buf_put <= Chunk /\ Chunk \in Nat
  BY SimpleSinkAssumption DEF TypeOK
<1>3. p \in Pos /\ told <= p /\ p < told + n /\ 0 + p - told \in 0 .. n - 1
  BY <1>1, <1>2, SinkAssumption DEF Pos
<1>4. sent'[p] = Zeros(n)[0 + p - told]
  BY <1>3 DEF Acknowledge, Copy, TypeOK
<1>5. QED
  BY <1>3, <1>4 DEF Zeros

\* A pad of several buffers, the last of them not full.
LEMMA LongPadStream ==
  ASSUME TypeOK, StreamInFileAndBuffer, status = "open",
         NEW n \in Nat, n > Room, Tell + n <= Size,
         n - Room >= Chunk, (n - Room) % Chunk # 0, Pad_(n)
  PROVE  StreamInFileAndBuffer'
<1> DEFINE len  == n - Room
           full == ToppedUp(Zeros(n))
           q    == PadChunks(len) * Chunk
           r    == len % Chunk
<1>1. /\ told = offset + buf_put /\ told + n <= Size /\ Room = Chunk - buf_put
      /\ wpos = offset
  BY DEF StreamInFileAndBuffer, Tell, TypeOK, Room
<1>2. /\ offset \in Nat /\ buf_put \in Nat /\ buf_put <= Chunk /\ Chunk \in Nat \ {0}
      /\ Room \in Nat /\ Size \in Nat /\ len \in Nat \ {0}
  BY <1>1, SinkAssumption, SimpleSinkAssumption DEF TypeOK
<1>3. /\ IoWriteBoth(full, Zeros(n), 0, q) /\ Acknowledge(Zeros(n), n)
      /\ offset' = offset + Chunk + q /\ buf_put' = r /\ buf' = Zeros(Chunk)
      /\ status' = status
  BY DEF Pad_
<1>4. q \in Nat /\ r \in 1 .. Chunk - 1 /\ q + r = len
  BY <1>2, PadChunksExact
<1>5. Zeros(n) \in Data(n)
  BY ZerosType
<1> HIDE DEF q, r
<1>6. wpos' = offset' /\ offset' + buf_put' = told' /\ told' <= Size
  BY <1>1, <1>2, <1>3, <1>4 DEF IoWriteBoth, Acknowledge
<1>7. told + n = offset + Chunk + q + r
  BY <1>1, <1>2, <1>4
<1>8. ASSUME NEW p \in 0 .. offset' - 1 PROVE file'[p] = sent'[p]
  <2>1. p \in FilePos /\ p \in Nat /\ p < offset + Chunk + q
    BY <1>1, <1>2, <1>3, <1>4, <1>7 DEF FilePos
  <2>2. DOMAIN Copy(file, wpos, full, 0, Chunk) = FilePos
    BY DEF Copy, TypeOK
  <2>3. file'[p] = IF offset + Chunk <= p /\ p < offset + Chunk + q
                   THEN Zeros(n)[0 + p - (offset + Chunk)]
                   ELSE Copy(file, wpos, full, 0, Chunk)[p]
    BY <1>1, <1>3, <2>1, <2>2 DEF IoWriteBoth, Copy
  <2>4. Copy(file, wpos, full, 0, Chunk)[p]
          = IF offset <= p /\ p < offset + Chunk
            THEN full[0 + p - offset] ELSE file[p]
    BY <1>1, <2>1 DEF Copy, TypeOK
  <2>5. CASE p < offset
    BY <1>2, <1>3, <1>5, <2>1, <2>3, <2>4, <2>5, OldStream
  <2>6. CASE offset <= p /\ p < offset + Chunk
    <3>1. 0 + p - offset \in 0 .. Chunk - 1 /\ offset + (0 + p - offset) = p
      BY <1>2, <2>1, <2>6
    <3>2. full[0 + p - offset] = sent'[offset + (0 + p - offset)]
      BY <1>3, <1>5, <3>1, ToppedUpStream
    <3>3. QED
      BY <1>2, <2>1, <2>3, <2>4, <2>6, <3>1, <3>2
  <2>7. CASE offset + Chunk <= p
    <3>1. p \in offset + Chunk .. told + n - 1 /\ 0 + p - (offset + Chunk) \in 0 .. n - 1
      BY <1>1, <1>2, <1>4, <1>7, <2>1, <2>7
    <3>2. sent'[p] = Zero
      BY <1>3, <3>1, ZeroStream
    <3>3. Zeros(n)[0 + p - (offset + Chunk)] = Zero
      BY <3>1 DEF Zeros
    <3>4. QED
      BY <2>1, <2>3, <2>7, <3>2, <3>3
  <2>8. QED
    BY <1>2, <2>1, <2>5, <2>6, <2>7
<1>9. ASSUME NEW i \in 0 .. buf_put' - 1 PROVE buf'[i] = sent'[offset' + i]
  <2>1. i \in 0 .. Chunk - 1 /\ offset + Chunk + q + i \in offset + Chunk .. told + n - 1
    <3>1. i \in 0 .. r - 1
      BY <1>3
    <3>2. i \in Nat /\ i < r /\ r \in Nat /\ r <= Chunk - 1
      BY <3>1, <1>2, <1>4
    <3> HIDE DEF len
    <3>3. i \in 0 .. Chunk - 1
      BY <3>2, <1>2
    <3>4. offset + Chunk + q + i \in offset + Chunk .. told + n - 1
      <4>1. \A a, b, c, d, e \in Nat :
              d < e => a + b + c + d \in a + b .. a + b + c + e - 1
        OBVIOUS
      <4>2. offset \in Nat /\ Chunk \in Nat /\ q \in Nat /\ i \in Nat /\ r \in Nat
        BY <3>2, <1>2, <1>4
      <4>3. offset + Chunk + q + i \in offset + Chunk .. offset + Chunk + q + r - 1
        BY <3>2, <4>1, <4>2
      <4>4. QED
        BY <4>2, <4>3, <1>7 DEF TypeOK
    <3>5. QED
      BY <3>3, <3>4
  <2>2. buf'[i] = Zero
    BY <1>3, <2>1 DEF Zeros
  <2>3. sent'[offset + Chunk + q + i] = Zero
    BY <1>3, <2>1, ZeroStream
  <2>4. QED
    BY <1>3, <2>2, <2>3
<1>10. QED
  BY <1>6, <1>8, <1>9 DEF StreamInFileAndBuffer

\* Flushing puts the whole stream in the file.
LEMMA FlushStream ==
  ASSUME TypeOK, StreamInFileAndBuffer, status = "open", FlushOk, UNCHANGED <<sent, told>>
  PROVE  /\ offset' = told /\ wpos' = told /\ buf_put' = 0
         /\ \A p \in 0 .. told - 1 : file'[p] = sent[p]
<1>1. /\ told = offset + buf_put /\ wpos = offset /\ told <= Size
      /\ offset \in Nat /\ buf_put \in Nat
  BY SimpleSinkAssumption DEF StreamInFileAndBuffer, TypeOK
<1>2. ASSUME NEW p \in 0 .. told - 1 PROVE file'[p] = sent[p]
  <2>1. p \in FilePos /\ p \in Nat /\ p < told
    BY <1>1, SinkAssumption, SimpleSinkAssumption DEF FilePos
  <2>2. file'[p] = IF offset <= p /\ p < offset + buf_put THEN buf[0 + p - offset] ELSE file[p]
    BY <1>1, <2>1 DEF FlushOk, IoWrite, Copy, TypeOK
  <2>3. CASE p < offset
    BY <1>1, <2>1, <2>2, <2>3 DEF StreamInFileAndBuffer
  <2>4. CASE offset <= p
    <3>1. 0 + p - offset \in 0 .. buf_put - 1 /\ offset + (0 + p - offset) = p
      BY <1>1, <2>1, <2>4
    <3>2. buf[0 + p - offset] = sent[offset + (0 + p - offset)]
      BY <3>1 DEF StreamInFileAndBuffer
    <3>3. QED
      BY <1>1, <2>1, <2>2, <2>4, <3>1, <3>2
  <2>5. QED
    BY <1>1, <2>1, <2>3, <2>4
<1>3. QED
  BY <1>1, <1>2 DEF FlushOk, IoWrite

\* One step keeps the stream, given that no Pad loses a buffer.
LEMMA StreamStep ==
  ASSUME SafePads, TypeOK, StreamInFileAndBuffer, [Next]_vars
  PROVE  StreamInFileAndBuffer'
<1>1. ASSUME NEW n \in 1 .. MaxWrite, NEW data \in Data(n), Write(data, n)
      PROVE  StreamInFileAndBuffer'
  <2>1. n \in Nat \ {0} /\ status = "open" /\ Tell + n <= Size
    BY <1>1, SinkAssumption DEF Write, Admitted, Tell
  <2>2. CASE PutInBuffer(data, n)
    BY <2>1, <2>2, PutInBufferStream
  <2>3. CASE n > Room /\ Write_(data, n)
    <3>1. CASE n - Room >= Chunk
      BY <2>1, <2>3, <3>1, LongSpillStream
    <3>2. CASE ~(n - Room >= Chunk)
      <4>1. n - Room < Chunk
        BY <2>1, <3>2, SimpleSinkAssumption DEF TypeOK, Room
      <4>2. QED
        BY <2>1, <2>3, <3>2, <4>1, ShortSpillStream DEF Write_, AfterSpill
    <3>3. QED
      BY <3>1, <3>2
  <2>4. CASE SpillThrows(data) \/ WriteRestThrows(data, n)
    BY <2>4 DEF SpillThrows, WriteRestThrows, StreamInFileAndBuffer
  <2>5. QED
    BY <1>1, <2>2, <2>3, <2>4 DEF Write
<1>2. ASSUME NEW n \in 1 .. MaxPad, Pad(n)
      PROVE  StreamInFileAndBuffer'
  <2>1. n \in Nat \ {0} /\ status = "open" /\ Tell + n <= Size /\ Zeros(n) \in Data(n)
    BY <1>2, SinkAssumption, ZerosType DEF Pad, Admitted, Tell
  <2>2. CASE PutInBuffer(Zeros(n), n)
    BY <2>1, <2>2, PutInBufferStream
  <2>3. CASE n > Room /\ Pad_(n)
    <3>1. n - Room \in Nat /\ Chunk \in Nat /\ Room \in Nat
      BY <2>1, <2>3, SinkAssumption, SimpleSinkAssumption DEF TypeOK, Room
    <3>2. CASE n - Room >= Chunk
      <4>1. (n - Room) % Chunk # 0
        BY <1>2, <2>3 DEF Pad, LosesChunk
      <4>2. QED
        BY <2>1, <2>3, <3>2, <4>1, LongPadStream
    <3>3. CASE n - Room < Chunk
      <4>1. (n - Room) % Chunk = n - Room
        BY <3>1, <3>3
      <4>2. Copy(ToppedUp(Zeros(n)), 0, Zeros(n), 0, n - Room)
              = Copy(ToppedUp(Zeros(n)), 0, Zeros(n), Room, n - Room)
        <5>1. \A p \in DOMAIN ToppedUp(Zeros(n)) :
                0 <= p /\ p < 0 + (n - Room) => Zeros(n)[0 + p - 0] = Zeros(n)[Room + p - 0]
          BY <2>1, <3>1 DEF Zeros, ToppedUp, Copy, TypeOK, BufPos
        <5>2. QED
          BY <5>1 DEF Copy
      <4>3. QED
        BY <2>1, <2>3, <3>1, <3>3, <4>1, <4>2, ShortSpillStream DEF Pad_
    <3>4. QED
      BY <3>1, <3>2, <3>3
  <2>4. CASE SpillThrows(Zeros(n)) \/ PadLoopThrows(n)
    BY <2>4 DEF SpillThrows, PadLoopThrows, StreamInFileAndBuffer
  <2>5. QED
    BY <1>2, <2>2, <2>3, <2>4 DEF Pad
<1>3. CASE Flush
  <2>1. CASE FlushOk /\ UNCHANGED status
    <3>1. told \in Nat /\ told <= Size
      BY <1>3 DEF Flush, StreamInFileAndBuffer, TypeOK
    <3>2. QED
      BY <1>3, <2>1, <3>1, FlushStream DEF Flush, StreamInFileAndBuffer
  <2>2. CASE FlushThrows /\ status' = "failed"
    BY <2>2 DEF StreamInFileAndBuffer
  <2>3. QED
    BY <1>3, <2>1, <2>2 DEF Flush
<1>4. CASE Destroy
  BY <1>4 DEF Destroy, StreamInFileAndBuffer
<1>5. CASE UNCHANGED vars
  BY <1>5 DEF vars, StreamInFileAndBuffer
<1>6. QED
  BY <1>1, <1>2, <1>3, <1>4, <1>5 DEF Next

\* However the client cuts its stream into writes, flushes and pads, other than
\* those Pad_ loses a buffer of, every byte is in the file or in the buffer, in
\* its place.
THEOREM StreamKept ==
  ASSUME SafePads
  PROVE  Spec => []StreamInFileAndBuffer
<1>1. Init => StreamInFileAndBuffer
  BY SinkAssumption DEF Init, StreamInFileAndBuffer
<1>2. TypeOK /\ StreamInFileAndBuffer /\ [Next]_vars => StreamInFileAndBuffer'
  BY StreamStep
<1>3. QED
  BY <1>1, <1>2, TypeCorrect, PTL DEF Spec

-------------------------------------------------------------------------------
(* What holds when calls throw *)

\* Failed or not, no call moves offset beyond what io.Write has appended.
THEOREM OffsetKept == Spec => []OffsetInFile
<1>1. Init => OffsetInFile
  BY DEF Init, OffsetInFile
<1>2. ASSUME TypeOK, OffsetInFile, [Next]_vars PROVE OffsetInFile'
  <2>1. /\ offset \in Nat /\ wpos \in Nat /\ offset <= wpos /\ Chunk \in Nat \ {0}
        /\ buf_put \in Nat /\ buf_put <= Chunk /\ Room \in Nat
    BY <1>2, SimpleSinkAssumption DEF TypeOK, OffsetInFile, Room
  <2>2. ASSUME NEW n \in 1 .. MaxWrite, NEW data \in Data(n), Write(data, n)
        PROVE  OffsetInFile'
    <3>1. n \in Nat
      BY SinkAssumption
    <3>2. CASE PutInBuffer(data, n)
      BY <2>1, <3>2 DEF PutInBuffer, OffsetInFile
    <3>3. CASE n > Room /\ Write_(data, n)
      BY <2>1, <3>1, <3>3 DEF Write_, AfterSpill, IoWrite, IoWriteBoth, OffsetInFile
    <3>4. CASE SpillThrows(data)
      BY <2>1, <3>4 DEF SpillThrows, IoWrite, OffsetInFile
    <3>5. CASE WriteRestThrows(data, n)
      BY <2>1, <3>1, <3>5 DEF WriteRestThrows, IoWriteBoth, OffsetInFile
    <3>6. QED
      BY <2>2, <3>2, <3>3, <3>4, <3>5 DEF Write
  <2>3. ASSUME NEW n \in 1 .. MaxPad, Pad(n)
        PROVE  OffsetInFile'
    <3>1. n \in Nat
      BY SinkAssumption
    <3>2. CASE PutInBuffer(Zeros(n), n)
      BY <2>1, <3>2 DEF PutInBuffer, OffsetInFile
    <3>3. CASE n > Room /\ Pad_(n)
      <4>1. CASE n - Room >= Chunk
        <5>1. PadChunks(n - Room) * Chunk \in Nat
          BY <2>1, <3>1, <3>3, <4>1, PadChunksBound
        <5>2. QED
          BY <2>1, <3>3, <4>1, <5>1 DEF Pad_, IoWriteBoth, OffsetInFile
      <4>2. CASE ~(n - Room >= Chunk)
        BY <2>1, <3>3, <4>2 DEF Pad_, IoWrite, OffsetInFile
      <4>3. QED
        BY <4>1, <4>2
    <3>4. CASE SpillThrows(Zeros(n))
      BY <2>1, <3>4 DEF SpillThrows, IoWrite, OffsetInFile
    <3>5. CASE n > Room /\ PadLoopThrows(n)
      <4>1. PICK m \in 0 .. PadChunks(n - Room) - 1, k \in 0 .. Chunk - 1 :
              wpos' = wpos + Chunk + (m * Chunk + k)
        BY <3>5 DEF PadLoopThrows, IoWriteBoth
      <4>2. m \in Nat /\ k \in Nat
        BY <2>1, <3>1, <3>5, PadChunksBound DEF PadLoopThrows
      <4>3. m * Chunk \in Nat
        BY <2>1, <4>2
      <4>4. QED
        BY <2>1, <3>5, <4>1, <4>2, <4>3 DEF PadLoopThrows, OffsetInFile
    <3>6. QED
      BY <2>3, <3>2, <3>3, <3>4, <3>5 DEF Pad
  <2>4. CASE Flush \/ Destroy
    <3>1. CASE FlushOk
      BY <2>1, <3>1 DEF FlushOk, IoWrite, OffsetInFile
    <3>2. CASE FlushThrows
      BY <2>1, <3>2 DEF FlushThrows, IoWrite, OffsetInFile
    <3>3. QED
      BY <2>4, <3>1, <3>2 DEF Flush, Destroy
  <2>5. CASE UNCHANGED vars
    BY <1>2, <2>5 DEF vars, OffsetInFile
  <2>6. QED
    BY <1>2, <2>2, <2>3, <2>4, <2>5 DEF Next
<1>3. QED
  BY <1>1, <1>2, TypeCorrect, PTL DEF Spec

\* The acknowledged part of the topped up buffer is what was in the buffer.
LEMMA ToppedUpOld ==
  ASSUME TypeOK, StreamInFileAndBuffer, status = "open", NEW data
  PROVE  \A i \in 0 .. buf_put - 1 : ToppedUp(data)[i] = sent[offset + i]
<1>1. \A i \in 0 .. buf_put - 1 : i \in BufPos /\ i < buf_put
  BY SimpleSinkAssumption DEF TypeOK, BufPos
<1>2. QED
  BY <1>1 DEF ToppedUp, Copy, TypeOK, StreamInFileAndBuffer

\* The full buffer is written and what follows it throws: nothing acknowledged
\* is left for the destructor.
LEMMA RestThrowsInPlace ==
  ASSUME TypeOK, StreamInFileAndBuffer, status = "open",
         NEW data, NEW rest, NEW from, NEW k \in Nat,
         IoWriteBoth(ToppedUp(data), rest, from, k), UNCHANGED <<sent, told>>
  PROVE  told <= wpos' /\ wpos' \in Nat /\ \A p \in 0 .. told - 1 : file'[p] = sent[p]
<1>1. /\ told = offset + buf_put /\ wpos = offset /\ told <= Size /\ Size \in Nat
      /\ offset \in Nat /\ buf_put \in Nat /\ buf_put <= Chunk /\ Chunk \in Nat
  BY SinkAssumption, SimpleSinkAssumption DEF StreamInFileAndBuffer, TypeOK
<1>2. ASSUME NEW p \in 0 .. told - 1 PROVE file'[p] = sent[p]
  <2>1. p \in FilePos /\ p \in Nat /\ p < offset + Chunk /\ p < told
    BY <1>1 DEF FilePos
  <2>2. file'[p] = Copy(file, wpos, ToppedUp(data), 0, Chunk)[p]
    <3>1. DOMAIN Copy(file, wpos, ToppedUp(data), 0, Chunk) = FilePos
      BY DEF Copy, TypeOK
    <3>2. QED
      BY <1>1, <2>1, <3>1 DEF IoWriteBoth, Copy
  <2>3. Copy(file, wpos, ToppedUp(data), 0, Chunk)[p]
          = IF offset <= p THEN ToppedUp(data)[0 + p - offset] ELSE file[p]
    BY <1>1, <2>1 DEF Copy, TypeOK
  <2>4. CASE p < offset
    BY <1>1, <2>1, <2>2, <2>3, <2>4 DEF StreamInFileAndBuffer
  <2>5. CASE offset <= p
    <3>1. 0 + p - offset \in 0 .. buf_put - 1 /\ offset + (0 + p - offset) = p
      BY <1>1, <2>1, <2>5
    <3>2. ToppedUp(data)[0 + p - offset] = sent[offset + (0 + p - offset)]
      BY <3>1, ToppedUpOld
    <3>3. QED
      BY <2>2, <2>3, <2>5, <3>1, <3>2
  <2>6. QED
    BY <1>1, <2>1, <2>4, <2>5
<1>3. QED
  BY <1>1, <1>2 DEF IoWriteBoth

\* An io.Write that throws before it appends anything.
LEMMA NothingWritten ==
  ASSUME TypeOK, NEW data, NEW from, NEW k \in Nat, IoWrite(data, from, k), Tear(k), ~torn'
  PROVE  file' = file /\ wpos' = wpos /\ ~torn
<1>1. k = 0 /\ ~torn
  <2>1. ~torn /\ ~(k > 0)
    BY Zenon DEF Tear
  <2>2. QED
    BY <2>1
<1>2. QED
  BY <1>1, Positions DEF IoWrite, Copy, TypeOK

\* A flush that succeeds, after an exception or not, puts nothing out of place.
LEMMA FlushInPlace ==
  ASSUME TypeOK, ~torn, AcknowledgedInPlace, FlushOk,
         UNCHANGED <<sent, told>>
  PROVE  AcknowledgedInPlace'
<1>1. wpos \in Nat /\ buf_put \in Nat /\ told \in Nat /\ wpos' = wpos + buf_put /\ buf_put' = 0
  BY SimpleSinkAssumption DEF TypeOK, FlushOk, IoWrite
<1>2. ASSUME NEW p \in 0 .. told - 1, p < wpos' PROVE file'[p] = sent[p]
  <2>1. p \in Nat /\ p < told /\ p < wpos + buf_put
    BY <1>1, <1>2
  <2>2. p \in FilePos
    BY <1>1, <2>1, SinkAssumption, SimpleSinkAssumption DEF AcknowledgedInPlace, FilePos
  <2>3. file'[p] = IF wpos <= p /\ p < wpos + buf_put THEN buf[0 + p - wpos] ELSE file[p]
    BY <2>2 DEF FlushOk, IoWrite, Copy, TypeOK
  <2>4. CASE p < wpos
    BY <1>1, <2>1, <2>3, <2>4 DEF AcknowledgedInPlace
  <2>5. CASE wpos <= p
    <3>1. 0 + p - wpos \in 0 .. buf_put - 1 /\ wpos + (0 + p - wpos) = p
      BY <1>1, <1>2, <2>1, <2>5
    <3>2. buf[0 + p - wpos] = sent[wpos + (0 + p - wpos)]
      BY <2>1, <3>1 DEF AcknowledgedInPlace
    <3>3. QED
      BY <1>1, <1>2, <2>3, <2>5, <3>1, <3>2
  <2>6. QED
    BY <1>1, <2>1, <2>4, <2>5
<1>3. QED
  BY <1>1, <1>2 DEF AcknowledgedInPlace

\* A flush that throws changes nothing, or it has torn its bytes.
LEMMA FlushThrowsInPlace ==
  ASSUME TypeOK, AcknowledgedInPlace, FlushThrows, UNCHANGED <<buf, sent, told>>
  PROVE  AcknowledgedInPlace'
<1>1. CASE torn'
  BY <1>1 DEF AcknowledgedInPlace
<1>2. CASE ~torn'
  <2>1. PICK k \in 0 .. buf_put - 1 : IoWrite(buf, 0, k) /\ Tear(k)
    BY DEF FlushThrows
  <2>2. k \in Nat
    BY SimpleSinkAssumption DEF TypeOK
  <2>3. file' = file /\ wpos' = wpos /\ ~torn
    BY <1>2, <2>1, <2>2, NothingWritten
  <2>4. QED
    BY <2>3 DEF FlushThrows, AcknowledgedInPlace
<1>3. QED
  BY <1>1, <1>2

\* A Write or Pad whose first io.Write throws leaves the old bytes in the buffer.
LEMMA SpillThrowsInPlace ==
  ASSUME TypeOK, StreamInFileAndBuffer, AcknowledgedInPlace, status = "open",
         NEW data, SpillThrows(data)
  PROVE  AcknowledgedInPlace'
<1>1. UNCHANGED <<offset, sent, told>> /\ buf' = ToppedUp(data)
  BY DEF SpillThrows
<1>2. CASE torn'
  BY <1>1, <1>2 DEF AcknowledgedInPlace
<1>3. CASE ~torn'
  <2>1. PICK k \in 0 .. Chunk - 1 : IoWrite(ToppedUp(data), 0, k) /\ Tear(k)
    BY DEF SpillThrows
  <2>2. k \in Nat
    BY SimpleSinkAssumption
  <2>3. file' = file /\ wpos' = wpos /\ ~torn
    BY <1>3, <2>1, <2>2, NothingWritten
  <2>4. /\ told = offset + buf_put /\ wpos = offset /\ offset \in Nat /\ buf_put \in Nat
    BY SimpleSinkAssumption DEF StreamInFileAndBuffer, TypeOK
  <2>5. ASSUME NEW i \in 0 .. buf_put' - 1, wpos + i < told PROVE buf'[i] = sent[wpos + i]
    <3>1. buf_put' = Chunk
      BY DEF SpillThrows
    <3>2. i \in 0 .. Chunk - 1
      BY <3>1
    <3>3. i \in 0 .. buf_put - 1
      BY <2>4, <2>5, <3>2, SimpleSinkAssumption
    <3>4. ToppedUp(data)[i] = sent[offset + i]
      BY <3>3, ToppedUpOld
    <3>5. QED
      BY <1>1, <2>4, <3>4
  <2>6. QED
    BY <1>1, <2>3, <2>5 DEF AcknowledgedInPlace
<1>4. QED
  BY <1>2, <1>3

\* A Write or Pad that throws later has put everything acknowledged in the file.
LEMMA LateThrowsInPlace ==
  ASSUME TypeOK, StreamInFileAndBuffer, status = "open", NEW n \in Nat, NEW data, n > Room,
         WriteRestThrows(data, n) \/ PadLoopThrows(n)
  PROVE  AcknowledgedInPlace'
<1>1. n - Room \in Nat /\ Chunk \in Nat \ {0}
  BY SimpleSinkAssumption DEF TypeOK, Room
<1>2. \E d, rest, from : \E k \in Nat : IoWriteBoth(ToppedUp(d), rest, from, k)
  <2>1. CASE WriteRestThrows(data, n)
    <3>1. PICK k \in 0 .. n - Room - 1 : IoWriteBoth(ToppedUp(data), data, Room, k)
      BY <2>1 DEF WriteRestThrows
    <3>2. k \in Nat
      BY <1>1
    <3>3. QED
      BY <3>1, <3>2
  <2>2. CASE PadLoopThrows(n)
    <3>1. PICK m \in 0 .. PadChunks(n - Room) - 1, k \in 0 .. Chunk - 1 :
            IoWriteBoth(ToppedUp(Zeros(n)), Zeros(n), 0, m * Chunk + k)
      BY <2>2 DEF PadLoopThrows
    <3>2. m \in Nat /\ k \in Nat
      BY <1>1, <2>2, PadChunksBound DEF PadLoopThrows
    <3>3. m * Chunk + k \in Nat
      BY <1>1, <3>2
    <3>4. QED
      BY <3>1, <3>3
  <2>3. QED
    BY <2>1, <2>2
<1>3. UNCHANGED <<sent, told>>
  BY DEF WriteRestThrows, PadLoopThrows
<1>4. told <= wpos' /\ wpos' \in Nat /\ \A p \in 0 .. told - 1 : file'[p] = sent[p]
  BY <1>2, <1>3, RestThrowsInPlace
<1>5. told \in Nat /\ told <= Size
  BY DEF TypeOK, StreamInFileAndBuffer
<1>6. \A i \in 0 .. buf_put' - 1 : ~(wpos' + i < told')
  <2>1. ASSUME NEW i \in 0 .. buf_put' - 1 PROVE ~(wpos' + i < told)
    <3>1. i \in Nat
      OBVIOUS
    <3> DEFINE w == wpos'
    <3>2. w \in Nat /\ told <= w
      BY <1>4
    <3> HIDE DEF w
    <3>3. ~(w + i < told)
      BY <3>1, <3>2, <1>5
    <3>4. QED
      BY <3>3 DEF w
  <2>2. QED
    BY <2>1, <1>3
<1>7. QED
  BY <1>3, <1>4, <1>5, <1>6 DEF AcknowledgedInPlace

\* What the client has acknowledged is never displaced, whatever throws: by a
\* retry of the destructor least of all.
THEOREM AcknowledgedKept ==
  ASSUME SafePads
  PROVE  Spec => []AcknowledgedInPlace
<1>1. Init => AcknowledgedInPlace
  BY SinkAssumption DEF Init, AcknowledgedInPlace
<1>2. TypeOK /\ StreamInFileAndBuffer /\ status = "open" => AcknowledgedInPlace
  BY SimpleSinkAssumption DEF TypeOK, StreamInFileAndBuffer, AcknowledgedInPlace
<1>3. ASSUME TypeOK, StreamInFileAndBuffer, AcknowledgedInPlace, [Next]_vars,
             ~(status = "open")'
      PROVE  AcknowledgedInPlace'
  <2>1. ASSUME NEW n \in 1 .. MaxWrite, NEW data \in Data(n), Write(data, n)
        PROVE  AcknowledgedInPlace'
    <3>1. n \in Nat /\ status = "open"
      BY <2>1, SinkAssumption DEF Write, Admitted
    <3>2. n > Room /\ (SpillThrows(data) \/ WriteRestThrows(data, n))
      BY <1>3, <2>1, <3>1 DEF Write, PutInBuffer, Write_
    <3>3. QED
      BY <1>3, <3>1, <3>2, SpillThrowsInPlace, LateThrowsInPlace
  <2>2. ASSUME NEW n \in 1 .. MaxPad, Pad(n)
        PROVE  AcknowledgedInPlace'
    <3>1. n \in Nat /\ status = "open"
      BY <2>2, SinkAssumption DEF Pad, Admitted
    <3>2. n > Room /\ (SpillThrows(Zeros(n)) \/ PadLoopThrows(n))
      BY <1>3, <2>2, <3>1 DEF Pad, PutInBuffer, Pad_
    <3>3. QED
      BY <1>3, <3>1, <3>2, SpillThrowsInPlace, LateThrowsInPlace
  <2>3. CASE Flush \/ Destroy
    <3>1. UNCHANGED <<buf, sent, told>> /\ (FlushOk \/ FlushThrows)
      BY <2>3 DEF Flush, Destroy
    <3>2. CASE FlushThrows
      BY <1>3, <3>1, <3>2, FlushThrowsInPlace
    <3>3. CASE FlushOk
      <4>1. CASE torn
        BY <1>3, <3>1, <3>3, <4>1 DEF FlushOk, AcknowledgedInPlace
      <4>2. CASE ~torn
        BY <1>3, <3>1, <3>3, <4>2, FlushInPlace
      <4>3. QED
        BY <4>1, <4>2
    <3>4. QED
      BY <3>1, <3>2, <3>3
  <2>4. CASE UNCHANGED vars
    BY <1>3, <2>4 DEF vars, AcknowledgedInPlace
  <2>5. QED
    BY <1>3, <2>1, <2>2, <2>3, <2>4 DEF Next
<1>4. QED
  BY <1>1, <1>2, <1>3, TypeCorrect, StreamKept, PTL DEF Spec

-------------------------------------------------------------------------------
(* SimpleSink implements ByteStream *)

\* A call that returns appends its bytes to the abstract stream.
LEMMA CallAppends ==
  ASSUME TypeOK, StreamInFileAndBuffer, StreamInFileAndBuffer',
         status = "open", status' = "open",
         NEW n \in Nat, n <= MaxWrite \/ n <= MaxPad, n # 0,
         NEW data \in Data(n), Tell + n <= Size, Acknowledge(data, n)
  PROVE  Stream!Next
<1> DEFINE m == IF MaxWrite >= MaxPad THEN MaxWrite ELSE MaxPad
<1>1. n \in 1 .. m
  BY SinkAssumption
<1>2. /\ told \in Nat /\ Tell = told /\ told + n <= Size
      /\ told' = told + n /\ Tell' = Tell + n
  BY DEF TypeOK, StreamInFileAndBuffer, Tell, Acknowledge
<1>3. ASSUME NEW p \in DOMAIN sent
      PROVE  IF told <= p /\ p < told + n THEN sent'[p] \in Byte ELSE sent'[p] = sent[p]
  BY <1>2, SinkAssumption DEF Acknowledge, Copy, Data, TypeOK, Pos
<1>4. Stream!Append(n)
  BY <1>2, <1>3 DEF Stream!Append
<1>5. QED
  BY <1>1, <1>4 DEF Stream!Next

\* Every SimpleSink is a ByteStream: a client sees its bytes in the order of its
\* calls, Tell() counts them, and they are the file once the sink is destroyed
\* without an error.
THEOREM Implements ==
  ASSUME SafePads
  PROVE  Spec => ImplementsByteStream
<1>1. Init => Stream!Init
  BY DEF Init, Stream!Init, Tell
<1>2. ASSUME TypeOK, TypeOK', StreamInFileAndBuffer, StreamInFileAndBuffer', [Next]_vars
      PROVE  [Stream!Next]_Stream!vars
  <2>1. Tell' \in Nat
    <3>1. offset' \in Nat /\ buf_put' \in Nat
      BY <1>2, SimpleSinkAssumption DEF TypeOK
    <3>2. \A a, b \in Nat : a + b \in Nat
      OBVIOUS
    <3>3. QED
      BY <3>1, <3>2, Zenon DEF Tell
  <2>2. ASSUME NEW n \in 1 .. MaxWrite, NEW data \in Data(n), Write(data, n)
        PROVE  Stream!Next
    <3>1. n \in Nat /\ n # 0 /\ n <= MaxWrite /\ status = "open" /\ Tell + n <= Size
      BY <2>2, SinkAssumption DEF Write, Admitted, Tell
    <3>2. CASE PutInBuffer(data, n) \/ Write_(data, n)
      BY <1>2, <3>1, <3>2, CallAppends DEF PutInBuffer, Write_
    <3>3. CASE SpillThrows(data) \/ WriteRestThrows(data, n)
      BY <2>1, <3>1, <3>3 DEF SpillThrows, WriteRestThrows, Stream!Next, Stream!Fail
    <3>4. QED
      BY <2>2, <3>2, <3>3 DEF Write
  <2>3. ASSUME NEW n \in 1 .. MaxPad, Pad(n)
        PROVE  Stream!Next
    <3>1. /\ n \in Nat /\ n # 0 /\ n <= MaxPad /\ status = "open" /\ Tell + n <= Size
          /\ Zeros(n) \in Data(n)
      BY <2>3, SinkAssumption, ZerosType DEF Pad, Admitted, Tell
    <3>2. CASE PutInBuffer(Zeros(n), n) \/ Pad_(n)
      BY <1>2, <3>1, <3>2, CallAppends DEF PutInBuffer, Pad_
    <3>3. CASE SpillThrows(Zeros(n)) \/ PadLoopThrows(n)
      BY <2>1, <3>1, <3>3 DEF SpillThrows, PadLoopThrows, Stream!Next, Stream!Fail
    <3>4. QED
      BY <2>3, <3>2, <3>3 DEF Pad
  <2>4. CASE Flush
    <3>1. CASE FlushOk /\ UNCHANGED status
      <4>1. Tell' = Tell
        BY <1>2, <3>1, SimpleSinkAssumption DEF FlushOk, Tell, TypeOK
      <4>2. QED
        BY <2>4, <3>1, <4>1 DEF Flush, Stream!Next, Stream!Flushed
    <3>2. CASE FlushThrows /\ status' = "failed"
      BY <2>1, <2>4, <3>2 DEF Flush, Stream!Next, Stream!Fail
    <3>3. QED
      BY <2>4, <3>1, <3>2 DEF Flush
  <2>5. CASE Destroy
    <3>1. CASE status = "open" /\ FlushOk /\ status' = "closed"
      <4>1. Tell' = Tell
        BY <1>2, <3>1, SimpleSinkAssumption DEF FlushOk, Tell, TypeOK
      <4>2. \A p \in 0 .. told - 1 : file'[p] = sent[p]
        BY <1>2, <2>5, <3>1, FlushStream DEF Destroy
      <4>3. QED
        BY <2>5, <3>1, <4>1, <4>2 DEF Destroy, Stream!Next, Stream!Close
    <3>2. CASE status \in {"open", "failed"} /\ status' = "abandoned"
      BY <2>1, <2>5, <3>2 DEF Destroy, Stream!Next, Stream!Abandon
    <3>3. QED
      BY <2>5, <3>1, <3>2 DEF Destroy
  <2>6. CASE UNCHANGED vars
    BY <2>6 DEF vars, Tell, Stream!vars
  <2>7. QED
    BY <1>2, <2>2, <2>3, <2>4, <2>5, <2>6 DEF Next
<1>3. QED
  BY <1>1, <1>2, TypeCorrect, StreamKept, PTL DEF Spec, ImplementsByteStream, Stream!Spec

================================================================================
