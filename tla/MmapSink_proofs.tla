---------------------------- MODULE MmapSink_proofs ----------------------------
(***************************************************************************)
(* Proofs about MmapSink, for every size, window, limit and byte set.      *)
(***************************************************************************)
EXTENDS MmapSink, TLAPS

\* Where the window is between calls, and that nothing of the stream is behind
\* it: a window is all of a small file, or as large as what is left allows.
Window ==
  status = "open" =>
    /\ told = Tell /\ Tell <= Size
    /\ buf_put <= buf_size
    /\ mapped => \/ Size < Limit /\ offset = 0 /\ buf_size = Size
                 \/ /\ Size >= Limit /\ offset < Size
                    /\ buf_size = Lower(Chunk, Size - offset)
    /\ ~mapped => offset = Size /\ buf_put = 0

\* The inductive invariant.
WindowInv == TypeOK /\ Window /\ StreamThenZeros

-------------------------------------------------------------------------------
(* Numbers *)

\* What is sent directly and what goes through the next window are all of it.
LEMMA DirectAndRest ==
  ASSUME NEW len \in Nat
  PROVE  /\ Direct(len) \in Nat /\ Direct(len) <= len
         /\ len % Chunk \in 0 .. Chunk - 1
         /\ Direct(len) + (len % Chunk) = len
<1> DEFINE q == len \div Chunk
           r == len % Chunk
<1>1. q \in Nat /\ r \in 0 .. Chunk - 1 /\ len = q * Chunk + r
  BY MmapSinkAssumption, SMT
<1> HIDE DEF q
<1>2. q * Chunk \in Nat
  BY <1>1, MmapSinkAssumption
<1>3. Direct(len) = q * Chunk
  BY DEF Direct, q
<1>4. QED
  BY <1>1, <1>2, <1>3

\* The numbers of a call that overruns the window: there is a window, it is a
\* whole one, and there is more file behind it, at least what does not fit.
LEMMA Overrun ==
  ASSUME TypeOK, Window, NEW n \in Nat \ {0}, Admitted(n), n > Room
  PROVE  /\ mapped /\ Size >= Limit /\ buf_size = Chunk
         /\ Room \in Nat /\ n - Room \in Nat \ {0}
         /\ PastWindow \in Nat /\ PastWindow < Size
         /\ PastWindow = Tell + Room
         /\ PastWindow + (n - Room) = Tell + n
         /\ Tell + n <= Size
BY SinkAssumption, MmapSinkAssumption
   DEF TypeOK, Window, Admitted, Room, PastWindow, Tell, Lower

-------------------------------------------------------------------------------
(* Copies *)

\* Copying a piece behind a piece is copying both.
LEMMA CopyCopy ==
  \A dst, src : \A at \in Int, m, k \in Nat : DOMAIN dst \subseteq Int =>
    Copy(Copy(dst, at, src, 0, m), at + m, src, m, k) = Copy(dst, at, src, 0, m + k)
BY DEF Copy

\* The tail of the window and k bytes behind it are one piece of the stream.
LEMMA TailAndDirectCopy ==
  ASSUME TypeOK, Window, NEW n \in Nat \ {0}, Admitted(n), n > Room, NEW data, NEW k \in Nat
  PROVE  TailAndDirect(data, k) = Copy(file, Tell, data, 0, Room + k)
<1>1. Room \in Nat /\ Tell \in Int
  BY Overrun DEF TypeOK, Tell
<1>2. DOMAIN file \subseteq Int
  BY DEF TypeOK, Pos
<1>3. Copy(Copy(file, Tell, data, 0, Room), Tell + Room, data, Room, k)
        = Copy(file, Tell, data, 0, Room + k)
  BY <1>1, <1>2, CopyCopy
<1>4. TailAndDirect(data, k) = Copy(Copy(file, Tell, data, 0, Room), Tell + Room, data, Room, k)
  BY Overrun DEF TailAndDirect
<1>5. QED
  BY <1>3, <1>4

\* Copied data are bytes.
LEMMA CopyType ==
  ASSUME NEW f \in [Pos -> Byte], NEW n \in Nat, NEW data \in Data(n), NEW at \in Nat,
         NEW m \in 0 .. n
  PROVE  Copy(f, at, data, 0, m) \in [Pos -> Byte]
BY DEF Copy, Data, Pos

LEMMA ZerosType == ASSUME NEW n \in Nat PROVE Zeros(n) \in Data(n)
BY SinkAssumption DEF Zeros, Data

-------------------------------------------------------------------------------
(* The calls that return *)

\* A call that put its bytes at the end of the stream, or left the zeros that
\* were there: the file is again the stream and zeros.
LEMMA Appended ==
  ASSUME WindowInv, status = "open", NEW n \in Nat \ {0}, Tell + n <= Size,
         NEW data \in Data(n), Acknowledge(data, n),
         \A p \in Pos : file'[p] = IF Tell <= p /\ p < Tell + n THEN data[p - Tell] ELSE file[p],
         Tell' = Tell + n
  PROVE  /\ StreamThenZeros'
         /\ sent' \in [Pos -> Byte] /\ told' \in Nat
         /\ told' = Tell' /\ Tell' <= Size
<1>1. Tell \in Nat /\ told = Tell
  BY DEF WindowInv, TypeOK, Window, Tell
<1>2. sent' = Copy(sent, Tell, data, 0, n) /\ told' = Tell + n
  BY <1>1 DEF Acknowledge
<1>3. sent' \in [Pos -> Byte]
  BY <1>1, <1>2, CopyType DEF WindowInv, TypeOK
<1>4. ASSUME NEW p \in Pos
      PROVE  file'[p] = IF p < Tell + n THEN sent'[p] ELSE Zero
  <2>1. p \in Nat
    BY DEF Pos
  <2>2. sent'[p] = IF Tell <= p /\ p < Tell + n THEN data[0 + p - Tell] ELSE sent[p]
    BY <1>2 DEF Copy, WindowInv, TypeOK
  <2>3. file[p] = IF p < Tell THEN sent[p] ELSE Zero
    BY DEF WindowInv, StreamThenZeros
  <2>4. 0 + p - Tell = p - Tell
    BY <1>1, <2>1
  <2>5. QED
    BY <1>1, <2>1, <2>2, <2>3, <2>4
<1>5. QED
  <2>1. StreamThenZeros'
    BY <1>4 DEF StreamThenZeros
  <2>2. QED
    BY <1>1, <1>2, <1>3, <2>1

\* The next window, when it is mapped, holds the rest of the call; there is none
\* only behind the end of the file, where nothing is counted any more.
LEMMA NextWindow ==
  ASSUME WindowInv, status = "open", status' = "open",
         NEW n \in Nat \ {0}, Admitted(n), n > Room,
         NEW put, PastWindow + Direct(n - Room) = Size => put = 0,
         MapNext(PastWindow + Direct(n - Room), put, (n - Room) % Chunk),
         told' = Tell + n
  PROVE  /\ offset' \in Nat /\ buf_put' \in Nat /\ buf_size' \in 1 .. Size
         /\ mapped' \in BOOLEAN
         /\ Tell' = Tell + n
         /\ Window'
<1> DEFINE off == PastWindow + Direct(n - Room)
           rest == (n - Room) % Chunk
<1>1. /\ Size >= Limit /\ Room \in Nat /\ n - Room \in Nat \ {0}
      /\ PastWindow \in Nat /\ PastWindow < Size
      /\ PastWindow + (n - Room) = Tell + n /\ Tell + n <= Size
      /\ buf_size = Chunk
  BY Overrun DEF WindowInv
<1>2. /\ Direct(n - Room) \in Nat
      /\ rest \in 0 .. Chunk - 1
      /\ Direct(n - Room) + rest = n - Room
  BY <1>1, DirectAndRest
<1>3. off \in Nat /\ rest \in Nat /\ rest < Chunk /\ off + rest = Tell + n /\ off <= Size
      /\ Tell + n \in Nat
  <2> DEFINE d == Direct(n - Room)
             m == n - Room
  <2>1. d \in Nat /\ rest \in 0 .. Chunk - 1 /\ d + rest = m /\ m \in Nat
    BY <1>1, <1>2
  <2>2. Tell \in Nat /\ PastWindow + m = Tell + n /\ Tell + n <= Size
    BY <1>1 DEF WindowInv, TypeOK, Tell
  <2> HIDE DEF d, m, rest
  <2>3. PastWindow + d \in Nat /\ PastWindow + d + rest = Tell + n /\ PastWindow + d <= Size
    BY <1>1, <2>1, <2>2, SinkAssumption, MmapSinkAssumption
  <2>4. QED
    BY <2>1, <2>2, <2>3, MmapSinkAssumption DEF d
<1>4. /\ offset' = off
      /\ mapped' = (off < Size)
      /\ buf_put' = IF off < Size THEN rest ELSE put
      /\ buf_size' = IF off < Size THEN Lower(Chunk, Size - off) ELSE buf_size
  BY Zenon DEF MapNext, MoreFile, WindowSize
<1>5. off = Size => put = 0
  OBVIOUS
<1> HIDE DEF off, rest
<1>6. CASE off < Size
  <2>1. buf_put' = rest /\ mapped' = TRUE /\ buf_size' = Lower(Chunk, Size - off)
    BY <1>4, <1>6
  <2>2. Lower(Chunk, Size - off) \in 1 .. Size /\ rest <= Lower(Chunk, Size - off)
    BY <1>1, <1>3, <1>6, SinkAssumption, MmapSinkAssumption DEF Lower
  <2>3. offset' + buf_put' = Tell + n
    BY <1>3, <1>4, <2>1
  <2>4. QED
    BY <1>1, <1>3, <1>4, <1>6, <2>1, <2>2, <2>3 DEF Window, Tell
<1>7. CASE ~(off < Size)
  <2>1. off = Size /\ rest = 0
    BY <1>1, <1>3, <1>7, SinkAssumption
  <2>2. buf_put' = 0 /\ ~mapped' /\ mapped' \in BOOLEAN /\ buf_size' = buf_size
    <3>1. buf_put' = put /\ buf_size' = buf_size
      BY <1>4, <1>7, Zenon
    <3>2. mapped' = (off < Size)
      BY <1>4
    <3>3. ~mapped'
      BY <1>7, <3>2, Zenon
    <3>4. mapped' \in BOOLEAN
      BY <3>2, SMT
    <3>5. QED
      BY <1>5, <2>1, <3>1, <3>3, <3>4
  <2>3. offset' + buf_put' = Tell + n
    BY <1>3, <1>4, <2>1, <2>2
  <2>4. QED
    BY <1>1, <1>3, <1>4, <2>1, <2>2, <2>3 DEF Window, WindowInv, TypeOK, Tell
<1>8. QED
  BY <1>6, <1>7

\* A call that stays in the window.
LEMMA StaysInWindow ==
  ASSUME WindowInv, NEW n \in Nat \ {0}, Admitted(n), n <= Room, NEW data \in Data(n),
         file' = Copy(file, Tell, data, 0, n),
         buf_put' = buf_put + n, Acknowledge(data, n),
         UNCHANGED <<offset, buf_size, mapped, status>>
  PROVE  WindowInv' /\ Tell' = Tell + n
<1>1. /\ offset \in Nat /\ buf_put \in Nat /\ buf_size \in 1 .. Size /\ told = Tell
      /\ status = "open" /\ Tell = offset + buf_put /\ Tell + n <= Size
      /\ buf_put + n <= buf_size
  BY SinkAssumption DEF WindowInv, TypeOK, Window, Admitted, Tell, Room
<1>2. Tell' = Tell + n
  BY <1>1 DEF Tell
<1>3. file' \in [Pos -> Byte]
  <2>1. Tell \in Nat /\ n \in 0 .. n
    BY <1>1
  <2>2. QED
    BY <2>1, CopyType DEF WindowInv, TypeOK
<1>4. \A p \in Pos : file'[p] = IF Tell <= p /\ p < Tell + n THEN data[p - Tell] ELSE file[p]
  BY <1>1 DEF WindowInv, TypeOK, Copy, Pos
<1>5. /\ StreamThenZeros' /\ sent' \in [Pos -> Byte] /\ told' \in Nat
      /\ told' = Tell' /\ Tell' <= Size
  BY <1>1, <1>2, <1>4, Appended
<1>6. Window'
  BY <1>1, <1>2, <1>5 DEF Window, WindowInv
<1>7. TypeOK'
  BY <1>1, <1>3, <1>5 DEF TypeOK, WindowInv
<1>8. QED
  BY <1>2, <1>5, <1>6, <1>7 DEF WindowInv

\* A Write that overruns the window: its three pieces are one copy.
LEMMA WriteOverruns ==
  ASSUME WindowInv, NEW n \in Nat \ {0}, Admitted(n), n > Room, NEW data \in Data(n),
         Write_(data, n)
  PROVE  WindowInv' /\ Tell' = Tell + n
<1> DEFINE to_write == Direct(n - Room)
           off == PastWindow + to_write
<1>1. /\ Room \in Nat /\ n - Room \in Nat \ {0} /\ PastWindow \in Nat /\ PastWindow < Size
      /\ PastWindow = Tell + Room /\ PastWindow + (n - Room) = Tell + n /\ Tell + n <= Size
  BY Overrun DEF WindowInv
<1>2. /\ to_write \in Nat /\ to_write + ((n - Room) % Chunk) = n - Room
      /\ (n - Room) % Chunk \in Nat
  BY <1>1, DirectAndRest, MmapSinkAssumption
<1>3. status = "open" /\ status' = "open" /\ told = Tell /\ Tell \in Nat /\ told' = Tell + n
  BY DEF Admitted, Write_, WindowInv, TypeOK, Window, Tell, Acknowledge
<1>4. MapNext(off, PutBeforeMap(to_write), (n - Room) % Chunk)
  <2>1. n - Room - to_write = (n - Room) % Chunk
    BY <1>1, <1>2
  <2>2. MapNext(off, PutBeforeMap(to_write), n - Room - to_write)
    BY DEF Write_
  <2>3. QED
    BY <2>1, <2>2
<1>5. off = Size => PutBeforeMap(to_write) = 0
  BY <1>1, <1>2 DEF PutBeforeMap
<1>6. /\ offset' \in Nat /\ buf_put' \in Nat /\ buf_size' \in 1 .. Size
      /\ mapped' \in BOOLEAN /\ Tell' = Tell + n /\ Window'
  BY <1>3, <1>4, <1>5, NextWindow
<1>7. file' = Copy(file, Tell, data, 0, n)
  <2>1. file' = Copy(TailAndDirect(data, to_write), off, data, Room + to_write, n - Room - to_write)
    BY DEF Write_
  <2>2. TailAndDirect(data, to_write) = Copy(file, Tell, data, 0, Room + to_write)
    BY <1>2, TailAndDirectCopy DEF WindowInv
  <2>3. /\ off = Tell + (Room + to_write) /\ Room + to_write \in Nat
        /\ n - Room - to_write \in Nat /\ (Room + to_write) + (n - Room - to_write) = n
    BY <1>1, <1>2, <1>3
  <2>4. DOMAIN file \subseteq Int
    BY DEF WindowInv, TypeOK, Pos
  <2> HIDE DEF off, to_write
  <2> DEFINE m == Room + to_write
             k == n - Room - to_write
  <2>5. m \in Nat /\ k \in Nat
    BY <2>3
  <2>6. Tell \in Int
    BY <1>3
  <2>7. Copy(Copy(file, Tell, data, 0, m), Tell + m, data, m, k)
          = Copy(file, Tell, data, 0, m + k)
    <3> HIDE DEF m, k
    <3>1. QED
      BY <2>4, <2>5, <2>6, CopyCopy
  <2>8. QED
    BY <2>1, <2>2, <2>3, <2>7
<1>8. file' \in [Pos -> Byte]
  BY <1>3, <1>7, CopyType DEF WindowInv, TypeOK
<1>9. \A p \in Pos : file'[p] = IF Tell <= p /\ p < Tell + n THEN data[p - Tell] ELSE file[p]
  BY <1>3, <1>7 DEF WindowInv, TypeOK, Copy, Pos
<1>10. StreamThenZeros' /\ sent' \in [Pos -> Byte] /\ told' \in Nat
  <2>1. Acknowledge(data, n)
    BY DEF Write_
  <2>2. QED
    BY <1>1, <1>3, <1>6, <1>9, <2>1, Appended
<1>11. TypeOK'
  BY <1>3, <1>6, <1>8, <1>10 DEF TypeOK
<1>12. QED
  BY <1>6, <1>10, <1>11 DEF WindowInv

\* A Pad that overruns the window and is not miscounted: what it skips is zero.
LEMMA PadOverruns ==
  ASSUME WindowInv, NEW n \in Nat \ {0}, Admitted(n), n > Room, ~MiscountsEnd(n), Pad_(n)
  PROVE  WindowInv' /\ Tell' = Tell + n
<1>1. Room \in Nat /\ n - Room \in Nat \ {0} /\ Tell + n <= Size
  BY Overrun DEF WindowInv
<1>2. /\ status = "open" /\ status' = "open" /\ told = Tell /\ Tell \in Nat
      /\ told' = Tell + n /\ Acknowledge(Zeros(n), n)
  BY DEF Admitted, Pad_, WindowInv, TypeOK, Window, Tell, Acknowledge
<1>3. PastWindow + Direct(n - Room) = Size => buf_size = 0
  BY DEF MiscountsEnd
<1>4. /\ offset' \in Nat /\ buf_put' \in Nat /\ buf_size' \in 1 .. Size
      /\ mapped' \in BOOLEAN /\ Tell' = Tell + n /\ Window'
  BY <1>2, <1>3, NextWindow DEF Pad_
<1>5. file' = Copy(file, Tell, Zeros(n), 0, Room)
  BY DEF Pad_
<1>6. Zeros(n) \in Data(n) /\ Room \in 0 .. n
  BY <1>1, ZerosType
<1>7. file' \in [Pos -> Byte]
  BY <1>2, <1>5, <1>6, CopyType DEF WindowInv, TypeOK
<1>8. ASSUME NEW p \in Pos
      PROVE  file'[p] = IF Tell <= p /\ p < Tell + n THEN Zeros(n)[p - Tell] ELSE file[p]
  <2>1. p \in Nat
    BY DEF Pos
  <2>2. file'[p] = IF Tell <= p /\ p < Tell + Room THEN Zeros(n)[0 + p - Tell] ELSE file[p]
    BY <1>5 DEF Copy, WindowInv, TypeOK
  <2>3. 0 + p - Tell = p - Tell
    BY <1>2, <2>1
  <2>4. Tell <= p /\ p < Tell + n => Zeros(n)[p - Tell] = Zero
    BY <1>2, <2>1 DEF Zeros
  <2>5. Tell <= p => file[p] = Zero
    BY <1>2, <2>1 DEF WindowInv, StreamThenZeros
  <2>6. QED
    BY <1>1, <1>2, <2>1, <2>2, <2>3, <2>4, <2>5
<1>9. StreamThenZeros' /\ sent' \in [Pos -> Byte] /\ told' \in Nat
  BY <1>1, <1>2, <1>4, <1>6, <1>8, Appended
<1>10. TypeOK'
  BY <1>2, <1>4, <1>7, <1>9 DEF TypeOK
<1>11. QED
  BY <1>4, <1>9, <1>10 DEF WindowInv

-------------------------------------------------------------------------------
(* The calls that throw, and the invariant *)

\* What a call that throws has written is at the end of the stream.
LEMMA ThrowsBehind ==
  ASSUME WindowInv, AcknowledgedInFile, status = "open", NEW n \in Nat \ {0},
         NEW data \in Data(n), NEW m \in 0 .. n, file' = Copy(file, Tell, data, 0, m),
         UNCHANGED <<sent, told>>
  PROVE  file' \in [Pos -> Byte] /\ AcknowledgedInFile'
<1>1. Tell \in Nat /\ told = Tell /\ Tell <= Size
  BY DEF WindowInv, TypeOK, Window, Tell
<1>2. file' \in [Pos -> Byte]
  BY <1>1, CopyType DEF WindowInv, TypeOK
<1>3. ASSUME NEW p \in 0 .. told - 1 PROVE file'[p] = sent[p]
  <2>1. p \in Pos /\ ~(Tell <= p)
    BY <1>1, SinkAssumption DEF Pos
  <2>2. file'[p] = file[p]
    BY <2>1 DEF Copy, WindowInv, TypeOK
  <2>3. QED
    BY <2>2 DEF AcknowledgedInFile
<1>4. QED
  BY <1>2, <1>3 DEF AcknowledgedInFile

\* A state after an exception has only its types to keep.
LEMMA Failed ==
  ASSUME status' = "failed", TypeOK'
  PROVE  WindowInv'
BY DEF WindowInv, Window, StreamThenZeros

LEMMA WriteFails ==
  ASSUME WindowInv, AcknowledgedInFile, NEW n \in Nat \ {0}, Admitted(n), n > Room,
         NEW data \in Data(n), WriteThrows(data, n)
  PROVE  WindowInv' /\ AcknowledgedInFile' /\ status' = "failed" /\ UNCHANGED <<sent, told>>
<1> DEFINE to_write == Direct(n - Room)
<1>1. /\ Room \in Nat /\ n - Room \in Nat /\ PastWindow \in Nat
      /\ to_write \in Nat /\ to_write <= n - Room
  BY Overrun, DirectAndRest DEF WindowInv
<1>2. UNCHANGED <<sent, told, buf_size, mapped>> /\ status' = "failed" /\ status = "open"
  BY DEF WriteThrows, MapNextThrows, Admitted
<1>3. offset' \in Nat /\ buf_put' \in Nat
  <2>1. buf_size \in Nat /\ PastWindow + to_write \in Nat
    BY <1>1 DEF WindowInv, TypeOK
  <2>2. QED
    BY <1>1, <2>1 DEF WriteThrows, MapNextThrows, PutBeforeMap
<1>4. \E k \in 0 .. to_write : file' = TailAndDirect(data, k)
  <2>1. to_write \in 0 .. to_write /\ 0 .. to_write - 1 \subseteq 0 .. to_write
    BY <1>1
  <2>2. \/ \E k \in 0 .. to_write - 1 : file' = TailAndDirect(data, k)
        \/ file' = TailAndDirect(data, to_write)
    BY DEF WriteThrows
  <2> HIDE DEF to_write
  <2>3. QED
    BY <2>1, <2>2
<1>5. PICK k \in 0 .. to_write : file' = TailAndDirect(data, k)
  BY <1>4
<1>6. k \in Nat /\ Room + k \in 0 .. n
  BY <1>1
<1>7. file' = Copy(file, Tell, data, 0, Room + k)
  BY <1>5, <1>6, TailAndDirectCopy DEF WindowInv
<1>8. file' \in [Pos -> Byte] /\ AcknowledgedInFile'
  BY <1>2, <1>6, <1>7, ThrowsBehind
<1>9. TypeOK'
  BY <1>2, <1>3, <1>8 DEF TypeOK, WindowInv
<1>10. QED
  BY <1>2, <1>8, <1>9, Failed

LEMMA PadFails ==
  ASSUME WindowInv, AcknowledgedInFile, NEW n \in Nat \ {0}, Admitted(n), n > Room,
         PadThrows(n)
  PROVE  WindowInv' /\ AcknowledgedInFile' /\ status' = "failed" /\ UNCHANGED <<sent, told>>
<1>1. /\ Room \in 0 .. n /\ PastWindow + Direct(n - Room) \in Nat
  BY Overrun, DirectAndRest DEF WindowInv
<1>2. /\ UNCHANGED <<sent, told, buf_size, mapped>> /\ status' = "failed" /\ status = "open"
      /\ offset' = PastWindow + Direct(n - Room) /\ buf_put' = buf_size
      /\ file' = Copy(file, Tell, Zeros(n), 0, Room)
  BY DEF PadThrows, MapNextThrows, Admitted
<1>3. file' \in [Pos -> Byte] /\ AcknowledgedInFile'
  BY <1>1, <1>2, ZerosType, ThrowsBehind
<1>4. buf_put' \in Nat
  BY <1>2 DEF WindowInv, TypeOK
<1>5. TypeOK'
  BY <1>1, <1>2, <1>3, <1>4 DEF TypeOK, WindowInv
<1>6. QED
  BY <1>2, <1>3, <1>5, Failed

\* Between calls the file is the stream.
LEMMA OpenAcknowledged ==
  ASSUME WindowInv, status = "open"
  PROVE  AcknowledgedInFile
BY SinkAssumption DEF WindowInv, TypeOK, Window, StreamThenZeros, AcknowledgedInFile, Pos

LEMMA InitWindow == Init => WindowInv
<1> SUFFICES ASSUME Init PROVE WindowInv
  OBVIOUS
<1>1. TypeOK
  BY SinkAssumption, MmapSinkAssumption DEF Init, TypeOK, FirstWindow
<1>2. Window
  BY SinkAssumption, MmapSinkAssumption DEF Init, Window, FirstWindow, Tell, Lower
<1>3. StreamThenZeros
  BY DEF Init, StreamThenZeros
<1>4. QED
  BY <1>1, <1>2, <1>3 DEF WindowInv

\* The same of the next state.
LEMMA OpenPrimed ==
  ASSUME WindowInv', status' = "open"
  PROVE  AcknowledgedInFile'
BY SinkAssumption DEF WindowInv, TypeOK, Window, StreamThenZeros, AcknowledgedInFile, Pos

\* Every call of the client that is safe appends its bytes, or throws.
LEMMA CallStep ==
  ASSUME SafePads, WindowInv, AcknowledgedInFile, NEW n \in Nat \ {0}, NEW data \in Data(n),
         Write(data, n) \/ (data = Zeros(n) /\ Pad(n))
  PROVE  /\ status = "open" /\ Tell + n <= Size
         /\ WindowInv' /\ AcknowledgedInFile'
         /\ \/ status' = "open" /\ Tell' = Tell + n /\ Acknowledge(data, n)
            \/ status' = "failed" /\ UNCHANGED <<sent, told>>
<1>1. Admitted(n) /\ status = "open" /\ Tell + n <= Size
  BY DEF Write, Pad, Admitted, Tell
<1>2. CASE WriteInWindow(data, n) \/ (data = Zeros(n) /\ PadInWindow(n))
  <2>1. /\ n <= Room /\ file' = Copy(file, Tell, data, 0, n)
        /\ buf_put' = buf_put + n /\ Acknowledge(data, n)
        /\ UNCHANGED <<offset, buf_size, mapped, status>>
    BY <1>2 DEF WriteInWindow, PadInWindow
  <2>2. WindowInv' /\ Tell' = Tell + n /\ status' = "open"
    BY <1>1, <2>1, StaysInWindow
  <2>3. QED
    BY <1>1, <2>1, <2>2, OpenPrimed
<1>3. CASE n > Room /\ Write_(data, n)
  <2>1. WindowInv' /\ Tell' = Tell + n /\ status' = "open" /\ Acknowledge(data, n)
    BY <1>1, <1>3, WriteOverruns DEF Write_
  <2>2. QED
    BY <1>1, <2>1, OpenPrimed
<1>4. CASE n > Room /\ data = Zeros(n) /\ Pad_(n) /\ ~MiscountsEnd(n)
  <2>1. WindowInv' /\ Tell' = Tell + n /\ status' = "open" /\ Acknowledge(data, n)
    BY <1>1, <1>4, PadOverruns DEF Pad_
  <2>2. QED
    BY <1>1, <2>1, OpenPrimed
<1>5. CASE n > Room /\ WriteThrows(data, n)
  BY <1>1, <1>5, WriteFails
<1>6. CASE n > Room /\ PadThrows(n)
  BY <1>1, <1>6, PadFails
<1>7. QED
  BY <1>2, <1>3, <1>4, <1>5, <1>6 DEF Write, Pad

\* Every step keeps the window in place and the stream in the file.
LEMMA NextWindowInv ==
  ASSUME SafePads, WindowInv, AcknowledgedInFile, [Next]_vars
  PROVE  WindowInv' /\ AcknowledgedInFile'
<1>1. ASSUME NEW n \in 1 .. MaxWrite, NEW data \in Data(n), Write(data, n)
      PROVE  WindowInv' /\ AcknowledgedInFile'
  <2>1. n \in Nat \ {0}
    BY SinkAssumption
  <2>2. QED
    BY <1>1, <2>1, CallStep
<1>2. ASSUME NEW n \in 1 .. MaxPad, Pad(n)
      PROVE  WindowInv' /\ AcknowledgedInFile'
  <2>1. n \in Nat \ {0} /\ Zeros(n) \in Data(n)
    BY SinkAssumption, ZerosType
  <2>2. QED
    BY <1>2, <2>1, CallStep
<1>3. CASE Destroy
  <2>1. TypeOK' /\ status' # "open"
    BY <1>3 DEF Destroy, WindowInv, TypeOK
  <2>2. QED
    BY <1>3, <2>1 DEF Destroy, WindowInv, Window, StreamThenZeros, AcknowledgedInFile
<1>4. CASE UNCHANGED vars
  BY <1>4 DEF vars, WindowInv, TypeOK, Window, StreamThenZeros, AcknowledgedInFile, Tell
<1>5. QED
  BY <1>1, <1>2, <1>3, <1>4 DEF Next

LEMMA WindowInvariant ==
  ASSUME SafePads
  PROVE  Spec => [](WindowInv /\ AcknowledgedInFile)
<1>1. Init => WindowInv /\ AcknowledgedInFile
  BY InitWindow, OpenAcknowledged DEF Init
<1>2. WindowInv /\ AcknowledgedInFile /\ [Next]_vars => WindowInv' /\ AcknowledgedInFile'
  BY NextWindowInv
<1>3. QED
  BY <1>1, <1>2, PTL DEF Spec

-------------------------------------------------------------------------------
(* The theorems *)

\* No memcpy or memset through the window leaves the mapping.
THEOREM WindowKept ==
  ASSUME SafePads
  PROVE  Spec => []WindowInFile
<1>1. WindowInv => WindowInFile
  BY SinkAssumption, MmapSinkAssumption DEF WindowInv, TypeOK, Window, WindowInFile, Lower
<1>2. QED
  BY <1>1, WindowInvariant, PTL

\* The assertions of Write_, Pad_ and MapNext hold whenever a call overruns.
THEOREM AssertionsHold ==
  ASSUME SafePads
  PROVE  Spec => []SpillAsserts
<1>1. ASSUME WindowInv, NEW n \in 1 .. Size, Admitted(n), n > Room
      PROVE  /\ PastWindow < Size
             /\ buf_size = Chunk
             /\ (n - Room) % Chunk <= Size - (PastWindow + Direct(n - Room))
             /\ Size >= Limit
  <2> DEFINE d == Direct(n - Room)
             r == (n - Room) % Chunk
             m == n - Room
  <2>1. n \in Nat \ {0}
    BY SinkAssumption
  <2>2. /\ Size >= Limit /\ buf_size = Chunk /\ m \in Nat
        /\ PastWindow \in Nat /\ PastWindow < Size
        /\ PastWindow + m = Tell + n /\ Tell + n <= Size
    BY <1>1, <2>1, Overrun DEF WindowInv
  <2>3. d \in Nat /\ r \in 0 .. Chunk - 1 /\ d + r = m
    BY <2>2, DirectAndRest
  <2> HIDE DEF d, r, m
  <2>4. r <= Size - (PastWindow + d)
    BY <2>2, <2>3, SinkAssumption, MmapSinkAssumption
  <2>5. QED
    BY <2>2, <2>4 DEF d, r
<1>2. WindowInv => SpillAsserts
  BY <1>1 DEF SpillAsserts
<1>3. QED
  BY <1>2, WindowInvariant, PTL

\* What Pad_ skips is zero: nothing is ever written ahead of the stream.
THEOREM StreamThenZerosKept ==
  ASSUME SafePads
  PROVE  Spec => []StreamThenZeros
<1>1. WindowInv => StreamThenZeros
  BY DEF WindowInv
<1>2. QED
  BY <1>1, WindowInvariant, PTL

\* Bytes of calls that returned are in the file, whatever threw later.
THEOREM AcknowledgedKept ==
  ASSUME SafePads
  PROVE  Spec => []AcknowledgedInFile
BY WindowInvariant, PTL

\* Every MmapSink is a ByteStream.
THEOREM Implements ==
  ASSUME SafePads
  PROVE  Spec => ImplementsByteStream
<1> DEFINE m == IF MaxWrite >= MaxPad THEN MaxWrite ELSE MaxPad
<1>1. Init => Stream!Init
  BY DEF Init, Stream!Init, Tell
<1>2. ASSUME WindowInv, WindowInv', AcknowledgedInFile, [Next]_vars
      PROVE  [Stream!Next]_Stream!vars
  <2>1. Tell' \in Nat
    <3>1. offset' \in Nat /\ buf_put' \in Nat
      BY <1>2 DEF WindowInv, TypeOK
    <3>2. \A a, b \in Nat : a + b \in Nat
      OBVIOUS
    <3>3. QED
      BY <3>1, <3>2, Zenon DEF Tell
  <2>2. ASSUME NEW n \in Nat \ {0}, n <= MaxWrite \/ n <= MaxPad, NEW data \in Data(n),
               Write(data, n) \/ (data = Zeros(n) /\ Pad(n))
        PROVE  Stream!Next
    <3>1. n \in 1 .. m
      BY <2>2, SinkAssumption
    <3>2. status = "open" /\ Tell + n <= Size /\ told = Tell /\ told \in Nat
      BY <1>2, <2>2, CallStep DEF WindowInv, Window, TypeOK
    <3>3. CASE status' = "open" /\ Tell' = Tell + n /\ Acknowledge(data, n)
      <4>1. \A p \in DOMAIN sent :
              IF told <= p /\ p < told + n THEN sent'[p] \in Byte ELSE sent'[p] = sent[p]
        BY <1>2, <3>2, <3>3 DEF Acknowledge, Copy, Data, WindowInv, TypeOK, Pos
      <4>2. Stream!Append(n)
        BY <3>2, <3>3, <4>1 DEF Stream!Append, Acknowledge
      <4>3. QED
        BY <3>1, <4>2 DEF Stream!Next
    <3>4. CASE status' = "failed" /\ UNCHANGED <<sent, told>>
      BY <2>1, <3>2, <3>4 DEF Stream!Next, Stream!Fail
    <3>5. QED
      BY <1>2, <2>2, <3>3, <3>4, CallStep
  <2>3. CASE \E n \in 1 .. MaxWrite : \E data \in Data(n) : Write(data, n)
    BY <2>2, <2>3, SinkAssumption
  <2>4. CASE \E n \in 1 .. MaxPad : Pad(n)
    BY <2>2, <2>4, ZerosType, SinkAssumption
  <2>5. CASE Destroy
    <3>1. CASE status = "open"
      BY <1>2, <2>5, <3>1 DEF Destroy, Stream!Next, Stream!Close, AcknowledgedInFile, Tell
    <3>2. CASE status = "failed"
      BY <2>1, <2>5, <3>2 DEF Destroy, Stream!Next, Stream!Abandon
    <3>3. QED
      BY <2>5, <3>1, <3>2 DEF Destroy
  <2>6. CASE UNCHANGED vars
    BY <2>6 DEF vars, Tell, Stream!vars
  <2>7. QED
    BY <1>2, <2>3, <2>4, <2>5, <2>6 DEF Next
<1>3. QED
  BY <1>1, <1>2, WindowInvariant, PTL DEF Spec, ImplementsByteStream, Stream!Spec
================================================================================
