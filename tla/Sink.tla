--------------------------------- MODULE Sink ---------------------------------
(***************************************************************************)
(* The part of class Sink (sink.hpp) that its subclasses share: the        *)
(* position of the stream, split into what is behind the buffer (offset)   *)
(* and what is in it (buf_put), and the inline halves of Write and Pad,    *)
(* which check the size, top up the buffer and leave the rest to the       *)
(* virtual Write_ and Pad_.                                                *)
(*                                                                         *)
(* sent and told are history variables: the bytes of the calls that have   *)
(* returned normally, and how many they are.                               *)
(***************************************************************************)
EXTENDS Integers

CONSTANTS
  Size,      \* Sink::size, the number of bytes the file is declared to have
  Byte,      \* the values a byte can have
  Zero,      \* the byte Pad writes
  MaxWrite,  \* bound: the longest data of one Write call
  MaxPad,    \* bound: the longest Pad call
  SafePads   \* the client makes no pad that its sink's Pad_ miscounts

ASSUME SinkAssumption ==
  /\ Size \in Nat \ {0}
  /\ Zero \in Byte
  /\ MaxWrite \in Nat
  /\ MaxPad \in Nat
  /\ SafePads \in BOOLEAN

VARIABLES
  offset,    \* bytes of the stream behind the buffer
  buf_put,   \* bytes of the stream in the buffer
  buf_size,  \* the capacity of the buffer
  file,      \* the contents of the file, cell by cell
  status,    \* "open", "failed" by an exception, "closed" or "abandoned"
  sent,      \* history: the bytes the client wrote
  told       \* history: how many of them

Lower(a, b) == IF a <= b THEN a ELSE b

Pos == 0 .. Size - 1

\* memcpy(dst + at, src + from, n); memset(dst + at, 0, n) when src is Zeros.
Copy(dst, at, src, from, n) ==
  [p \in DOMAIN dst |-> IF at <= p /\ p < at + n THEN src[from + p - at] ELSE dst[p]]

Data(n) == [0 .. n - 1 -> Byte]
Zeros(n) == [i \in 0 .. n - 1 |-> Zero]

Tell == offset + buf_put
\* Mutant: one byte too many.
RoomMutant == buf_size - buf_put + 1
Room == buf_size - buf_put

\* Mutant: the check forgets the buffered bytes.
AdmittedMutant(n) == status = "open" /\ offset + n <= Size

\* LIBSHIT_CHECK(SinkOverflow, ...): a call that would overflow is refused.
Admitted(n) == status = "open" /\ offset + buf_put + n <= Size

\* The call returns: its bytes now belong to the stream.
Acknowledge(data, n) ==
  /\ sent' = Copy(sent, told, data, 0, n)
  /\ told' = told + n
===============================================================================
