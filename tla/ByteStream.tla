------------------------------ MODULE ByteStream ------------------------------
(***************************************************************************)
(* What every Sink of sink.hpp promises its client, whatever buffering it  *)
(* does: the bytes of the calls that returned form one stream, Tell() is   *)
(* its length, and once the sink is destroyed the file starts with exactly *)
(* that stream.  An I/O error may end the stream early, and then nothing   *)
(* is promised about the file.                                             *)
(***************************************************************************)
EXTENDS Integers

CONSTANTS
  Size,     \* the declared size of the file (Sink::size)
  Byte,     \* the values a byte can have
  MaxLen    \* no single call writes or pads more than this

VARIABLES
  sent,     \* sent[p]: the byte at position p of the stream, for p < told
  told,     \* the number of bytes of the calls that returned normally
  tell,     \* what Tell() answers
  status,   \* "open", "failed" by an exception, "closed" or "abandoned"
  out       \* the contents of the file, looked at when the sink is closed

vars == <<sent, told, tell, status, out>>

Init ==
  /\ told = 0
  /\ tell = 0
  /\ status = "open"

\* A call that returns: its bytes follow the stream and Tell() advances by
\* their number.
Append(n) ==
  /\ status = "open"
  /\ told + n <= Size
  /\ told' = told + n
  /\ tell' = tell + n
  /\ \A p \in DOMAIN sent :
       IF told <= p /\ p < told + n THEN sent'[p] \in Byte ELSE sent'[p] = sent[p]
  /\ UNCHANGED status

\* Bytes may reach the file at any time.
Flushed ==
  /\ status = "open"
  /\ UNCHANGED <<sent, told, tell, status>>

\* A call that throws: the stream ends here.
Fail ==
  /\ status = "open"
  /\ status' = "failed"
  /\ tell' \in Nat
  /\ UNCHANGED <<sent, told>>

\* Destroying the sink: the file then holds the whole stream.
Close ==
  /\ status = "open"
  /\ status' = "closed"
  /\ \A p \in 0 .. told - 1 : out'[p] = sent[p]
  /\ UNCHANGED <<sent, told, tell>>

\* Destroying a sink after an error, or with an error nobody hears of.
Abandon ==
  /\ status \in {"open", "failed"}
  /\ status' = "abandoned"
  /\ tell' \in Nat
  /\ UNCHANGED <<sent, told>>

Next ==
  \/ \E n \in 1 .. MaxLen : Append(n)
  \/ Flushed
  \/ Fail
  \/ Close
  \/ Abandon

Spec == Init /\ [][Next]_vars
===============================================================================
