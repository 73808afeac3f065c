----------------------------- MODULE ReadOnlyFile -----------------------------
(***************************************************************************)
(* What source.hpp says a Source is, "a fixed size, read-only, seekable    *)
(* data source (or something that emulates it)": every call that returns   *)
(* answers with the bytes of the file, whatever is cached and whatever     *)
(* failed before.  The byte at position p is p itself, so that no two      *)
(* positions can be taken for each other.                                  *)
(***************************************************************************)
EXTENDS Integers

CONSTANTS
  FileSize,   \* the number of bytes of the file
  Nul         \* the positions that hold a zero byte

VARIABLES
  request,    \* the call in progress
  reply       \* how the last call ended, and the bytes it delivered

vars == <<request, reply>>

NoRequest == [op |-> "none", from |-> 0, upto |-> 0]
NoBytes == [i \in {} |-> 0]

\* The n bytes of the file from a on.
Bytes(a, n) == [i \in 0 .. n - 1 |-> a + i]

Returned(bytes) == [ok |-> TRUE, bytes |-> bytes]
Thrown == [ok |-> FALSE, bytes |-> NoBytes]

\* Pread and Dump deliver what was asked; GetChunk some of it, at least a byte;
\* PreadCString everything up to the first zero byte, and nothing if there is
\* none in what it was asked for.
Answers(r) ==
  CASE r.op \in {"pread", "dump"} -> {Bytes(r.from, r.upto - r.from)}
    [] r.op = "chunk" -> {Bytes(r.from, n) : n \in 1 .. r.upto - r.from}
    [] r.op = "cstring" ->
         {Bytes(r.from, z - r.from) :
            z \in {q \in Nul : /\ r.from <= q /\ q < r.upto
                               /\ \A p \in Nul : r.from <= p => q <= p}}

Init ==
  /\ request = NoRequest
  /\ reply = Returned(NoBytes)

Ask ==
  /\ request = NoRequest
  /\ \E op \in {"pread", "dump", "chunk", "cstring"}, from, upto \in 0 .. FileSize :
       /\ from <= upto
       /\ request' = [op |-> op, from |-> from, upto |-> upto]
  /\ UNCHANGED reply

Answer ==
  /\ request # NoRequest
  /\ request' = NoRequest
  /\ \E bytes \in Answers(request) : reply' = Returned(bytes)

\* The file cannot be read.
Throw ==
  /\ request # NoRequest
  /\ request' = NoRequest
  /\ reply' = Thrown

Next == Ask \/ Answer \/ Throw

Spec == Init /\ [][Next]_vars
===============================================================================
