----------------------------- MODULE MCSimpleSink -----------------------------
(* Instances of SimpleSink for TLC: two byte values, a buffer of two or three *)
(* bytes and a file of two to three buffers and a bit.                        *)
EXTENDS SimpleSink

MCByte == {0, 1}
===============================================================================
