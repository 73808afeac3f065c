------------------------------ MODULE MCMmapSink ------------------------------
(* Instances of MmapSink for TLC: two byte values, windows of three bytes     *)
(* over a file of several windows and a bit.                                  *)
EXTENDS MmapSink

MCByte == {0, 1}
===============================================================================
