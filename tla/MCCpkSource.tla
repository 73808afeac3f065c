----------------------------- MODULE MCCpkSource -----------------------------
(* An instance of CpkSource for TLC: a file of several chunks.                *)
EXTENDS CpkSource

MCNul == {1, 4}
===============================================================================
