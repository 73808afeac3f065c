----------------------------- MODULE MCCpkHandler -----------------------------
(* An instance of CpkHandler for TLC: an archive file of three chunks.        *)
EXTENDS CpkHandler, TLC

MCNul == {1, 4}
MCSymmetry == Permutations(Addr)
===============================================================================
