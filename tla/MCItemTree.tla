----------------------------- MODULE MCItemTree -----------------------------
(* An instance of ItemTree for TLC.  Which label has which name matters to   *)
(* no action and no property, so permutations of the names are symmetric.    *)
EXTENDS ItemTree, TLC

NameSymmetry == Permutations(Names)
=============================================================================
