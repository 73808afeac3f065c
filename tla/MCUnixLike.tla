------------------------------ MODULE MCUnixLike ------------------------------
(* Instances of UnixLike for TLC: a file of a few chunks, the last one short, *)
(* a cache of fewer entries than the file has chunks, and one address more    *)
(* than there are entries, for the chunk that is read before one is deleted.  *)
EXTENDS UnixLike

MCNul == {1, 4}
===============================================================================
