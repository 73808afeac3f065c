--------------------------------- MODULE MCVita ---------------------------------
(* An instance of Vita for TLC: texts that give files of two sizes.            *)
EXTENDS Vita

CONSTANTS f1, t1, t2, bad
MCSize == [x \in Files \union Texts |-> IF x = t1 THEN 1 ELSE 2]
===============================================================================
