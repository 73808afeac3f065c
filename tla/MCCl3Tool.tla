----------------------------- MODULE MCCl3Tool -----------------------------
(* Instances of Cl3Tool for TLC: an archive in which the script and another  *)
(* file refer to each other, and one without links, in the byte order of the *)
(* run.                                                                      *)
EXTENDS Cl3Tool

CONSTANTS Order, A

Archive(links_a, links_main) ==
    [endian |-> Order, data_size |-> Unset, link_count |-> Unset,
     entries |-> <<[id |-> 1, name |-> A, src |-> 65, links |-> links_a],
                   [id |-> 2, name |-> Main, src |-> 0, links |-> links_main]>>]

MCInitial == {Archive(<<2>>, <<1>>), Archive(<<>>, <<>>)}
=============================================================================
