----------------------------- MODULE MCGbnlText -----------------------------
(* Instances of GbnlText for TLC: a GBNL with a null string, a GSTL whose    *)
(* numbers are its ids, and a GBNL with a string in place.                   *)
EXTENDS GbnlText

Num(n) == [kind |-> "int", size |-> n]
Str == [kind |-> "str", size |-> 4]
Field(kind, size) == [kind |-> kind, size |-> size]

At(text) == [str |-> text, offset |-> 0]
Nil == [str |-> <<>>, offset |-> Null]

MCTables ==
    {[gstl |-> FALSE, fix_k |-> 0, msgs_size |-> 0,
      type |-> <<Str, Num(2), Field("pad", 2), Str>>,
      messages |-> <<<<At(<<"a">>), 1, 0, Nil>>,
                     <<At(<<>>), 2, 0, At(<<"a">>)>>>>],
     [gstl |-> TRUE, fix_k |-> 0, msgs_size |-> 0,
      type |-> <<Str, Num(4), Str>>,
      messages |-> <<<<At(<<"a">>), 7, At(<<>>)>>,
                     <<At(<<>>), 8, At(<<"a">>)>>>>],
     [gstl |-> FALSE, fix_k |-> 10000, msgs_size |-> 0,
      type |-> <<Num(1), Field("pad", 3), Field("fix", 5), Str>>,
      messages |-> <<<<1, 0, <<"a">>, At(<<>>)>>>>]}

MCWords == {<<>>, <<"a", "a", "n", "a", "r">>, <<"r", "n">>}
=============================================================================
