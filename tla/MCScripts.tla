------------------------------ MODULE MCScripts ------------------------------
(* Files for TLC: a row of units with pieces <<offset, units>> laid over a  *)
(* filler.  The filler of STSC is the instruction 1, which does not return. *)
EXTENDS Scripts

Row(filler, pieces) ==
  [k \in 1..Size |->
     LET over == {n \in DOMAIN pieces :
                    k - pieces[n][1] \in DOMAIN pieces[n][2]}
     IN IF over = {} THEN filler
        ELSE LET n == CHOOSE n \in over : TRUE IN
             pieces[n][2][k - pieces[n][1]]]

-----------------------------------------------------------------------------
Bytes4(n) == <<n, 0, 0, 0>>
StscFile(flavor, flags, entry, pieces) ==
  [magic |-> "STSC", flavor |-> flavor,
   bytes |-> Row(1, << <<4, Bytes4(entry) \o Bytes4(flags)>> >> \o pieces)]

Strings == <<100, <<97, 98, 99, 0, 100, 0>>>>
Goto(to) == <<6>> \o Bytes4(to)
Say(to) == <<14>> \o Bytes4(to)
Say2(to1, to2) == <<15>> \o Bytes4(to1) \o Bytes4(to2)

\* One instruction of each opcode, its offsets to a string and to code.
Probe(flavor, op) ==
  LET c == Opcode(flavor, op)
      size == CASE c.kind = "simple" -> c.size
                [] c.kind = "rndjump" -> 2
                [] OTHER -> 8
      Refer(k) == {r \in Range(c.refs) : r.at = k - 1}
      operands == [k \in 1..size |->
        IF k = 1 THEN op
        ELSE IF c.kind # "simple" \/ Refer(k) = {} THEN 0
        ELSE IF \E r \in Refer(k) : r.what = "code" THEN 90 ELSE 100]
  IN StscFile(flavor, 0, 12, << <<12, operands>>, Strings >>)

\* Jumps of every kind, back and forth, into loops; shared strings.
Branching(flavor, default, target) ==
  StscFile(flavor, 0, 12, <<
    <<12, <<13, 2>> \o Bytes4(40) \o Bytes4(60)>>,
    <<22, <<29, 1, 0>> \o Bytes4(84) \o <<0, 0, 0, 0, 0, 0, 0, 1, 0>> >>,
    <<40, Say(100) \o Goto(12)>>,
    <<60, <<30, 0, 0, 0, 0, 1 + default, 0>> \o Bytes4(0)
            \o Bytes4(target) \o <<0>> >>,
    <<76, Say2(100, 104)>>, Strings >>)

\* A switch of `count`, with its flag and with more bits than that are counted.
Switch(flavor, count) ==
  StscFile(flavor, 0, 12, <<
    <<12, <<30, 0, 0, 0, 0, count, 0>> \o Bytes4(0) \o Bytes4(40) >>,
    <<40, Say(100)>>, Strings >>)

\* Code of every kind and data between two strings of other lengths.
Between(flavor, default) ==
  StscFile(flavor, 0, 30, <<
    <<12, <<97, 0, 32>> >>,
    <<30, Say(12) \o Say(100) \o <<13, 1>> \o Bytes4(60) \o Goto(66)>>,
    <<60, <<11, 0>> \o Bytes4(14)>>,
    <<66, <<29, 1, 0>> \o Bytes4(84) \o <<0, 0, 0, 0, 0, 0, 0, 1, 0>> >>,
    <<84, <<30, 0, 0, 0, 0, 1 + default, 0>> \o Bytes4(0)
            \o Bytes4(35) \o <<0>> >>,
    Strings >>)

StscFiles ==
  {Probe(flavor, op) : flavor \in {"noire", "potbb"}, op \in 0..255}
    \union
  {Branching(flavor, default, target) : flavor \in {"noire", "potbb"},
     default \in {0, DefaultBit}, target \in {40, 41, 60, 104}}
    \union
  {Between(flavor, default) : flavor \in {"noire", "potbb"},
                              default \in {0, DefaultBit}}
    \union
  {Switch(flavor, count) : flavor \in {"noire", "potbb"}, count \in 4..7}
    \union
  {StscFile("noire", flags, entry, << <<12, Goto(13)>>, <<60, Goto(12)>>,
                                      <<117, <<14, 100>> >> >>) :
     flags \in {0, 1, 2, 4, 7, 8}, entry \in {11, 12, 60, 117, 118}}
    \union
  {StscFile("noire", 0, 12, << <<12, Say(one) \o Say(other)>>, Strings >>) :
     one \in {100, 102, 104}, other \in {17, 100, 102, 110}}

-----------------------------------------------------------------------------
Words(seq) == [k \in DOMAIN seq |-> <<0, seq[k]>>]
None(n) == [k \in 1..n |-> 0]
Imm == <<1, 7>>
System(n) == <<3, \h3fffff00 + n>>
ToData(p) == << <<0, p>>, Imm, Imm >>
ToCode(p) == << System(\h40), <<0, p>>, Unused >>

StcmHeader(exports, count, link, expansions, expansionCount) ==
  <<0, Words(None(8) \o <<exports, count, 9, link, 0, expansions,
                          expansionCount>>)>>
LinkHeader(p, offset, count) ==
  <<p, Words(<<0, offset, count>> \o None(13))>>
Exported(type, to) == Words(<<type>> \o None(8) \o <<to>>)
Instr(call, opcode, params, rest) ==
  Words(<<call, opcode, Len(params), 4 + 3 * Len(params) + rest>>)
    \o FlattenSeq(params)
StcmFile(gbnl, pieces) ==
  [magic |-> "STCM2L", gbnl |-> gbnl, words |-> Row(<<0, \h09090909>>, pieces)]

(* Words of text: one without a zero byte, and ones with some at their end. *)
Four == \h34333231
Three == \h00333231
Two == \h00003231
End(p) == <<p, Words(<<Three>>)>>
Text(p, text) ==
  <<p, Words(<<0, Len(text), 1, Len(text)>>) \o Words(text)>>

\* Code, data, strings, a Gbnl and a link; `again` is where 35 goes on to.
Whole(again, to, names, text) ==
  StcmFile({53}, <<
    StcmHeader(69, 2, 89, 0, 0),
    <<15, Instr(0, 5, << ToData(42), ToCode(35) >>, 2)>>,
    <<27, Instr(1, 35, <<>>, 0)>>, <<31, Instr(0, 0, <<>>, 0)>>,
    <<35, Instr(0, 6, << ToCode(again) >>, 0)>>,
    Text(42, text), <<48, Words(<<1, 0, 1, 17>>)>>, End(115), End(116),
    <<69, Exported(0, 15) \o Exported(1, to)>>,
    LinkHeader(89, 105, 1), <<105, Words(names \o None(6))>> >>)

\* One instruction that returns, with the parameters; nothing is linked.
Calling(params) ==
  StcmFile({}, <<
    StcmHeader(15, 1, 25, 0, 0), <<15, Exported(0, 60)>>,
    LinkHeader(25, Size, 0),
    <<41, Words(<<0, 0, 0, 1>>)>>, <<50, Words(<<0, 2, 3, 0>>)>>,
    <<60, Instr(0, 0, params, 0)>> >>)

Values48 == {<<0, 41>>, Imm, <<2, 300>>, System(3), System(\h27)}
Parameters ==
  {<< <<0, 41>>, x, y>> : x \in Values48, y \in {Imm, System(\h30)}}
    \union {<< <<2, 255>>, x, y>> : x \in {Unused, Imm}, y \in Values48}
    \union {<<System(n), Unused, Unused>> : n \in {0, 15, \h20, \h28}}
    \union {<<System(n), <<0, 25>>, <<0, 0>> >> : n \in {\h42, \h43}}
    \union {<< <<2, 256>>, Unused, Imm>>, << <<1, 0>>, Imm, Imm>>, ToCode(60)}

\* Two expansions; the name of the first is where `name` says.
Expanding(name) ==
  StcmFile({}, <<
    StcmHeader(15, 1, 25, 60, 2), <<15, Exported(0, 41)>>,
    LinkHeader(25, Size, 0), <<41, Instr(0, 0, <<>>, 0)>>,
    <<60, Words(<<1, name>> \o None(18))>>, End(46), End(47),
    <<80, Words(<<2, 47>> \o None(18))>> >>)

\* A link whose name is in front of its entry, or behind it.
Naming(name) ==
  StcmFile({}, <<
    StcmHeader(15, 1, 25, 0, 0), <<15, Exported(0, 60)>>,
    LinkHeader(25, 88, 1), <<60, Instr(0, 0, <<>>, 0)>>,
    <<88, Words(<<name, 0>> \o None(6))>>, End(86), End(111) >>)

\* An instruction whose parameters point to the text at 80, the data at 90.
Using(params, text) ==
  StcmFile({}, <<
    StcmHeader(15, 1, 25, 0, 0), <<15, Exported(0, 60)>>,
    LinkHeader(25, Size, 0), <<60, Instr(0, 0, params, 0)>>,
    Text(80, text), <<90, Words(<<1, 0, 1, 4>>)>> >>)

\* What the text is padded with is pointed to when it is parsed already.
Late(p) ==
  StcmFile({}, <<
    StcmHeader(15, 2, 35, 0, 0), <<15, Exported(0, 60) \o Exported(0, 70)>>,
    LinkHeader(35, Size, 0), <<60, Instr(0, 6, << ToData(80) >>, 0)>>,
    <<70, Instr(0, 6, << << <<2, 255>>, Unused, <<0, p>> >> >>, 0)>>,
    Text(80, <<Four, Three, 0>>) >>)

Texts2 == {<<Four, Two>>, <<Four, 0>>, <<Three, 0>>, <<Two, 0>>, <<Three, Two>>,
           <<Four, Four>>, <<Four, \h31003231>>}
Texts3 == {<<Four, Four, Three>>, <<Four, Three, 0>>, <<Three, 0, 0>>}

StcmFiles ==
  {Whole(again, to, <<114, 116>>, <<Four, Two>>) :
     again \in {15, 27, 35, 42, 118}, to \in {48, 42}}
    \union {Whole(27, 48, names, <<Four, Three>>) :
              names \in {<<0, 114>>, <<114, 0>>}}
    \union {Whole(27, 48, <<114, 116>>, <<Three, 0>>)}
    \union {Naming(name) : name \in {85, 110}}
    \union {Calling(<<p>>) : p \in Parameters}
    \union {Calling(<< ToData(41), ToData(50), ToCode(60) >>)}
    \union {Using(<< ToData(one), ToData(other) >>, <<Four, 0>>) :
              one \in {80, 90}, other \in {80, 90}}
    \union {Using(<< ToData(80), ToData(90) >>, text) :
              text \in Texts2 \union Texts3}
    \union {Using(<< << <<0, 80>>, <<0, 84>>, Imm >> >>, text) :
              text \in {<<Four, Three>>, <<Two, 0>>}}
    \union {Late(p) : p \in {85, 86, 87}}
    \union {Expanding(name) : name \in {45, 47, 61, 119}}
    \union {[Calling(<<>>) EXCEPT !.magic = m] : m \in {"STCM", "TXT"}}

MCFiles == StscFiles \union StcmFiles
MCTextFiles == {<<2>>, <<2, 0>>, <<0, 3>>}
=============================================================================
