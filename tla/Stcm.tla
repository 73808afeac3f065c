-------------------------------- MODULE Stcm --------------------------------
(***************************************************************************)
(* STCM scripts (src/format/stcm): a header that points to the exports,    *)
(* the collection link and the expansions; instructions, which the exports *)
(* point to, and the data those use.                                       *)
(*                                                                         *)
(* The unit is four bytes, and sizes and offsets count units.  A word of   *)
(* the file is a pair, its upper two bits and the rest (TypeTag, Value).   *)
(***************************************************************************)
EXTENDS ScriptFile

Word(p) == file.words[p + 1]
Num(p) == IF Word(p)[1] = 0 THEN Word(p)[2] ELSE 2^30    \* or more
Zero(first, last) == \A p \in first..last : Num(p) = 0

-----------------------------------------------------------------------------
(* HeaderItem *)

HasExpansions == Num(13) # 0

(* HeaderItem::Header::Validate.  A count that is too large for the file     *)
(* makes the code's unsigned difference wrap; its table throws then.         *)
StcmHeaderValid ==
  /\ file.magic = "STCM2L"
  /\ Num(8) < Size - 10 * Num(9)
  /\ Num(11) < Size
  /\ Num(12) = 0
  /\ Num(14) = 0 \/ HasExpansions
  /\ Num(13) < Size - 20 * Num(14)

(* HeaderItem::CreateAndInsert *)
CreateStcmHeader ==
  /\ Made = "stcmHeader"
  /\ LET parts == << <<"link", Num(11)>> >>
                    \o (IF HasExpansions THEN << <<"expansions", Num(13)>> >>
                        ELSE <<>>)
                    \o << <<"exports", Num(8)>> >>
         offsets == [k \in DOMAIN parts |-> parts[k][2]]
     IN IF ~ StcmHeaderValid THEN Throws
        ELSE \E s \in {LabelledAll(t, offsets)} :
               Returns(Split(s, Ptr.item, Ptr.offset, 15, "header"),
                       [k \in DOMAIN parts |->
                          Call(parts[k][1], LabelAt(s, parts[k][2]))])

-----------------------------------------------------------------------------
(* CollectionLinkHeaderItem, CollectionLinkItem *)

LinkHeaderValid(p) ==
  /\ Zero(p, p) /\ Zero(p + 3, p + 15)
  /\ Num(p + 1) + 8 * Num(p + 2) <= Size

LinkEntriesValid(q, count) ==
  \A k \in 0 .. count - 1 : LET e == q + 8 * k IN
    Num(e) <= Size /\ Num(e + 1) <= Size /\ Zero(e + 2, e + 7)

\* The names of the entries; 0 is none.
LinkNames(q, count) ==
  SelectSeq([k \in 1 .. 2 * count |->
               Num(q + 8 * ((k - 1) \div 2) + ((k - 1) % 2))],
            LAMBDA name : name # 0)

(* CollectionLinkItem::Parse_, the strings and their labels; {} if it        *)
(* throws.                                                                   *)
Named(s, names) ==
  FoldLeft(LAMBDA S, p :
             {Labelled(u, p) :
                u \in UNION {MaybeString(v, GetPointer(v, p)) : v \in S}},
           {s}, names)

(* The link of `count` entries at ptr: the strings are made, and may take    *)
(* bytes of the item of ptr, before the entries are cut out of it.           *)
LinkMade(s, ptr, count) ==
  LET q == Place(s, ptr)
      Entries == Create(s, "link", SubSeq(s.own[ptr.item], ptr.offset + 1,
                                          ptr.offset + 8 * count))
  IN IF Rest(s, ptr) < 8 * count \/ ~ LinkEntriesValid(q, count) THEN {}
     ELSE {Split2(u, ptr.item, ptr.offset, Fresh(s)) :
             u \in {v \in Named(Entries, LinkNames(q, count)) :
                      Rest(v, ptr) >= 8 * count}}

\* An empty collection link at the end of the file.
EmptyLink(s, ptr, count) ==
  IF ptr.offset = 0 /\ count = 0 /\ s.kind[ptr.item] = "eof"
  THEN {Replaced(Create(s, "link", <<>>), ptr.item, Fresh(s))}
  ELSE {}

(* CollectionLinkHeaderItem::CreateAndInsert *)
CreateLink ==
  /\ Made = "link"
  /\ LET p == Place(t, Ptr)
         data == Num(p + 1)
         Header == Split(Labelled(t, data), Ptr.item, Ptr.offset, 16,
                         "linkheader")
         LinkedTo(s, ptr2) ==
           IF IsRaw(s, ptr2) THEN LinkMade(s, ptr2, Num(p + 2))
           ELSE EmptyLink(s, ptr2, Num(p + 2))
     IN ReturnsOne(
          IF IsRaw(t, Ptr) /\ Rest(t, Ptr) >= 16 /\ LinkHeaderValid(p)
          THEN UNION UNION
                 {{LinkedTo(s, ptr2) : ptr2 \in {GetPointer(s, data)}} :
                    s \in {Header}}
          ELSE {})

-----------------------------------------------------------------------------
(* ExpansionsItem, ExpansionItem *)

ExpansionValid(p) == Num(p + 1) < Size /\ Zero(p + 2, p + 19)

(* ExpansionItem::CreateAndInsert, labelled, at what is left of the child *)
ExpansionMade(s, node) ==
  LET it == Last(s.kids[node])
      name == Num(s.position[it] + 1)
      named == Labelled(LabelTo(s, [item |-> it, offset |-> 0]), name)
      made == Split(named, it, 0, 20, "expansion")
  IN IF ExpansionValid(s.position[it])
     THEN MaybeString(made, made.label[LabelAt(named, name)])
     ELSE {}

(* ExpansionsItem::CreateAndInsert *)
CreateExpansionsItem ==
  /\ Made = "expansions"
  /\ LET count == Num(14)
         node == Fresh(t)
         Children == MoveNextToChild(
           Split(t, Ptr.item, Ptr.offset, 0, "expansions"), node, 20 * count)
     IN ReturnsOne(IF IsRaw(t, Ptr) /\ Rest(t, Ptr) >= 20 * count
              THEN FoldLeft(LAMBDA S, k :
                              UNION {ExpansionMade(s, node) : s \in S},
                            {Children}, [k \in 1..count |-> k])
              ELSE {})

-----------------------------------------------------------------------------
(* ExportsItem *)

(* ExportsItem::CreateAndInsert: an export is code or data. *)
CreateExports ==
  /\ Made = "exports"
  /\ LET count == Num(9)
         p == Place(t, Ptr)
         Entry(k) == p + 10 * (k - 1)
         To == [k \in 1..count |-> Num(Entry(k) + 9)]
         Valid(k) == Num(Entry(k)) \in {0, 1} /\ To[k] < Size
         Class(k) == IF Num(Entry(k)) = 0 THEN "instruction" ELSE "data"
     IN IF /\ IsRaw(t, Ptr) /\ Rest(t, Ptr) >= 10 * count
           /\ \A k \in 1..count : Valid(k)
        THEN \E s \in {LabelledAll(t, To)} :
               Returns(Split(s, Ptr.item, Ptr.offset, 10 * count, "exports"),
                       [k \in 1..count |-> Call(Class(k), LabelAt(s, To[k]))])
        ELSE Throws

-----------------------------------------------------------------------------
(* Parameters of instructions: three words each *)

ReadStack == \h3fffff00 .. \h3fffff0f      \* with the upper two bits set
Read4ac == \h3fffff20 .. \h3fffff27
InstrPtr == {\h3fffff40, \h3fffff41}
CollLink == \h3fffff42
Expansion == \h3fffff43
Unused == <<1, 0>>

\* Param48Validate
Param48Valid(w) ==
  \/ w[1] = 0 /\ w[2] + 4 < Size
  \/ w[1] \in {1, 2}
  \/ w[1] = 3 /\ w[2] \in ReadStack \union Read4ac

(* Mutant: the second word of an indirect parameter is not looked at. *)
IndirectValidMutant(w) == w[1][2] < 256 /\ Param48Valid(w[3])

IndirectValid(w) == w[1][2] < 256 /\ w[2] = Unused /\ Param48Valid(w[3])

\* Parameter::Validate
ParamValid(w) ==
  \/ /\ w[1][1] = 0 /\ w[1][2] < Size
     /\ Param48Valid(w[2]) /\ Param48Valid(w[3])
  \/ w[1][1] = 2 /\ IndirectValid(w)
  \/ /\ w[1][1] = 3 /\ w[1][2] \in ReadStack \union Read4ac
     /\ w[2] = Unused /\ w[3] = Unused
  \/ /\ w[1][1] = 3 /\ w[1][2] \in InstrPtr
     /\ w[2][1] = 0 /\ w[2][2] < Size /\ w[3] = Unused
  \/ /\ w[1][1] = 3 /\ w[1][2] = CollLink
     /\ w[2][1] = 0 /\ w[2][2] + 2 < Size /\ w[3] = <<0, 0>>
  \/ /\ w[1][1] = 3 /\ w[1][2] = Expansion
     /\ w[2][1] = 0 /\ w[2][2] + 20 < Size /\ w[3] = <<0, 0>>

\* Param48::GetVariant
Variant48(w) ==
  CASE w[1] = 0 -> <<"mem_offset", LabelFor(w[2])>>
    [] w[1] = 1 -> <<"immediate", w[2]>>
    [] w[1] = 2 -> <<"indirect", w[2]>>
    [] w[2] \in ReadStack -> <<"read_stack", w[2] - Min(ReadStack)>>
    [] w[2] \in Read4ac -> <<"read_4ac", w[2] - Min(Read4ac)>>

\* Param::GetVariant
Variant(w) ==
  CASE w[1][1] = 0 ->
         <<"mem_offset", LabelFor(w[1][2]), Variant48(w[2]),
           Variant48(w[3])>>
    [] w[1][1] = 2 -> <<"indirect", w[1][2], Variant48(w[3])>>
    [] w[1][2] \in ReadStack -> <<"read_stack", w[1][2] - Min(ReadStack)>>
    [] w[1][2] \in Read4ac -> <<"read_4ac", w[1][2] - Min(Read4ac)>>
    [] w[1][2] \in InstrPtr -> <<"instr_ptr", w[1][2], LabelFor(w[2][2])>>
    [] w[1][2] = CollLink -> <<"coll_link", LabelFor(w[2][2])>>
    [] w[1][2] = Expansion -> <<"expansion", LabelFor(w[2][2])>>

\* Param48::Dump
Dump48(v) ==
  CASE v[1] = "mem_offset" -> <<0, LabelPos(v[2])>>
    [] v[1] = "immediate" -> <<1, v[2]>>
    [] v[1] = "indirect" -> <<2, v[2]>>
    [] v[1] = "read_stack" -> <<3, Min(ReadStack) + v[2]>>
    [] v[1] = "read_4ac" -> <<3, Min(Read4ac) + v[2]>>

\* Param::Dump
DumpParam(v) ==
  CASE v[1] = "mem_offset" ->
         << <<0, LabelPos(v[2])>>, Dump48(v[3]), Dump48(v[4]) >>
    [] v[1] = "indirect" -> << <<2, v[2]>>, Unused, Dump48(v[3]) >>
    [] v[1] = "read_stack" ->
         << <<3, Min(ReadStack) + v[2]>>, Unused, Unused >>
    [] v[1] = "read_4ac" -> << <<3, Min(Read4ac) + v[2]>>, Unused, Unused >>
    [] v[1] = "instr_ptr" -> << <<3, v[2]>>, <<0, LabelPos(v[3])>>, Unused >>
    [] v[1] = "coll_link" -> << <<3, CollLink>>, <<0, LabelPos(v[2])>>, <<0, 0>> >>
    [] v[1] = "expansion" -> << <<3, Expansion>>, <<0, LabelPos(v[2])>>, <<0, 0>> >>

-----------------------------------------------------------------------------
(* InstructionItem: p is where it begins *)

IsCall(p) == Num(p) = 1
Params(p) == [k \in 1 .. Num(p + 2) |->
                [n \in 1..3 |-> Word(p + 3 * k + n)]]

NoReturns == {0, 6}
SystemOpcodes == {<<3, n>> : n \in \h3fffff00 .. \h3fffff14}

(* Header::Validate, the checks of CreateAndInsert and Parameter::Validate *)
InstructionValid(p, rest) ==
  /\ rest >= 4 /\ Num(p) \in {0, 1} /\ Num(p + 2) < 16
  /\ Num(p + 3) >= 4 + 3 * Num(p + 2) /\ Num(p + 3) <= rest
  /\ IF IsCall(p) THEN Num(p + 1) < Size
     ELSE Num(p + 1) < \h1000 \/ Word(p + 1) \in SystemOpcodes
  /\ \A w \in Range(Params(p)) : ParamValid(w)

(* The offsets in a parameter, in the order the labels are made. *)
ParamOffsets(w) ==
  LET words == SelectSeq(IF w[1][1] = 3 THEN << w[2] >> ELSE w,
                         LAMBDA x : x[1] = 0)
  IN [k \in DOMAIN words |-> words[k][2]]

InstructionOffsets(p) ==
  (IF IsCall(p) THEN << Num(p + 1) >> ELSE <<>>)
    \o FlattenSeq([k \in DOMAIN Params(p) |-> ParamOffsets(Params(p)[k])])

\* What is created for a parameter.
ParamCalls(s, w) ==
  IF w[1][1] = 0 THEN << Call("data", LabelAt(s, w[1][2])) >>
  ELSE IF w[1][1] = 3 /\ w[1][2] \in InstrPtr
  THEN << Call("instruction", LabelAt(s, w[2][2])) >>
  ELSE <<>>

(* What CreateAndInsert goes on with, behind the instruction i at p. *)
Followers(s, p, i) ==
  (IF IsCall(p) THEN << Call("instruction", LabelAt(s, Num(p + 1))) >>
   ELSE <<>>)
    \o (IF ~ IsCall(p) /\ Num(p + 1) \in NoReturns THEN <<>>
        ELSE << CallBehind("instruction", i) >>)
    \o FlattenSeq([k \in DOMAIN Params(p) |-> ParamCalls(s, Params(p)[k])])

(* InstructionItem::CreateAndInsert; what is behind the parameters is moved  *)
(* into the item.                                                            *)
CreateStcmInstruction ==
  /\ Made = "instruction" /\ IsRaw(t, Ptr)
  /\ LET p == Place(t, Ptr)
         head == 4 + 3 * Num(p + 2)
         rem == Num(p + 3) - head
         With(s) == Split(s, Ptr.item, Ptr.offset, head, "instruction")
     IN IF ~ InstructionValid(p, Rest(t, Ptr)) THEN Throws
        ELSE \E s \in {LabelledAll(t, InstructionOffsets(p))} :
               Returns(IF rem = 0 THEN With(s)
                       ELSE MoveNextToChild(With(s), Fresh(s), rem),
                       Followers(s, p, Fresh(s)))

-----------------------------------------------------------------------------
(* DataItem and what DataFactory::Check makes of it *)

(* StringDataItem::MaybeCreateAndReplace: the only child of the data at p is *)
(* a string, of `size` bytes with the first zero byte, and at most four zero *)
(* bytes behind it.  The item keeps the text and, as Dump_ will pad it, the  *)
(* bytes up to the next unit.                                                *)
StringReplaces(s, node, size) ==
  LET units == SubSeq(s.own[Head(s.kids[node])], 1, (size + 3) \div 4)
      new == Create(s, "stringdata", s.own[node] \o units)
  IN Replaced(new, node, Fresh(s))

(* {} if there is no zero byte, which ReadCString asserts, or a label points *)
(* into the child, which its Dispose asserts; s if it is no string.          *)
StringData(s, node, p) ==
  LET child == Head(s.kids[node])
      bytes == FlattenSeq([k \in DOMAIN s.own[child] |->
                             UnitBytes(s.own[child][k])])
      IsString(size) ==
        /\ Len(bytes) - size <= 4
        /\ \A k \in size + 1 .. Len(bytes) : bytes[k] = 0
      Ended(size) ==
        IF ~ IsString(size) THEN {s}
        ELSE {u \in {StringReplaces(s, node, size)} : LabelsOf(s, child) = {}}
  IN IF Num(p) # 0 \/ Num(p + 1) <= 1 \/ Num(p + 2) # 1
          \/ Len(s.own[child]) # Num(p + 1)
     THEN {s}
     ELSE UNION {Ended(Min(zeros)) :
                   zeros \in {{k \in DOMAIN bytes : bytes[k] = 0}} \ {{}}}

(* The factory of GbnlItem: it takes all of the child; the file keeps the    *)
(* first one (SetGbnl).                                                      *)
GbnlData(s, node) ==
  LET child == Head(s.kids[node])
      n == Len(s.own[child])
      made == Split(s, child, 0, n, "gbnl")
  IN IF n > 16 /\ s.own[child][n - 15] \in file.gbnl
     THEN [made EXCEPT !.gbnl = IF @ = Root THEN Fresh(s) ELSE @]
     ELSE s

(* DataFactory::Check: the heuristics look at data that has a child. *)
Checked(s, node, p) ==
  {IF u.kind[node] = "data" THEN GbnlData(u, node) ELSE u :
     u \in StringData(s, node, p)}

(* DataItem::CreateAndInsert *)
CreateDataItem ==
  /\ Made = "data" /\ IsRaw(t, Ptr)
  /\ LET p == Place(t, Ptr)
         length == Num(p + 3)
         alone == Split(t, Ptr.item, Ptr.offset, 4, "data")
     IN IF Rest(t, Ptr) < 4 \/ Num(p) >= 255 \/ length > Rest(t, Ptr) - 4
        THEN Throws
        ELSE IF length = 0 THEN Returns(alone, <<>>)
        ELSE \E s \in {MoveNextToChild(alone, Fresh(t), length)} :
               ReturnsOne(Checked(s, Fresh(t), p))

-----------------------------------------------------------------------------
(* File::ReadTxt_: the first Gbnl gets texts, and with them another size. *)
ReadStcmTxt ==
  /\ \E n \in Texts :
       t' = IF t.gbnl = Root THEN t
            ELSE [t EXCEPT !.own[t.gbnl] = [k \in 1..n |-> Edited]]
  /\ phase' = "edited" /\ UNCHANGED <<file, calls>>

-----------------------------------------------------------------------------
(* Dumping.  What an item does not keep is zero in its dump. *)

Number(n) == <<0, n>>
Zeros(n) == [k \in 1..n |-> Number(0)]
NumberField(at, n) == Field(at, << Number(n) >>)

\* CollectionLinkItem::Dump_, of count entries that were read at q
LinkFields(q, count) ==
  UNION {{Field(8 * k + 2, Zeros(6))}
           \union {NumberField(at, Pos(Num(q + at))) :
                     at \in {a \in {8 * k, 8 * k + 1} : Num(q + a) # 0}} :
         k \in 0 .. count - 1}

\* InstructionItem::Dump_
InstructionFields(i, p) ==
  LET words == Params(p) IN
  {NumberField(3, SizeOf(t, i))}
       \union (IF IsCall(p) THEN {NumberField(1, Pos(Num(p + 1)))} ELSE {})
       \union {Field(3 * k + 1, DumpParam(Variant(words[k]))) :
                 k \in DOMAIN words}

(* Mutant: a DataItem is dumped with the length it was read with. *)
DataFieldsMutant(i) == {}

\* DataItem::Dump_
DataFields(i) == {NumberField(3, SizeOf(t, i) - 4)}

\* HeaderItem::Dump_
HeaderFields ==
  {NumberField(8, Pos(Num(8))), NumberField(11, Pos(Num(11))),
   NumberField(12, 0)}
    \union (IF HasExpansions THEN {NumberField(13, Pos(Num(13)))}
            ELSE {Field(13, Zeros(2))})

\* CollectionLinkHeaderItem::Dump_; the count is that of the entries.
LinkHeaderFields(p) ==
  {NumberField(0, 0), NumberField(1, Pos(Num(p + 1))), Field(3, Zeros(13))}

\* ExpansionItem::Dump_
ExpansionFields(p) == {NumberField(1, Pos(Num(p + 1))), Field(2, Zeros(18))}

\* ExportsItem::Dump_
ExportFields(p, count) ==
  {NumberField(at, Pos(Num(p + at))) : at \in {10 * k - 1 : k \in 1..count}}

(* StringDataItem::Dump_: the type is 0, both lengths are those of the text. *)
StringFields(units) ==
  {Field(0, << Number(0), Number(units), Number(1), Number(units) >>)}

StcmFields(i) ==
  LET p == t.own[i][1]
      words == Len(t.own[i])
  IN CASE t.kind[i] = "header" -> HeaderFields
       [] t.kind[i] = "linkheader" -> LinkHeaderFields(p)
       [] t.kind[i] = "link" -> LinkFields(p, words \div 8)
       [] t.kind[i] = "expansion" -> ExpansionFields(p)
       [] t.kind[i] = "exports" -> ExportFields(p, words \div 10)
       [] t.kind[i] = "instruction" -> InstructionFields(i, p)
       [] t.kind[i] = "data" -> DataFields(i)
       [] t.kind[i] = "stringdata" -> StringFields(words - 4)
       [] OTHER -> {}

StcmWords(i) ==
  LET units == t.own[i] IN
  WithFields([k \in DOMAIN units |-> IF units[k] = Edited THEN Number(Edited)
                                     ELSE file.words[units[k] + 1]],
             IF units = <<>> THEN {} ELSE StcmFields(i))

\* A Gbnl that was given texts still ends in its header.
DumpedStcm(order) ==
  LET units == FlattenSeq([k \in DOMAIN order |-> t.own[order[k]]])
      Still(places) == {k \in 0 .. Len(units) - 1 : units[k + 1] \in places}
  IN [file EXCEPT
        !.words = FlattenSeq([k \in DOMAIN order |-> StcmWords(order[k])]),
        !.gbnl = Still(@) \union
          {t.position[i] + Len(t.own[i]) - 16 :
             i \in {j \in Items : t.kind[j] = "gbnl"
                                  /\ Edited \in Range(t.own[j])}}]
=============================================================================
