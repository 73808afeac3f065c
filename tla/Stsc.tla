-------------------------------- MODULE Stsc --------------------------------
(***************************************************************************)
(* STSC scripts (src/format/stsc): a header that points to the first       *)
(* instruction; instructions that point to others, to strings and to data. *)
(* The parser follows them.  Then the strings are exported and imported    *)
(* as lines of text.                                                       *)
(*                                                                         *)
(* The unit is a byte; numbers of 2^30 and more are all alike.             *)
(***************************************************************************)
EXTENDS ScriptFile, StscOpcodes

CONSTANTS
  DefaultBit, \* the flag of a switch whose last case is the default: 0x8000
  CountMask   \* the bits that count the cases then: 0x7ff

ASSUME StscAssumption ==
  DefaultBit \in Nat \ {0} /\ CountMask \in Nat \ {0} /\ CountMask < DefaultBit

-----------------------------------------------------------------------------
(* Numbers in the file, which is not edited while it is parsed *)

U8(p) == file.bytes[p + 1]
U16(p) == U8(p) + 256 * U8(p + 1)
U32(p) ==
  IF U8(p + 3) >= 64 THEN 2^30 ELSE U16(p) + 65536 * U16(p + 2)

-----------------------------------------------------------------------------
(* HeaderItem *)

HeaderSize(flags) ==
  12 + (IF flags % 2 = 1 THEN 32 ELSE 0)
     + (IF (flags \div 2) % 2 = 1 THEN 14 ELSE 0)
     + (IF (flags \div 4) % 2 = 1 THEN 2 ELSE 0)

\* HeaderItem::Header::Validate
HeaderValid(entryPoint, flags) ==
  entryPoint < Size - 1 /\ flags < 8 /\ entryPoint >= HeaderSize(flags)

(* HeaderItem::CreateAndInsert: the instruction at the entry point is        *)
(* created whatever is there.                                                *)
CreateStscHeader ==
  /\ Made = "stscHeader"
  /\ IF ~ HeaderValid(U32(4), U32(8)) THEN Throws
     ELSE LET s == Labelled(t, U32(4)) IN
          Returns(
            Split(s, Ptr.item, Ptr.offset, HeaderSize(U32(8)), "header"),
            << Call("entry", LabelAt(s, U32(4))) >>)

-----------------------------------------------------------------------------
(* Instructions: p is where one begins, rest how much the RawItem has there *)

Op(p) == Opcode(file.flavor, U8(p))

\* InstructionJumpSwitchItemNoire::Parse_
HasDefault(p) == (U16(p + 5) \div DefaultBit) % 2 = 1
Cases(p) ==
  IF HasDefault(p) THEN U16(p + 5) % (CountMask + 1) ELSE U16(p + 5)

\* GetSize of every class
RndJumpSize(p) == 2 + 4 * U8(p + 1)
JumpIfSize(p) == 7 + 9 * U16(p + 1)
SwitchSize(p) ==
  7 + 8 * Cases(p) + (IF file.flavor = "potbb" THEN 1 ELSE 0)

InstructionSize(p) ==
  CASE Op(p).kind = "simple" -> Op(p).size
    [] Op(p).kind = "rndjump" -> RndJumpSize(p)
    [] Op(p).kind = "jumpif" -> JumpIfSize(p)
    [] Op(p).kind = "switch" -> SwitchSize(p)

(* The offsets an instruction contains, in the order of PostInsert, and what *)
(* is created there.                                                         *)
Refs(p) ==
  LET Case(what, n, first, step) ==
        [k \in 1..n |->
           LET at == first + step * (k - 1) IN
           [what |-> what, at |-> at, to |-> U32(p + at)]]
  IN CASE Op(p).kind = "simple" ->
            [k \in DOMAIN Op(p).refs |->
               Op(p).refs[k] @@ [to |-> U32(p + Op(p).refs[k].at)]]
       [] Op(p).kind = "rndjump" -> Case("code", U8(p + 1), 2, 4)
       [] Op(p).kind = "jumpif" -> Case("code", 1, 3, 0)
       [] Op(p).kind = "switch" -> Case("target", Cases(p), 11, 8)

(* In a simple instruction 0 is no offset at all. *)
Labels(p) ==
  SelectSeq(Refs(p), LAMBDA r : Op(p).kind # "simple" \/ r.to # 0)

(* Parse_ throws unless all of the instruction is there, a jump goes into    *)
(* the file and another offset not behind it, the nodes of a condition are   *)
(* its own, and there are as many cases as the number with its flag says.    *)
SimpleParses(p, rest) ==
  rest >= Op(p).size /\ \A r \in Range(Refs(p)) : r.to <= Size

Jumps(p) == \A r \in Range(Refs(p)) : r.to < Size

RndJumpParses(p, rest) ==
  rest >= 2 /\ rest >= InstructionSize(p) /\ Jumps(p)

\* InstructionJumpIfItem::NodeParams::Validate of all nodes
NodesValid(p) ==
  \A k \in 0 .. U16(p + 1) - 1, child \in {5, 7} :
    U16(p + 7 + 9 * k + child) <= U16(p + 1)

JumpIfParses(p, rest) ==
  rest >= 7 /\ rest >= InstructionSize(p) /\ Jumps(p) /\ NodesValid(p)

SwitchParses(p, rest) ==
  /\ rest >= 7 /\ rest - 7 >= 8 * U16(p + 5)
  /\ rest >= InstructionSize(p) /\ Jumps(p)

Parses(p, rest) ==
  CASE Op(p).kind = "simple" -> SimpleParses(p, rest)
    [] Op(p).kind = "rndjump" -> RndJumpParses(p, rest)
    [] Op(p).kind = "jumpif" -> JumpIfParses(p, rest)
    [] Op(p).kind = "switch" -> SwitchParses(p, rest)
    [] OTHER -> FALSE

(* Traits<std::string>::Parse names a label after the string, which has to   *)
(* end in the bytes that are not parsed yet.                                 *)
StringsEnd(s, p) ==
  \A r \in Range(Labels(p)) :
    r.what = "string" => LET ptr == GetPointer(s, r.to) IN
                         IsRaw(s, ptr) => NulsFrom(s, ptr) # {}

(* Is there an instruction behind this one? *)
FallsThrough(p) ==
  CASE Op(p).kind = "simple" -> ~ Op(p).noReturn
    [] Op(p).kind = "switch" -> ~ HasDefault(p)
    [] OTHER -> TRUE

(* Mutant: the operands of an instruction are not looked at. *)
PostInsertMutant(s, p, i) ==
  IF FallsThrough(p) THEN << CallBehind("code", i) >> ELSE <<>>

(* PostInsert of the instruction i at p; nothing is created for data. *)
PostInsert(s, p, i) ==
  LET At(r) == Call(r.what, LabelAt(s, r.to))
      refs == SelectSeq(Labels(p), LAMBDA r : r.what # "data")
  IN [k \in DOMAIN refs |-> At(refs[k])]
       \o (IF FallsThrough(p) THEN << CallBehind("code", i) >> ELSE <<>>)

(* InstructionBase::CreateAndInsert *)
CreateStscInstruction ==
  /\ \/ Made \in {"code", "target"} /\ IsRaw(t, Ptr)
     \/ Made = "entry"
  /\ IF ~ IsRaw(t, Ptr) \/ Rest(t, Ptr) < 1 THEN Throws
     ELSE \E ptr \in {Ptr} : \E p \in {Place(t, ptr)} :
            IF ~ Parses(p, Rest(t, ptr)) \/ ~ StringsEnd(t, p) THEN Throws
            ELSE \E s \in {LabelledAll(t, [k \in DOMAIN Labels(p) |->
                                               Labels(p)[k].to])} :
                   Returns(Split(s, ptr.item, ptr.offset, InstructionSize(p),
                                 "instruction"),
                           PostInsert(s, p, Fresh(s)))

-----------------------------------------------------------------------------
(* Texts *)

StringItems(s) == SelectSeq(s.kids[Root], LAMBDA i : s.kind[i] = "string")

(* How many bytes a string of n lines of a character each has: two for every *)
(* \n between them, and the zero byte.                                       *)
TextSize(n) == IF n = 0 THEN 1 ELSE 3 * n - 1

(* File::ReadTxt_ of a file of blocks, given by their numbers of lines, each *)
(* followed by a line of dashes: strings get the blocks in the order they    *)
(* are in the file. The last ones are changed already when a block more, or  *)
(* one less, makes it throw.                                                 *)
ReadStscTxt(blocks) ==
  LET strings == StringItems(t)
      Assigned(i) == IndexIn(strings, i) <= Len(blocks)
      Text(i) == [k \in 1 .. TextSize(blocks[IndexIn(strings, i)]) |-> Edited]
  IN /\ t' = [t EXCEPT !.own = [i \in Items |->
                IF i \in Range(strings) /\ Assigned(i) THEN Text(i) ELSE @[i]]]
     /\ phase' = IF Len(blocks) = Len(strings) THEN "edited" ELSE "failed"
     /\ UNCHANGED <<file, calls>>

-----------------------------------------------------------------------------
(* Dumping *)

U32Bytes(n) == [k \in 1..4 |-> (n \div 256^(k - 1)) % 256]

(* Dump_ of the offsets in an instruction; null is 0, which was no label. *)
OffsetFields(p) ==
  {Field(r.at, U32Bytes(Pos(r.to))) : r \in Range(Labels(p))}

(* InstructionJumpSwitchItemNoire::Dump_: the number of cases and the flag *)
SwitchFields(p) ==
  LET count == Cases(p) + (IF HasDefault(p) THEN DefaultBit ELSE 0) IN
  IF Op(p).kind = "switch" THEN {Field(5, <<count % 256, count \div 256>>)}
  ELSE {}

\* InstructionRndJumpItem::Dump_
RndJumpFields(p) ==
  IF Op(p).kind = "rndjump" THEN {Field(1, <<Len(Refs(p))>>)} ELSE {}

StscFields(i) ==
  LET p == t.own[i][1] IN
  CASE t.kind[i] = "header" -> {Field(4, U32Bytes(Pos(U32(4))))}
    [] t.kind[i] = "instruction" ->
         OffsetFields(p) \union RndJumpFields(p) \union SwitchFields(p)
    [] OTHER -> {}

\* CStringItem::Dump_ of a text that was read is any bytes and a zero byte.
StscBytes(i) ==
  LET units == t.own[i] IN
  WithFields([k \in DOMAIN units |->
                IF units[k] # Edited THEN file.bytes[units[k] + 1]
                ELSE IF k = Len(units) THEN 0 ELSE 120],
             StscFields(i))

DumpedStsc(order) ==
  [file EXCEPT !.bytes =
     FlattenSeq([k \in DOMAIN order |-> StscBytes(order[k])])]
=============================================================================
