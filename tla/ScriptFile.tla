----------------------------- MODULE ScriptFile -----------------------------
(***************************************************************************)
(* What the parsers of STCM and STSC scripts share: the tree of ItemTree,  *)
(* the file it is made from, and the calls that are still to be made.  A   *)
(* parser creates an item and then, recursively, whatever the item refers  *)
(* to (MaybeCreate, raw_item.hpp); `calls` is what the C++ stack holds:    *)
(* the next call first, the rest of each caller's loop behind it.          *)
(*                                                                         *)
(* A unit is a byte in STSC and four bytes in STCM.  A label's name is its *)
(* number, origin[n] the offset it was made for.                           *)
(***************************************************************************)
EXTENDS ItemTree

CONSTANTS
  Files     \* the files that are opened

VARIABLES
  file,     \* the file that is opened
  calls     \* calls of CreateAndInsert and MaybeCreate to be made

scriptVars == <<t, phase, file, calls>>

ASSUME ScriptAssumption == Names = 1..Cardinality(Names)

-----------------------------------------------------------------------------
(* Calls *)

(* A call for what a label points to, for the item behind an item, and for   *)
(* the first one: all are looked up when the call is made.                   *)
Call(make, name) == [make |-> make, label |-> name, behind |-> Root]
CallBehind(make, i) == [make |-> make, label |-> 0, behind |-> i]
CallFirst(make) == [make |-> make, label |-> 0, behind |-> Root]

Target(s, call) ==
  IF call.label # 0 THEN s.label[call.label]
  ELSE [item |-> IF call.behind = Root THEN Head(s.kids[Root])
                 ELSE Behind(s, call.behind),
        offset |-> 0]

Made == IF calls = <<>> THEN "nothing" ELSE Head(calls).make
Ptr == Target(t, Head(calls))

(* RawItem::GetSource(ptr, -1): how many units there are from ptr on, and    *)
(* where in the file they are.                                               *)
IsRaw(s, ptr) == s.kind[ptr.item] = "raw"
Rest(s, ptr) == Len(s.own[ptr.item]) - ptr.offset
Place(s, ptr) == s.position[ptr.item] + ptr.offset

(* A call returns after it made s, and calls `more` before its caller goes   *)
(* on.  The parser is done when no call is left.                             *)
Returns(s, more) ==
  /\ t' = s
  /\ calls' = more \o Tail(calls)
  /\ phase' = IF calls' = <<>> THEN "parsed" ELSE "parsing"
  /\ UNCHANGED file

(* An exception, or an assertion that fails: the constructor of the File is  *)
(* left, and no file is there.                                               *)
Throws ==
  /\ phase' = "failed" /\ calls' = <<>>
  /\ UNCHANGED <<t, file>>

\* Either what is made of the tree, or nothing if making it throws.
ReturnsOne(made) ==
  IF made = {} THEN Throws ELSE \E s \in made : Returns(s, <<>>)

-----------------------------------------------------------------------------
(* Labels and strings *)

(* Context::GetLabelTo, CreateLabelFallback: a label more at a place that    *)
(* has one already moves with it, so one is enough.                          *)
LabelTo(s, ptr) ==
  LET new == Len(s.origin) + 1 IN
  IF \E n \in Names : s.label[n] = ptr THEN s
  ELSE [s EXCEPT !.label[new] = ptr, !.origin = Append(@, ToFilePos(s, ptr))]

Labelled(s, p) == Applied(LAMBDA u : LabelTo(u, GetPointer(u, p)), s)
LabelledAll(s, offsets) == FoldLeft(Labelled, s, offsets)
LabelAt(s, p) == CHOOSE n \in Names : s.label[n] = GetPointer(s, p)

(* The four bytes of a word, a pair of its upper two bits and the rest. *)
WordBytes(w) ==
  << w[2] % 256, (w[2] \div 256) % 256, (w[2] \div 256^2) % 256,
     64 * w[1] + w[2] \div 256^3 >>

UnitBytes(p) ==
  IF file.magic = "STSC" THEN << file.bytes[p + 1] >>
  ELSE WordBytes(file.words[p + 1])

Nul(p) == 0 \in Range(UnitBytes(p))

(* Source::PreadCString(0) of the source at ptr: where its zero byte is. *)
NulsFrom(s, ptr) ==
  {k \in ptr.offset .. Len(s.own[ptr.item]) - 1 : Nul(s.own[ptr.item][k + 1])}

(* CStringItem::CreateAndInsert; {} if it throws.  A bound of the model: the  *)
(* zero byte is the last one of its unit.                                    *)
StringMade(s, ptr) ==
  {Split(s, ptr.item, ptr.offset, Min(N) + 1 - ptr.offset, "string") :
     N \in {NulsFrom(s, ptr)} \ {{}}}

(* MaybeCreate<CStringItem>(ptr) *)
MaybeString(s, ptr) ==
  IF IsRaw(s, ptr) THEN StringMade(s, ptr)
  ELSE IF s.kind[ptr.item] = "string" /\ ptr.offset = 0 THEN {s} ELSE {}

-----------------------------------------------------------------------------
(* MaybeCreate<CStringItem> where the bytes are not parsed yet *)
CreateString ==
  /\ Made = "string" /\ IsRaw(t, Ptr)
  /\ ReturnsOne(StringMade(t, Ptr))

(* Mutant: what follows an item that is there is created once more. *)
FoundMutant ==
  /\ Made \in {"code", "target", "string", "instruction", "data"}
  /\ ~ IsRaw(t, Ptr)
  /\ Returns(t, << CallBehind(Made, Ptr.item) >>)

(* MaybeCreate and MaybeCreateUnchecked where they are: the former throws if *)
(* what is there is something else, or begins before.                        *)
Found ==
  /\ Made \in {"code", "target", "string", "instruction", "data"}
  /\ ~ IsRaw(t, Ptr)
  /\ LET kind == IF Made = "target" THEN "instruction" ELSE Made IN
     IF Made = "code" \/ (t.kind[Ptr.item] = kind /\ Ptr.offset = 0)
     THEN Returns(t, <<>>)
     ELSE Throws

-----------------------------------------------------------------------------
(* Dumping *)

(* The label made for an offset of the file, and where it points to now. *)
LabelFor(p) == CHOOSE n \in DOMAIN t.origin : t.origin[n] = p
LabelPos(n) == ToFilePos(t, t.label[n])
Pos(p) == LabelPos(LabelFor(p))

(* A field is where in an item it is, and the units Dump_ writes there; the  *)
(* rest is written as it was read.                                           *)
Field(at, units) == [at |-> at, units |-> units]

WithFields(units, fields) ==
  [k \in DOMAIN units |->
     LET over == {f \in fields : k - f.at \in DOMAIN f.units} IN
     IF over = {} THEN units[k]
     ELSE LET f == CHOOSE f \in over : TRUE IN f.units[k - f.at]]
=============================================================================
