------------------------------ MODULE Scripts ------------------------------
(***************************************************************************)
(* Opening a script, with the parser that knows its magic, and then, in    *)
(* any order, what the editor does with it: import texts, collect the      *)
(* garbage, fix the positions up, dump the file, and open what was dumped. *)
(***************************************************************************)
EXTENDS Stsc, Stcm

CONSTANTS
  TextFiles   \* texts for STSC files: how many lines each of the blocks has

VARIABLES
  saved       \* what the file held when it was dumped; Unset before

allVars == <<scriptVars, saved>>

ScriptInit ==
  /\ t = Unparsed @@ [origin |-> <<>>, gbnl |-> Root]
  /\ file \in Files /\ calls = <<>> /\ phase = "opening" /\ saved = Unset

(* OpenFactory::Open, and the constructor of the File up to the header. *)
OpenFile ==
  LET make == IF file.magic = "STSC" /\ Size >= 12 THEN "stscHeader"
              ELSE IF file.magic \in {"STCM2L", "STCM"} /\ Size >= 15
              THEN "stcmHeader" ELSE "nothing"
  IN /\ phase = "opening"
     /\ calls' = IF make = "nothing" THEN <<>> ELSE << CallFirst(make) >>
     /\ phase' = IF make = "nothing" THEN "failed" ELSE "parsing"
     /\ UNCHANGED <<t, file>>

Parse ==
  \/ OpenFile \/ Found \/ CreateString
  \/ CreateStscHeader \/ CreateStscInstruction
  \/ CreateStcmHeader \/ CreateLink \/ CreateExpansionsItem \/ CreateExports
  \/ CreateStcmInstruction \/ CreateDataItem

\* Bound: a file is saved once, and not edited when it is opened again.
Opened == phase \in {"parsed", "edited", "fixed"} /\ saved = Unset

ImportTxt ==
  /\ Opened
  /\ IF file.magic = "STSC" THEN \E blocks \in TextFiles : ReadStscTxt(blocks)
     ELSE ReadStcmTxt

CollectGarbage ==
  Opened /\ file.magic # "STSC" /\ Gc /\ UNCHANGED <<file, calls>>

(* Mutant: the file is dumped with the positions it was read with. *)
FixupFileMutant == Opened /\ phase' = "fixed" /\ UNCHANGED <<t, file, calls>>

FixupFile ==
  (Opened \/ phase = "parsed") /\ Fixup /\ UNCHANGED <<file, calls>>

(* Dump *)
DumpedFile ==
  IF file.magic = "STSC" THEN DumpedStsc(DumpOrder) ELSE DumpedStcm(DumpOrder)

(* A string of one unit is dumped as data that may be a number as well, and  *)
(* is read as data (string_data.cpp:17).                                     *)
Reads(i) ==
  IF t.kind[i] = "stringdata" /\ Len(t.own[i]) = 5
  THEN <<"data", t.position[i], 4>>
  ELSE <<t.kind[i], t.position[i], Len(t.own[i])>>

(* What a reader of the file finds: items of which classes where, and what   *)
(* is pointed to.                                                            *)
Layout ==
  [items |-> {Reads(i) : i \in {j \in Items : t.kind[j] \notin {"free", "raw"}}},
   targets |-> {ToFilePos(t, t.label[n]) : n \in DOMAIN t.origin}]

(* Dump, and the next run of the editor on the file it wrote. A bound of the *)
(* model: files that are as long as before.                                  *)
SaveAndOpen ==
  /\ phase = "fixed" /\ saved = Unset /\ Len(Dumped(t)[Root]) = Size
  /\ saved' = Layout /\ file' = DumpedFile
  /\ t' = Unparsed @@ [origin |-> <<>>, gbnl |-> Root]
  /\ phase' = "opening" /\ UNCHANGED calls

(* The program reports the exception and ends. *)
Stopped ==
  \/ phase = "failed"
  \/ phase = "fixed" /\ saved # Unset

ScriptNext ==
  \/ (Parse \/ ImportTxt \/ CollectGarbage \/ FixupFile) /\ UNCHANGED saved
  \/ SaveAndOpen
  \/ Stopped /\ UNCHANGED allVars

ScriptSpec == ScriptInit /\ [][ScriptNext]_allVars

-----------------------------------------------------------------------------
(* Properties *)

Parsing == phase \in {"parsing", "parsed"}

(* The strings that were followed by a unit of padding, and that unit, which *)
(* the code does not keep (string_data.cpp:26).                              *)
PaddedStrings ==
  {i \in Items : t.kind[i] = "stringdata"
                 /\ Len(t.own[i]) = 3 + Num(t.own[i][1] + 1)}
Lost == {Last(t.own[i]) + 1 : i \in PaddedStrings}
Kept(lost) == SelectSeq([k \in 1..Size |-> k - 1], LAMBDA p : p \notin lost)

(* Whatever the parsers make of a file, and in whatever order its pointers   *)
(* lead them through it, what would be dumped is the file, but for units of  *)
(* zeros behind strings, and every label points where the offset it was made *)
(* for does: no byte is lost, taken twice or moved between the moment a      *)
(* pointer is read from the file and the moment its target is made           *)
(* (collection_link.cpp:52-69).                                              *)
ParseKeepsFile ==
  Parsing =>
    /\ \E lost \in {Lost} : /\ Dumped(t)[Root] = Kept(lost)
                            /\ \A p \in lost : Word(p) = Number(0)
    /\ \A n \in DOMAIN t.origin : ToFilePos(t, t.label[n]) = t.origin[n]

\* The item that was made for an offset.
MadeAt(p) == t.label[LabelFor(p)]
Holds(p, kinds) == t.kind[MadeAt(p).item] \in kinds /\ MadeAt(p).offset = 0

Instructions == {i \in Range(t.kids[Root]) : t.kind[i] = "instruction"}

StscTargets(i) ==
  LET p == t.position[i] IN
  /\ \A r \in Range(Labels(p)) :
       /\ r.what = "string" => Holds(r.to, {"string"})
       /\ r.what = "target" => Holds(r.to, {"instruction"})
       /\ r.what = "code" => t.kind[MadeAt(r.to).item] # "raw"
  /\ FallsThrough(p) => t.kind[Behind(t, i)] # "raw"

StcmTargets(i) ==
  LET p == t.position[i] IN
  /\ IsCall(p) => Holds(Num(p + 1), {"instruction"})
  /\ (IsCall(p) \/ Num(p + 1) \notin NoReturns)
       => t.kind[Behind(t, i)] = "instruction"
  /\ \A w \in Range(Params(p)) :
       /\ w[1][1] = 0 => Holds(w[1][2], {"data", "stringdata"})
       /\ (w[1][1] = 3 /\ w[1][2] \in InstrPtr)
            => Holds(w[2][2], {"instruction"})

(* A file that opens was parsed as far as its instructions reach: whatever   *)
(* is called, jumped to, fallen into, or named by an instruction is an item  *)
(* of the right class, although the parser met them in another order and cut *)
(* the bytes around them meanwhile.  Texts that are not found would silently *)
(* not be translated.                                                        *)
ReachedCodeParsed ==
  phase = "parsed" =>
    \A i \in Instructions :
      IF file.magic = "STSC" THEN StscTargets(i) ELSE StcmTargets(i)

(* The bits of a switch that are neither its flag nor counted are lost in a  *)
(* dump (instruction.cpp:542-543).                                           *)
KeptCount(p) == DefaultBit + (U16(p + 5) % (CountMask + 1))
KeptByte(p) ==
  LET Flagged(q) == Op(q).kind = "switch" /\ HasDefault(q)
      At(k) == {q \in {t.own[i][1] : i \in Instructions} :
                  q + k = p /\ Flagged(q)}
  IN IF At(5) # {} THEN KeptCount(p - 5) % 256
     ELSE IF At(6) # {} THEN KeptCount(p - 6) \div 256
     ELSE file.bytes[p + 1]

(* With a unit of padding lost, what is behind moves, the offsets that point *)
(* there with it, and the two lengths of the string are one less.            *)
NowAt(p, lost) == p - Cardinality({q \in lost : q < p})
KeptWord(p, lost) ==
  IF \E i \in PaddedStrings : p - t.own[i][1] \in {1, 3} THEN Number(Num(p) - 1)
  ELSE IF \E n \in DOMAIN t.origin : Word(p) = Number(t.origin[n])
  THEN Number(NowAt(Num(p), lost))
  ELSE Word(p)

Unedited(lost) ==
  IF file.magic = "STSC"
  THEN [file EXCEPT !.bytes = [k \in 1..Size |-> KeptByte(k - 1)]]
  ELSE [file EXCEPT
          !.words = [k \in DOMAIN Kept(lost) |-> KeptWord(Kept(lost)[k], lost)],
          !.gbnl = {NowAt(p, lost) : p \in @}]

(* A file that opens, and is not edited, is dumped as it was, but for these  *)
(* two losses: every other parameter, count, flag and offset of both formats *)
(* is kept, however the items were split off and replaced after their labels *)
(* were made; and what a parser does not keep, it has made sure is zero.     *)
DumpKeepsFile ==
  phase = "fixed" =>
    \E lost \in {Lost} :
      Dumped(t)[Root] = Kept(lost) => DumpedFile = Unedited(lost)

(* A file that is dumped, after the texts were replaced and the garbage was  *)
(* collected in any order, opens again, and has the same items and targets   *)
(* where they were dumped.                                                   *)
DumpOpensAgain ==
  saved # Unset => phase # "failed" /\ (phase = "parsed" => Layout = saved)

(* After the texts are replaced and the garbage is collected, in any order,  *)
(* and the positions fixed, every label of the dump is at the unit the       *)
(* offset pointed to, at the start of the text that took its place, or, if   *)
(* that was padding that is lost, behind the string.                         *)
LabelsFollow ==
  phase = "fixed" =>
    \E dump \in {Dumped(t)[Root]} : \A n \in DOMAIN t.origin :
      LET p == ToFilePos(t, t.label[n]) IN
      IF t.origin[n] = Size THEN p = Len(dump)
      ELSE IF t.origin[n] \in Lost
      THEN p \in DOMAIN dump /\ dump[p] = t.origin[n] - 1
      ELSE /\ p + 1 \in DOMAIN dump
           /\ \/ dump[p + 1] = t.origin[n]
              \/ dump[p + 1] = Edited /\ t.label[n].offset = 0

UnparsedUnits ==
  FoldFunction(+, 0, [i \in Items |-> IF t.kind[i] = "raw" THEN Len(t.own[i])
                                      ELSE 0])

(* The recursion through a file ends, whatever loops its jumps make: a step  *)
(* of the parser either makes an item of bytes that were not parsed, or is   *)
(* the last of a call and makes no more calls.                               *)
ParseEnds ==
  [][phase = "parsing" =>
       \/ UnparsedUnits' < UnparsedUnits
       \/ UnparsedUnits' = UnparsedUnits /\ Len(calls') < Len(calls)
    ]_scriptVars

=============================================================================
