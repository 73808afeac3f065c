------------------------------ MODULE GbnlText ------------------------------
(* A table of texts while it is edited: scripts change messages (through     *)
(* gbnl_lua.hpp), texts are exported, edited by a translator and imported    *)
(* line by line (WriteTxt_, ReadTxt_), and the table is saved and read       *)
(* again.  An import that throws leaves what it has done so far.             *)
EXTENDS Gbnl

CONSTANTS Tables,  \* the tables of the game's files
          Words,   \* texts that are put into messages and text files
          MaxOps   \* bound: changes made to the table

ASSUME CharAssumption == {"n", "r"} \subseteq Char
ASSUME TablesAssumption == \A g \in Tables : IsTable(g)
ASSUME WordsAssumption == Words \subseteq Seq(Char)

VARIABLES table,   \* the Gbnl in memory
          saved,   \* the file it was saved to last, if any
          lines,   \* the lines that ReadTxt_ has yet to read
          msg,     \* ReadTxt_'s msg: the text of the block so far
          pos,     \* ReadTxt_'s last_index and pos, [index, field], from 1;
                   \* field 0 before the first block, index 0 without import
          ops,     \* changes so far
          job      \* what is imported, [before, simple, file]: the table as
                   \* it was, and the blocks as their author sees them

import == <<lines, msg, pos, job>>
vars == <<table, saved, ops, import>>

Nowhere == [index |-> 0, field |-> 0]

NoJob(g) == [before |-> g, simple |-> FALSE, file |-> <<>>]

Idle == pos = Nowhere

(* A change begins. *)
Change ==
    /\ Idle
    /\ ops < MaxOps
    /\ ops' = ops + 1

-----------------------------------------------------------------------------
(* Text files: lines of separators [id, simple], of texts, and "EOF".  A     *)
(* text has line feeds "n" and returns "r"; no line of it looks like a       *)
(* separator.                                                                *)

(* Where the lines of a text end: at its line feeds and behind it. *)
Ends(text) == {e \in 1 .. Len(text) + 1 : e = Len(text) + 1 \/ text[e] = "n"}

(* The line that ends at e. *)
LineAt(text, e) ==
    SubSeq(text, Max({0} \cup {b \in Ends(text) : b < e}) + 1, e - 1)

(* WriteTxt_ writes "\r\n" for a line feed and behind the text. *)
TextLines(text) ==
    FlattenSeq([e \in 1 .. Len(text) + 1 |->
        IF e \in Ends(text)
        THEN <<[is |-> "text", text |-> Append(LineAt(text, e), "r")]>>
        ELSE <<>>])

FileLines(simple, file) ==
    FlattenSeq([k \in DOMAIN file |->
        <<[is |-> "separator", id |-> file[k].id, simple |-> simple]>>
          \o TextLines(file[k].text)])

TextOf(g, j, i) ==
    IF g.type[i].kind = "fix" THEN g.messages[j][i] ELSE g.messages[j][i].str

(* WriteTxt_: a block for every text that has an id. *)
WriteTxt(simple, g) ==
    FlattenSeq([k \in Cells(g) |->
        LET j == Row(g, k)
            i == Column(g, k)
        IN  IF HasId(g, j, i)
            THEN <<[id |-> GetId(simple, g, j, i), text |-> TextOf(g, j, i)]>>
            ELSE <<>>])

(* What a translator does to an exported file: nothing, another text in a    *)
(* block, a block deleted, moved to the end, or with an id of no text.       *)
Edited(file) ==
    {file}
    \cup {[file EXCEPT ![k].text = w] : k \in DOMAIN file, w \in Words}
    \cup {RemoveAt(file, k) : k \in DOMAIN file}
    \cup {Append(RemoveAt(file, k), file[k]) : k \in DOMAIN file}
    \cup {[file EXCEPT ![k].id = -1] : k \in DOMAIN file}

-----------------------------------------------------------------------------
Init ==
    /\ table \in {RecalcSize(g) : g \in Tables}
    /\ saved = {}
    /\ ops = 0
    /\ lines = <<>>
    /\ msg = <<>>
    /\ pos = Nowhere
    /\ job = NoJob(table)

(* A script assigns to a string: nil takes it away, a string is "no longer   *)
(* null" and its place is not known.                                         *)
SetString ==
    /\ Change
    /\ \E k \in {l \in Cells(table) : IsString(table, l)} :
       \E s \in {[str |-> w, offset |-> 0] : w \in Words}
                 \cup {[str |-> <<>>, offset |-> Null]} :
         table' = [table EXCEPT
                    !.messages[Row(table, k)][Column(table, k)] = s]
    /\ UNCHANGED <<saved, import>>

RemoveMessage ==
    /\ Change
    /\ \E j \in DOMAIN table.messages :
         table' = [table EXCEPT !.messages = RemoveAt(@, j)]
    /\ UNCHANGED <<saved, import>>

(* Fixup and Dump_. *)
Save ==
    /\ Idle
    /\ saved = {}
    /\ table' = RecalcSize(table)
    /\ saved' = {Dump(table')}
    /\ UNCHANGED <<ops, import>>

(* The file is opened; Validate may throw. *)
Load ==
    /\ Idle
    /\ \E f \in saved : table' = IF Validates(f) THEN Parse(f) ELSE table
    /\ saved' = {}
    /\ UNCHANGED <<ops, import>>

-----------------------------------------------------------------------------
(* ReadTxt_ is given a text file; there may be a line before its blocks, and *)
(* it may lack its "EOF".  Bound: a simple id names a text that exists.      *)
OpenTxt ==
    /\ Change
    /\ \E simple \in BOOLEAN : \E file \in Edited(WriteTxt(simple, table)) :
         /\ \A k \in DOMAIN file :
              simple => SimpleDst(file[k].id) \in Targets(table)
         /\ job' = [before |-> table, simple |-> simple, file |-> file]
         /\ \E start \in {<<>>, <<[is |-> "text", text |-> <<"r">>]>>} :
            \E end \in {<<>>, <<[is |-> "eof"]>>} :
              lines' = start \o FileLines(simple, file) \o end
    /\ pos' = [index |-> 1, field |-> 0]
    /\ msg' = <<>>
    /\ UNCHANGED <<table, saved>>

(* A mistake: strncpy is given the whole field. *)
EndBlockMutant ==
    IF pos.field = 0 THEN table
    ELSE LET text == Front(msg)
             field == table.type[pos.field]
         IN  [table EXCEPT !.messages[pos.index][pos.field] =
                IF field.kind = "str" THEN [@ EXCEPT !.str = text]
                ELSE strncpy(text, field.size)]

(* The end of a block: the text goes where the block's id said; the last     *)
(* line feed is not part of it.                                              *)
EndBlock ==
    IF pos.field = 0 THEN table
    ELSE LET text == Front(msg)
             field == table.type[pos.field]
         IN  [table EXCEPT !.messages[pos.index][pos.field] =
                IF field.kind = "str" THEN [@ EXCEPT !.str = text]
                ELSE strncpy(text, field.size - 1)]

NextIs(kind) == lines # <<>> /\ Head(lines).is = kind

Done ==
    /\ lines' = <<>>
    /\ msg' = <<>>
    /\ pos' = Nowhere
    /\ job' = NoJob(table')

ReadSeparator ==
    /\ NextIs("separator")
    /\ table' = EndBlock
    /\ LET simple == Head(lines).simple
           id == Head(lines).id
       IN
       IF simple \/ \E t \in Targets(table') :
                       GetId(simple, table', t[1], t[2]) = id
       THEN /\ pos' = LET dst == FindDst(simple, table', id, pos.index)
                      IN  [index |-> dst[1], field |-> dst[2]]
            /\ lines' = Tail(lines)
            /\ msg' = <<>>
            /\ UNCHANGED job
       ELSE Done       \* "invalid id in input"
    /\ UNCHANGED <<saved, ops>>

(* A mistake: every carriage return of the line is dropped. *)
ChompMutant(line) == SelectSeq(line, LAMBDA c : c # "r")

(* A carriage return at the end of a line is dropped. *)
Chomp(line) ==
    IF line # <<>> /\ Last(line) = "r" THEN Front(line) ELSE line

ReadText ==
    /\ NextIs("text")
    /\ UNCHANGED <<table, saved, ops>>
    /\ \/ /\ pos.field # 0
          /\ msg' = msg \o Chomp(Head(lines).text) \o <<"n">>
          /\ lines' = Tail(lines)
          /\ UNCHANGED <<pos, job>>
       \/ pos.field = 0 /\ Done      \* "data before separator"

ReadEof ==
    /\ NextIs("eof")
    /\ table' = RecalcSize(EndBlock)
    /\ Done
    /\ UNCHANGED <<saved, ops>>

(* The file ends without "EOF", and ReadTxt_ throws. *)
ReadNothing ==
    /\ ~Idle
    /\ lines = <<>>
    /\ UNCHANGED <<table, saved, ops>>
    /\ Done

Next ==
    \/ SetString \/ RemoveMessage \/ Save \/ Load
    \/ OpenTxt \/ ReadSeparator \/ ReadText \/ ReadEof \/ ReadNothing

Spec == Init /\ [][Next]_vars

-----------------------------------------------------------------------------
(* Properties. *)

(* A table keeps the shape its type gives it, whatever scripts and imports   *)
(* do, and an import writes to a text that is there.                         *)
TypeOK ==
    /\ IsTable(table)
    /\ Idle => lines = <<>>
    /\ pos.field # 0 => <<pos.index, pos.field>> \in Targets(table)

(* The text that a field of n bytes has room for. *)
Fitting(field, text) ==
    IF field.kind = "fix"
    THEN strncpy(text, field.size - 1) ELSE text

(* What the file says about an id: its last block, or nothing. *)
Says(file, id, text) ==
    LET named == {k \in DOMAIN file : file[k].id = id}
    IN  IF named = {} THEN text ELSE file[Max(named)].text

(* An import that gets to its "EOF" changes the texts the file names and no  *)
(* other, to what its author wrote, line feeds and returns included, however *)
(* the blocks are ordered (FindDst searches from where the last block was,   *)
(* format/gbnl.cpp:642-668).  Ids must tell the texts apart, as GetId's do   *)
(* not always.                                                               *)
ImportComplete ==
    [][ReadEof /\ DistinctIds(job.simple, job.before) =>
         \A t \in Targets(job.before) :
            LET id == GetId(job.simple, job.before, t[1], t[2]) IN
            TextOf(table', t[1], t[2]) =
              Fitting(table.type[t[2]],
                Says(job.file, id, TextOf(job.before, t[1], t[2])))]_vars

(* The assertion of Dump_ and the size it was announced with: the strings    *)
(* written are those RecalcSize counted, also after an import that threw     *)
(* half way (format/gbnl.cpp:394, 501-547).                                  *)
DumpAsserts ==
    [][Save => \A f \in saved' : /\ f.strings_size = table'.msgs_size
                                 /\ f.size = GetSize(table')]_vars

(* A table that was saved is accepted and read as it was: texts that share   *)
(* a place, null strings, strings in place and padding (format/gbnl.cpp:     *)
(* 105-230, 312-433).  A GSTL without a string is the exception: it ends     *)
(* with its descriptors, and Validate wants their end inside the file.       *)
SavedReadsBack ==
    [][Save /\ (table'.gstl => table'.msgs_size > 0) =>
         \A f \in saved' :
            OffsetsLead(f) /\ Validates(f) /\ Parse(f) = table']_vars
=============================================================================
