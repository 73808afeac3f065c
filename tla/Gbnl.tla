-------------------------------- MODULE Gbnl --------------------------------
(* The tables of texts (format/gbnl.hpp, format/gbnl.cpp): GBNL files and    *)
(* STCM items, which end in their header, and GSTL files, which begin with   *)
(* it.  A table is [gstl, fix_k, type, messages, msgs_size].  `type` is a    *)
(* sequence of fields [kind, size]: "int", "float", "str" (a string          *)
(* elsewhere in the file), "fix" (a string in place) and "pad".  A message   *)
(* has one value per field: a number, [str, offset], a text, 0.  A text is a *)
(* sequence of characters.  fix_k is what GetId makes of flags and field_28. *)
EXTENDS Integers, FiniteSets, FiniteSetsExt, Sequences, SequencesExt

CONSTANT Char  \* the characters of texts, "n" a line feed, "r" a return

HeaderSize == 64     \* sizeof(Header)
DescriptorSize == 4  \* sizeof(TypeDescriptor)
Null == -1           \* the offset of a string that is not there, 0xffffffff

Align(g, n) == IF g.gstl THEN n ELSE ((n + 15) \div 16) * 16

(* Sums(s)[k] is what comes before the k-th of some lengths. *)
Sums(s) ==
    LET sum[k \in 1 .. Len(s) + 1] ==
          IF k = 1 THEN 0 ELSE sum[k - 1] + s[k - 1]
    IN  sum

(* The offset of field i in a message; of the end, with i = Len(type) + 1. *)
FieldOffset(type, i) == Sums([k \in DOMAIN type |-> type[k].size])[i]

msg_descr_size(g) == FieldOffset(g.type, Len(g.type) + 1)

real_item_count(g) ==
    Cardinality({i \in DOMAIN g.type : g.type[i].kind # "pad"})

-----------------------------------------------------------------------------
(* Strings.  Cell k is the k-th value of the table, row by row. *)
Width(g) == Len(g.type)

Cells(g) == 1 .. Width(g) * Len(g.messages)

Row(g, k) == (k - 1) \div Width(g) + 1
Column(g, k) == ((k - 1) % Width(g)) + 1
Value(g, k) == g.messages[Row(g, k)][Column(g, k)]

IsString(g, k) == g.type[Column(g, k)].kind = "str"

(* What a file of the game has: padding is behind a number or a string that *)
(* it aligns, or before all fields.                                          *)
IsType(type) ==
    /\ type \in Seq([kind : {"int", "float", "str", "fix", "pad"},
                     size : Nat \ {0}])
    /\ \A i \in DOMAIN type :
         CASE type[i].kind = "int" -> type[i].size \in {1, 2, 4, 8}
           [] type[i].kind \in {"float", "str"} -> type[i].size = 4
           [] type[i].kind = "fix" -> type[i].size > 4
           [] OTHER -> \/ i = 1
                       \/ type[i - 1].kind \in {"float", "str"}
                       \/ /\ type[i - 1].kind = "int"
                          /\ type[i - 1].size = 1 => type[i].size < 4

IsValue(field, v) ==
    CASE field.kind = "str" ->
           /\ v \in [str : Seq(Char), offset : Nat \cup {Null}]
           /\ v.offset = Null => v.str = <<>>
      [] field.kind = "fix" -> v \in Seq(Char) /\ Len(v) < field.size
      [] OTHER -> v \in Int

IsTable(g) ==
    /\ DOMAIN g = {"gstl", "fix_k", "type", "messages", "msgs_size"}
    /\ g.gstl \in BOOLEAN /\ g.fix_k \in Nat /\ g.msgs_size \in Nat
    /\ IsType(g.type)
    /\ g.messages \in Seq(ToSet(g.messages))
    /\ \A j \in DOMAIN g.messages :
         /\ DOMAIN g.messages[j] = DOMAIN g.type
         /\ \A i \in DOMAIN g.type : IsValue(g.type[i], g.messages[j][i])

Texts(g) ==
    {k \in Cells(g) : IsString(g, k) /\ Value(g, k).offset # Null}

(* RecalcSize: equal strings share the place of the first of them, and the   *)
(* places follow one another.                                                *)
Firsts(g) ==
    {k \in Texts(g) : \A l \in Texts(g) :
        Value(g, l).str = Value(g, k).str => k <= l}

Places(g) ==
    LET firsts == Firsts(g) IN
    Sums([k \in Cells(g) |->
            IF k \in firsts THEN Len(Value(g, k).str) + 1 ELSE 0])

Place(g, str) ==
    Places(g)[CHOOSE k \in Firsts(g) : Value(g, k).str = str]

Placed(g) ==
    [j \in DOMAIN g.messages |-> [i \in DOMAIN g.type |->
        LET value == g.messages[j][i] IN
        IF g.type[i].kind = "str" /\ value.offset # Null
        THEN [value EXCEPT !.offset = Place(g, value.str)] ELSE value]]

(* A mistake: every string is counted. *)
RecalcSizeMutant(g) ==
    [g EXCEPT
      !.messages = Placed(g),
      !.msgs_size =
        Sums([k \in Cells(g) |->
                IF k \in Texts(g) THEN Len(Value(g, k).str) + 1 ELSE 0])
          [Width(g) * Len(g.messages) + 1]]

RecalcSize(g) ==
    [g EXCEPT
      !.messages = Placed(g),
      !.msgs_size = Places(g)[Width(g) * Len(g.messages) + 1]]

-----------------------------------------------------------------------------
(* Layout. *)
GetSize(g) ==
    LET rows == Align(g, msg_descr_size(g) * Len(g.messages))
        types == Align(g, rows + DescriptorSize * real_item_count(g))
    IN  Align(g, types + g.msgs_size) + HeaderSize

(* The strings Dump_ writes: those whose offset is where it has got to. *)
Walk(g) ==
    LET at[k \in 1 .. Width(g) * Len(g.messages) + 1] ==
          IF k = 1 THEN 0
          ELSE IF IsString(g, k - 1) /\ Value(g, k - 1).offset = at[k - 1]
               THEN at[k - 1] + Len(Value(g, k - 1).str) + 1
               ELSE at[k - 1]
    IN  at

strncpy(text, n) == SubSeq(text, 1, IF Len(text) < n THEN Len(text) ELSE n)

(* What WriteDescr makes of a value. *)
Stored(field, value) ==
    CASE field.kind = "str" -> value.offset
      [] field.kind = "fix" -> strncpy(value, field.size - 1)
      [] OTHER -> value

(* A descriptor for every field; one of padding has none. *)
Descriptors(type) ==
    FlattenSeq([i \in DOMAIN type |->
        IF type[i].kind = "pad" THEN <<>>
        ELSE LET fix == type[i].kind = "fix" IN
             <<[offset |-> FieldOffset(type, i),
                kind |-> IF fix THEN "int" ELSE type[i].kind,
                size |-> IF fix THEN 1 ELSE type[i].size]>>])

(* A file: the fields of the header, and the parts where the sink puts them. *)
Dump(g) ==
    LET start == IF g.gstl THEN HeaderSize ELSE 0
        msgs_end == msg_descr_size(g) * Len(g.messages)
        msgs_end_round == Align(g, msgs_end)
        control_end_round ==
            Align(g, msgs_end_round + DescriptorSize * real_item_count(g))
        walk == Walk(g)
        strings == walk[Width(g) * Len(g.messages) + 1]
        types == Align(g, start + msgs_end)
    IN
    [gstl |-> g.gstl,
     fix_k |-> g.fix_k,
     descr_offset |-> start,
     count_msgs |-> Len(g.messages),
     msg_descr_size |-> msg_descr_size(g),
     count_types |-> real_item_count(g),
     offset_types |-> types,
     offset_msgs |->
        IF g.msgs_size = 0 THEN 0
        ELSE Align(g, types + DescriptorSize * real_item_count(g)),
     rows |-> [j \in DOMAIN g.messages |->
        [i \in DOMAIN g.type |->
          [at |-> start + msg_descr_size(g) * (j - 1) + FieldOffset(g.type, i),
           field |-> g.type[i],
           value |-> Stored(g.type[i], g.messages[j][i])]]],
     types_at |-> start + msgs_end_round,
     types |-> Descriptors(g.type),
     strings |-> {[at |-> start + control_end_round + walk[k],
                   str |-> Value(g, k).str] :
                    k \in {l \in Cells(g) : walk[l + 1] # walk[l]}},
     strings_size |-> strings,
     size |-> HeaderSize + Align(g, control_end_round + strings)]

-----------------------------------------------------------------------------
(* Parsing. *)
Padding(n) == IF n = 0 THEN <<>> ELSE <<[kind |-> "pad", size |-> n]>>

(* Where the k-th descriptor says the field behind it begins. *)
NextOffset(f, k) ==
    IF k = Len(f.types) THEN f.msg_descr_size ELSE f.types[k + 1].offset

(* A mistake: the gap behind an INT8 must be longer. *)
ReadItemMutant(f, k) ==
    LET t == f.types[k]
        gap == NextOffset(f, k) - t.offset - t.size
    IN  IF t.kind = "int" /\ t.size = 1 /\ gap > 4
        THEN <<[kind |-> "fix", size |-> gap + 1]>>
        ELSE <<[kind |-> t.kind, size |-> t.size]>> \o Padding(gap)

(* Parse_ and Pad: an INT8 before a gap of more than three bytes is a string *)
(* in place; every other gap is padding.                                     *)
ReadItem(f, k) ==
    LET t == f.types[k]
        gap == NextOffset(f, k) - t.offset - t.size
    IN  IF t.kind = "int" /\ t.size = 1 /\ gap > 3
        THEN <<[kind |-> "fix", size |-> gap + 1]>>
        ELSE <<[kind |-> t.kind, size |-> t.size]>> \o Padding(gap)

ReadType(f) ==
    Padding(NextOffset(f, 0)) \o
    FlattenSeq([k \in DOMAIN f.types |-> ReadItem(f, k)])

FileCells(f) == UNION {ToSet(f.rows[j]) : j \in DOMAIN f.rows}

(* What is read at an offset of the file as a field. *)
ReadValue(f, at, field) ==
    LET cell == CHOOSE c \in FileCells(f) : c.at = at /\ c.field = field
        string(offset) ==
            (CHOOSE s \in f.strings : s.at = f.offset_msgs + offset).str
    IN  IF field.kind # "str" THEN cell.value
        ELSE IF cell.value = Null THEN [str |-> <<>>, offset |-> Null]
        ELSE [str |-> string(cell.value), offset |-> 0]

Parse(f) ==
    LET type == ReadType(f)
        at(j, i) == f.descr_offset + f.msg_descr_size * (j - 1)
                      + FieldOffset(type, i)
    IN  RecalcSize(
          [gstl |-> f.gstl, fix_k |-> f.fix_k, type |-> type, msgs_size |-> 0,
           messages |-> [j \in 1 .. f.count_msgs |->
             [i \in DOMAIN type |-> ReadValue(f, at(j, i), type[i])]]])

(* Header::Validate, and what Parse_ validates itself: strings are in the    *)
(* file, and it would be as long when dumped again.                          *)
ValidHeader(f) ==
    /\ f.descr_offset + f.msg_descr_size * f.count_msgs < f.size
    /\ f.offset_types + DescriptorSize * f.count_types < f.size
    /\ f.offset_msgs < f.size

Validates(f) ==
    /\ ValidHeader(f)
    /\ \A j \in DOMAIN f.rows : \A i \in DOMAIN f.rows[j] :
         LET c == f.rows[j][i] IN
         c.field.kind = "str" /\ c.value # Null =>
            f.offset_msgs + c.value < f.size
    /\ \A g \in {Parse(f)} :
         msg_descr_size(g) = f.msg_descr_size /\ GetSize(g) = f.size

(* Every offset leads to what was written there. *)
OffsetsLead(f) ==
    LET type == ReadType(f) IN
    /\ f.offset_types = f.types_at
    /\ \A j \in 1 .. f.count_msgs : \A i \in DOMAIN type :
         \E c \in FileCells(f) :
            /\ c.at = f.descr_offset + f.msg_descr_size * (j - 1)
                        + FieldOffset(type, i)
            /\ c.field = type[i]
            /\ type[i].kind = "str" /\ c.value # Null =>
                 \E s \in f.strings : s.at = f.offset_msgs + c.value

-----------------------------------------------------------------------------
(* The ids of texts in a text file. *)

(* The number of strings of a message up to field i. *)
StringsUpTo(g, j, i) ==
    Cardinality({k \in 1..i :
        g.type[k].kind = "str" /\ g.messages[j][k].offset # Null})

HasId(g, j, i) ==
    \/ g.type[i].kind = "fix"
    \/ g.type[i].kind = "str" /\ g.messages[j][i].offset # Null

IsInt(g, i) == i <= Width(g) /\ g.type[i] = [kind |-> "int", size |-> 4]

(* GetId, of messages and fields that count from 0. *)
GetId(simple, g, j, i) ==
    LET this_k == IF g.type[i].kind = "fix" THEN g.fix_k
                  ELSE StringsUpTo(g, j, i)
    IN  CASE simple -> (i - 1) + (j - 1) * 1000
          [] /\ ~simple /\ ~g.gstl /\ IsInt(g, 1)
             /\ (i = 9 /\ Width(g) = 9) \/ (i = 106 /\ Width(g) = 107) ->
               g.messages[j][1]
          [] ~simple /\ g.gstl /\ Width(g) = 3 /\ IsInt(g, 2) ->
               g.messages[j][2] + (IF i = 1 THEN 100000 ELSE 0)
          [] OTHER -> this_k * 10000 + (j - 1)

Targets(g) ==
    {t \in (DOMAIN g.messages) \X (DOMAIN g.type) : HasId(g, t[1], t[2])}

DistinctIds(simple, g) ==
    \A s, t \in Targets(g) :
        GetId(simple, g, s[1], s[2]) = GetId(simple, g, t[1], t[2]) => s = t

(* A simple id is not looked up. *)
SimpleDst(id) == <<id \div 1000 + 1, (id % 1000) + 1>>

(* The message after which the search begins is searched first. *)
FindDst(simple, g, id, index) ==
    LET size == Len(g.messages)
        turn(j) == (j - index + size) % size
        found == {t \in Targets(g) : GetId(simple, g, t[1], t[2]) = id}
    IN  IF simple THEN SimpleDst(id)
        ELSE CHOOSE t \in found : \A u \in found :
               \/ turn(t[1]) < turn(u[1])
               \/ t[1] = u[1] /\ t[2] <= u[2]
=============================================================================
