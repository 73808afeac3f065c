------------------------------ MODULE ItemTree ------------------------------
(***************************************************************************)
(* A parsed script archive: Context, Item, ItemWithChildren, RawItem and   *)
(* Label (src/format).  A file starts as one RawItem; parsing splits it,   *)
(* position by position, into typed items, while labels created from the   *)
(* offsets the file contains keep pointing at the same bytes and the       *)
(* pointer map keeps finding the bytes that are not parsed yet.  Then      *)
(* strings are replaced, unreferenced raw items collected, positions fixed *)
(* up and the offsets of the labels written back.                          *)
(*                                                                         *)
(* The formats' parsers call these operations in an order the file         *)
(* dictates; here in every order, one call of Split, CreateAndInsert,      *)
(* CreateLabelFallback at a time.                                          *)
(*                                                                         *)
(* The unit of size is the four bytes STCM data is made of.  The typed     *)
(* items differ, here, only in what they own: a leaf (HeaderItem,          *)
(* ExportsItem, CStringItem, ...) owns its bytes, a node (DataItem,        *)
(* InstructionItem) its header, ExpansionsItem nothing but its children.   *)
(***************************************************************************)
EXTENDS Integers, FiniteSets, FiniteSetsExt, Sequences, SequencesExt, Functions

CONSTANTS
  Size,      \* units of the file
  MaxItems,  \* bound: how many items there are at once
  Names,     \* names of labels
  Unset,     \* the pointer of a label that does not exist
  Texts,     \* bound: how many units the text put in place of a string has
  Odd        \* which unusual inputs occur, see below

(* "empty": an item of no bytes in the middle of the file (an ExpansionsItem *)
(* or a CollectionLinkItem of no entries).  "padded": a string followed by   *)
(* four zero bytes.                                                          *)
ASSUME ItemTreeAssumption ==
  /\ Size \in Nat \ {0} /\ MaxItems \in Nat \ {0, 1} /\ Texts \subseteq Nat \ {0}
  /\ Odd \subseteq {"empty", "padded"}
  /\ Unset \notin [item : 1..MaxItems, offset : Nat] \union Nat
  /\ IsFiniteSet(Names)

VARIABLES
  t,      \* the tree, its labels and its pointer map
  phase   \* "parsing"; "edited" since the last Fixup; "fixed"

vars == <<t, phase>>

Root == 0                    \* the Context itself
Items == 1..MaxItems
Edited == Size               \* a unit no file has: the text of a new string

-----------------------------------------------------------------------------
(* Looking at a tree *)

Parent(s, i) == CHOOSE p \in {Root} \union Items : Contains(s.kids[p], i)
Linked(s, i) == \E p \in {Root} \union Items : Contains(s.kids[p], i)
IndexIn(seq, i) == CHOOSE k \in DOMAIN seq : seq[k] = i
Behind(s, i) == s.kids[Parent(s, i)][IndexIn(s.kids[Parent(s, i)], i) + 1]

(* What every item has, and behind it what its children have. *)
Preorder(s, has) ==
  LET all[i \in {Root} \union Items] ==
        LET upto[k \in 0..Len(s.kids[i])] ==
              IF k = 0 THEN has[i] ELSE upto[k - 1] \o all[s.kids[i][k]]
        IN upto[Len(s.kids[i])]
  IN all

(* What Dump writes for an item. *)
Dumped(s) ==
  Preorder(s, [i \in {Root} \union Items |->
                 IF i = Root THEN <<>> ELSE s.own[i]])

SizeOf(s, i) == Len(Dumped(s)[i])

Under(s, i) ==
  LET under[j \in Items] ==
        {j} \union UNION {under[c] : c \in Range(s.kids[j])}
  IN under[i]

LabelsOf(s, i) == {n \in Names : s.label[n] # Unset /\ s.label[n].item = i}

(* Context::GetPointer: the last item that starts at or before p. *)
GetPointer(s, p) ==
  LET at == Max({q \in DOMAIN s.pmap : q <= p}) IN
  [item |-> s.pmap[at], offset |-> p - at]

ToFilePos(s, l) == s.position[l.item] + l.offset

\* Op(v), with v evaluated once: a set is enumerated once.
Applied(Op(_), v) == CHOOSE made \in {Op(u) : u \in {v}} : TRUE

-----------------------------------------------------------------------------
(* Changing a tree *)

Free(s) == {i \in Items : s.kind[i] = "free"}
Fresh(s) == Min(Free(s))

Create(s, kind, own) ==
  [s EXCEPT !.kind[Fresh(s)] = kind, !.own[Fresh(s)] = own]

(* Mutant: the pointer map keeps what leaves the tree. *)
RemovedMutant(s, gone) == s

(* Item::Removed, ItemWithChildren::Removed, of items and what is under them *)
Removed(s, gone) ==
  [s EXCEPT !.pmap = Restrict(@, {p \in DOMAIN @ :
     ~ (@[p] \in gone /\ s.position[@[p]] = p)})]

(* The last references to the items go, Item::Dispose. *)
Disposed(s, gone) ==
  [s EXCEPT
     !.kind = [j \in Items |-> IF j \in gone THEN "free" ELSE @[j]],
     !.own = [j \in Items |-> IF j \in gone THEN <<>> ELSE @[j]],
     !.position = [j \in Items |-> IF j \in gone THEN 0 ELSE @[j]],
     !.kids = [j \in {Root} \union Items |->
                 IF j \in gone THEN <<>> ELSE @[j]]]

Dropped(s, gone) == Disposed(Removed(s, gone), gone)

(* Item::Replace_ *)
Replaced(s, i, new) ==
  LET p == Parent(s, i)
      moved == [s EXCEPT
        !.label = [n \in Names |->
           IF n \in LabelsOf(s, i) THEN [@[n] EXCEPT !.item = new] ELSE @[n]],
        !.position[new] = s.position[i],
        !.pmap = [q \in DOMAIN @ |->
           IF q = s.position[i] /\ @[q] = i THEN new ELSE @[q]],
        !.kids[p] = ReplaceAll(@, i, new)]
      Drop(gone) == Dropped(moved, gone)
  IN Applied(Drop, Under(s, i))

(* Where piece k of `seq`, pairs of an item and its end, starts. *)
StartOf(seq, k) == IF k = 1 THEN 0 ELSE seq[k - 1][2]

(* Mutant: a label at the end of a piece stays with it. *)
PieceOfMutant(seq, offset) == Min({k \in DOMAIN seq : offset <= seq[k][2]})

(* The piece a label at `offset` goes to: an empty piece gets the labels at  *)
(* its place.                                                                *)
PieceOf(seq, offset) ==
  Min({k \in DOMAIN seq : \/ offset < seq[k][2]
                          \/ offset = seq[k][2] /\ offset = StartOf(seq, k)})

(* Item::Slice: the pieces take the place of i, which is one of them. *)
SlicedInto(s, i, seq) ==
  LET p == Parent(s, i)
      gone == Removed(s, {i})
      At(k) == s.position[i] + StartOf(seq, k)
      Is(j) == {k \in DOMAIN seq : seq[k][1] = j}
      Starting(q) == {k \in DOMAIN seq : At(k) = q}
      Emplaced(map) ==
        [q \in DOMAIN map \union {At(k) : k \in DOMAIN seq} |->
           IF q \in DOMAIN map THEN map[q] ELSE seq[Min(Starting(q))][1]]
      Shifted(l) ==
        LET k == PieceOf(seq, l.offset) IN
        [item |-> seq[k][1], offset |-> l.offset - StartOf(seq, k)]
  IN [gone EXCEPT
        !.label = [n \in Names |->
           IF n \in LabelsOf(s, i) THEN Shifted(@[n]) ELSE @[n]],
        !.position = [j \in Items |->
           IF Is(j) = {} THEN @[j] ELSE At(Min(Is(j)))],
        !.kids[p] = ReplaceSubSeqAt(
           IndexIn(@, i), [k \in DOMAIN seq |-> seq[k][1]], <<i>>, @),
        !.pmap = IF DOMAIN s.pmap = {} THEN @ ELSE Emplaced(@)]

Sliced(s, i, seq) ==
  LET Into(pieces) ==
        LET From(u) == SlicedInto(u, i, pieces) IN Applied(From, s)
  IN Applied(Into, seq)

(* RawItem::Split2: the item `new` takes the units of r from `pos` on. *)
Split2(s, r, pos, new) ==
  LET src == s.own[r]
      end == pos + Len(s.own[new])
      Right == SubSeq(src, end + 1, Len(src))
      seq == IF pos = 0 THEN << <<new, end>>, <<r, Len(src)>> >>
             ELSE IF Right = <<>> THEN << <<r, pos>>, <<new, end>> >>
             ELSE << <<r, pos>>, <<new, end>>, <<Fresh(s), Len(src)>> >>
      Whole == Create(s, "raw", Right)
  IN IF pos = 0 /\ Right = <<>> THEN Replaced(s, r, new)
     ELSE [Sliced(IF pos # 0 /\ Right # <<>> THEN Whole ELSE s, r, seq)
             EXCEPT !.own[r] = IF pos = 0 THEN Right ELSE SubSeq(src, 1, pos)]

(* RawItem::SplitCreate, RawItem::Split: the new item is Fresh(s). *)
Split(s, r, pos, len, kind) ==
  LET Into(u) == Split2(u, r, pos, Fresh(s)) IN
  Applied(Into, Create(s, kind, SubSeq(s.own[r], pos + 1, pos + len)))

(* Mutant: the child stays in the list it comes from. *)
MovedMutant(s, node, child, from) ==
  [Removed(s, {child}) EXCEPT !.kids[node] = Append(@, child)]

Moved(s, node, child, from) ==
  [Removed(s, {child}) EXCEPT !.kids[from] = RemoveAt(@, IndexIn(@, child)),
                              !.kids[node] = Append(@, child)]

(* ItemWithChildren::MoveNextToChild *)
MoveNextToChild(s, node, size) ==
  LET Divided(u) == Split(u, Behind(u, node), 0, size, "raw")
      Into(u) ==
        LET From(v) == Moved(v, node, Fresh(u), Parent(u, node))
        IN Applied(From, Divided(u))
  IN Applied(Into, s)

(* Mutant: the header of a node is not counted. *)
FixedPositionsMutant(s) ==
  LET pos[i \in {Root} \union Items] ==
        IF i = Root \/ ~ Linked(s, i) THEN 0
        ELSE LET p == Parent(s, i)
                 k == IndexIn(s.kids[p], i)
                 before == s.kids[p][k - 1]
             IN IF k = 1 THEN pos[p] ELSE pos[before] + SizeOf(s, before)
  IN [i \in Items |-> pos[i]]

(* Context::Fixup, ItemWithChildren::Fixup_, Item::UpdatePosition *)
FixedPositions(s) ==
  LET pos[i \in {Root} \union Items] ==
        IF i = Root \/ ~ Linked(s, i) THEN 0
        ELSE LET p == Parent(s, i)
                 k == IndexIn(s.kids[p], i)
                 before == s.kids[p][k - 1]
             IN IF k > 1 THEN pos[before] + SizeOf(s, before)
                ELSE IF p = Root THEN 0 ELSE pos[p] + Len(s.own[p])
  IN [i \in Items |-> pos[i]]

-----------------------------------------------------------------------------
(* The file *)

Raws == {i \in Items : t.kind[i] = "raw"}
Room(k) == Cardinality(Free(t)) >= k

(* Where an item of `len` units may be cut out of r; the header of the file, *)
(* at 0, is not empty.                                                       *)
Cuts(r, len) ==
  {pos \in 0 .. Len(t.own[r]) - 1 : /\ pos + len <= Len(t.own[r])
                                    /\ len = 0 => t.position[r] + pos > 0}

(* File::Parse_: Context::SetupParseFrom, then the EofItem is split off. *)
Unparsed ==
  LET blank == [kids |-> [i \in {Root} \union Items |-> <<>>],
                kind |-> [i \in Items |-> "free"],
                own |-> [i \in Items |-> <<>>],
                position |-> [i \in Items |-> 0],
                pmap |-> <<>>,
                label |-> [n \in Names |-> Unset]]
      root == Fresh(blank)
      setup == [Create(blank, "raw", [k \in 1..Size |-> k - 1])
                  EXCEPT !.kids[Root] = <<root>>,
                         !.pmap = [q \in {0} |-> root]]
  IN Split(setup, root, Size, 0, "eof")

Init == t = Unparsed /\ phase = "parsing"

(* Context::CreateLabelFallback(name, pos): an offset read from the file. *)
CreateLabel(n) ==
  /\ phase = "parsing" /\ t.label[n] = Unset
  /\ \E p \in 0..Size : t' = [t EXCEPT !.label[n] = GetPointer(t, p)]
  /\ UNCHANGED phase

(* CreateAndInsert of an item without children. *)
CreateLeaf ==
  /\ phase = "parsing" /\ Room(2)
  /\ \E r \in Raws, len \in 0..Size :
       /\ len > 0 \/ "empty" \in Odd
       /\ \E pos \in Cuts(r, len) : t' = Split(t, r, pos, len, "leaf")
  /\ UNCHANGED phase

(* CollectionLinkHeaderItem::CreateAndInsert, of a collection link of no     *)
(* entries at the end of the file: it takes the place of the EofItem.        *)
ReplaceEof ==
  /\ phase = "parsing" /\ Room(1)
  /\ \E eof \in Items :
       /\ t.kind[eof] = "eof"
       /\ \E n \in LabelsOf(t, eof) : t.label[n].offset = 0
       /\ t' = Replaced(Create(t, "leaf", <<>>), eof, Fresh(t))
  /\ UNCHANGED phase

(* StringDataItem::MaybeCreateAndReplace, when the only child of `node` is a *)
(* string: what it is padded with is not kept beyond the unit the string     *)
(* ends in.  Nothing may point into the string.                              *)
StringReplaced(s, node) ==
  LET child == Head(s.kids[node])
      body == s.own[child]
  IN {Replaced(Create(s, "leaf", s.own[node] \o SubSeq(body, 1, Len(body) - pad)),
               node, Fresh(s)) :
        pad \in {q \in {0, 1} : /\ q = 0 \/ "padded" \in Odd
                                /\ Len(body) > 1
                                /\ LabelsOf(s, child) = {}}}

(* Mutant: a DataItem of no data gets an empty child, too. *)
CreateDataMutant ==
  /\ phase = "parsing" /\ Room(4)
  /\ \E r \in Raws, length \in 0 .. Size - 1 : \E pos \in Cuts(r, 1 + length) :
       LET node == Fresh(t)
           full == MoveNextToChild(Split(t, r, pos, 1, "node"), node, length)
       IN pos + 1 + length < Len(t.own[r]) /\ t' = full
  /\ UNCHANGED phase

(* DataItem::CreateAndInsert and DataFactory::Check; without a string, also *)
(* InstructionItem::CreateAndInsert.                                        *)
CreateData ==
  /\ phase = "parsing" /\ Room(4)
  /\ \E r \in Raws, length \in 0 .. Size - 1 : \E pos \in Cuts(r, 1 + length) :
       LET node == Fresh(t)
           made == Split(t, r, pos, 1, "node")
           full == MoveNextToChild(made, node, length)
       IN IF length = 0 THEN t' = made
          ELSE t' \in {full} \union StringReplaced(full, node)
  /\ UNCHANGED phase

(* The first unit of the raw item at the end of `node`, which gets a label.  *)
WithExpansion(s, node, n) ==
  LET it == Last(s.kids[node]) IN
  Split([s EXCEPT !.label[n] = [item |-> it, offset |-> 0]], it, 0, 1, "leaf")

WithExpansions(s, node, order) ==
  LET made[k \in 0..Len(order)] ==
        IF k = 0 THEN s ELSE WithExpansion(made[k - 1], node, order[k])
  IN made[Len(order)]

(* ExpansionsItem::CreateAndInsert: a node of no units, and one labelled     *)
(* ExpansionItem cut out of its raw child after another.                     *)
CreateExpansions ==
  /\ phase = "parsing"
  /\ \E N \in SUBSET {n \in Names : t.label[n] = Unset}, r \in Raws :
       /\ (N # {} \/ "empty" \in Odd) /\ Room(3 + Cardinality(N))
       /\ \E pos \in Cuts(r, Cardinality(N)) :
            LET node == Fresh(t)
                moved == MoveNextToChild(Split(t, r, pos, 0, "node"), node,
                                         Cardinality(N))
            IN t' = WithExpansions(moved, node, SetToSeq(N))
  /\ UNCHANGED phase

(* What a string that is assigned in place (CStringItem::string, a message   *)
(* of a GbnlItem) relies on: the labels of i point into the new text, and no *)
(* label of an enclosing item points behind i, since it would not move.      *)
LabelsFit(i, n) ==
  /\ \A l \in LabelsOf(t, i) : t.label[l].offset < n
  /\ \A j \in Items \ {i} : i \in Under(t, j) =>
       \A l \in LabelsOf(t, j) : ToFilePos(t, t.label[l]) <= t.position[i]

(* ReadTxt_: another text of a string. *)
ReadTxt ==
  /\ \E i \in Items, n \in Texts :
       /\ t.kind[i] = "leaf" /\ SizeOf(t, i) > 0 /\ LabelsFit(i, n)
       /\ t.own[i] # [k \in 1..n |-> Edited]
       /\ t' = [t EXCEPT !.own[i] = [k \in 1..n |-> Edited]]
  /\ phase' = "edited"

(* Stcm::File::Gc *)
Gc ==
  LET top == t.kids[Root]
      Garbage == {i \in Range(top) : i \in Raws /\ LabelsOf(t, i) = {}}
      kept[k \in 0..Len(top)] ==
        IF k = 0 THEN <<>>
        ELSE IF top[k] \in Garbage THEN kept[k - 1]
        ELSE Append(kept[k - 1], top[k])
  IN /\ t' = [Dropped(t, Garbage) EXCEPT !.kids[Root] = kept[Len(top)]]
     /\ phase' = "edited"

(* Context::Fixup, before every dump of a file that was edited. *)
Fixup ==
  /\ phase # "fixed"
  /\ t' = [t EXCEPT !.pmap = <<>>, !.position = FixedPositions(t)]
  /\ phase' = "fixed"

Next ==
  \/ \E n \in Names : CreateLabel(n)
  \/ CreateLeaf \/ CreateData \/ CreateExpansions \/ ReplaceEof
  \/ ReadTxt \/ Gc \/ Fixup

Spec == Init /\ [][Next]_vars

-----------------------------------------------------------------------------
(* Properties *)

(* Every live item is in exactly one list of children, once, and none that   *)
(* is freed is in a list, in the pointer map, or pointed to by a label:      *)
(* what the reference counts and the assertions of Item::Dispose are for.    *)
ItemsOwned ==
  /\ \A i \in Items :
       Cardinality({at \in ({Root} \union Items) \X (1..MaxItems) :
                      /\ at[2] \in DOMAIN t.kids[at[1]]
                      /\ t.kids[at[1]][at[2]] = i})
         = IF t.kind[i] = "free" THEN 0 ELSE 1
  /\ \A i \in Items : t.kind[i] = "free" =>
       i \notin Range(t.pmap) /\ LabelsOf(t, i) = {}

(* While the file is parsed, an offset into bytes that no item was made of   *)
(* finds the RawItem that has them, at the right place: MaybeCreate creates  *)
(* the item there (raw_item.hpp:84-95), and where GetPointer finds a typed   *)
(* item AsChecked0 asserts that the offset is 0.                             *)
UnparsedFound ==
  phase = "parsing" =>
    \A r \in Raws \intersect Range(t.kids[Root]) :
      \A o \in 0 .. Len(t.own[r]) - 1 :
        GetPointer(t, t.position[r] + o) = [item |-> r, offset |-> o]

(* Every offset a parsed file may contain finds an item that has a byte      *)
(* there, or the end of the file, and the keys of the pointer map are the    *)
(* positions of its items (the assertion in Context::GetPointer).            *)
PointersInside ==
  phase = "parsing" =>
    /\ \A q \in DOMAIN t.pmap : t.position[t.pmap[q]] = q
    /\ \A p \in 0..Size :
         LET l == GetPointer(t, p) IN
         Linked(t, l.item) /\ (p < Size => l.offset < SizeOf(t, l.item))

(* The order in which a dump writes the items. *)
DumpOrder == Tail(Preorder(t, [i \in {Root} \union Items |-> <<i>>])[Root])

(* Where a dump that writes the items in `order` puts what a label points to. *)
TargetsIn(order) ==
  LET end[k \in 0..Len(order)] ==
        IF k = 0 THEN 0 ELSE end[k - 1] + Len(t.own[order[k]])
      Layout(i) == end[IndexIn(order, i) - 1]
  IN [n \in Names |-> IF t.label[n] = Unset THEN Unset
                      ELSE Layout(t.label[n].item) + t.label[n].offset]

(* A set is enumerated once: DumpOrder is not evaluated per label. *)
Targets == CHOOSE at \in {TargetsIn(order) : order \in {DumpOrder}} : TRUE

(* Unless the file was edited since the last Fixup, the offset written for a *)
(* label is the offset at which the dump puts the byte the label points to.  *)
DumpedPointers ==
  phase # "edited" =>
    \A n \in Names :
      t.label[n] # Unset => ToFilePos(t, t.label[n]) = Targets[n]

(* Parsing moves no byte and no label, an edit moves the labels behind it,   *)
(* the collection takes no byte a label points to.                           *)
File == INSTANCE LabelledFile WITH content <- Dumped(t)[Root],
                                   target <- Targets
ImplementsLabelledFile == File!Spec
=============================================================================
