---------------------------- MODULE LabelledFile ----------------------------
(* What a parsed script archive promises, before any item exists: a sequence *)
(* of units and named labels that point into it.  Taking the file apart      *)
(* (RawItem::Split, MoveNextToChild, Item::Replace) is no step at all here:  *)
(* it may change neither a unit nor what a label means.                      *)
EXTENDS Naturals, FiniteSets, Sequences

CONSTANTS Size,   \* units of the file that is parsed
          Names,  \* names of labels
          Unset   \* the pointer of a label that does not exist

VARIABLES content,  \* the units a dump of the file would write
          target    \* the offset in `content` every label points to

vars == <<content, target>>

FileUnits == [k \in 1..Size |-> k - 1]

Init == content = FileUnits /\ target = [n \in Names |-> Unset]

(* One label is created or moved. *)
Label ==
    \E n \in Names :
        /\ target'[n] \in 0..Len(content)
        /\ target' = [target EXCEPT ![n] = target'[n]]
        /\ UNCHANGED content

(* Labels are created, one per unit, at a unit and those that follow it. *)
LabelRow ==
    LET new == {n \in Names : target'[n] # target[n]} IN
    /\ UNCHANGED content
    /\ \A n \in new : target[n] = Unset
    /\ \E p \in 0..Len(content) :
         {target'[n] : n \in new} = p .. p + Cardinality(new) - 1

(* Units first..last are replaced: labels before and inside the piece stay  *)
(* where they are, those after it keep the unit they pointed to.             *)
Rewrite ==
    LET old == content
        new == content'
        moved == target'
        at == target
    IN
    \E first \in 1..Len(old) : \E last \in first..Len(old) :
        LET rest == Len(old) - last        \* units after the piece
            end == Len(new) - rest         \* where the new piece ends
        IN
        /\ end >= first - 1
        /\ SubSeq(new, 1, first - 1) = SubSeq(old, 1, first - 1)
        /\ SubSeq(new, end + 1, Len(new)) = SubSeq(old, last + 1, Len(old))
        /\ \A n \in Names :
             at[n] \in first .. last - 1 => at[n] <= end
        /\ moved = [n \in Names |->
             IF at[n] = Unset \/ at[n] < last THEN at[n]
             ELSE at[n] - last + end]

(* Units no label points to are dropped. *)
Collect ==
    LET old == content
        new == content'
        at == target
        moved == target'
    IN
    \E kept \in SUBSET (1..Len(old)) :
        LET Left(q) == Cardinality(kept \intersect 1..q) IN
        /\ \A n \in Names : at[n] # Unset => at[n] + 1 \in kept \union {Len(old) + 1}
        /\ Len(new) = Left(Len(old))
        /\ \A q \in kept : new[Left(q)] = old[q]
        /\ moved = [n \in Names |-> IF at[n] = Unset THEN Unset ELSE Left(at[n])]

Next ==
    \/ target' # target /\ (Label \/ LabelRow)
    \/ content' # content /\ (Rewrite \/ Collect)

Spec == Init /\ [][Next]_vars
=============================================================================
