----------------------- MODULE ItemTreeLayout_proofs -----------------------
(***************************************************************************)
(* Where the items of a script archive are (ItemTree): while the file is   *)
(* parsed, and again after Fixup, an item starts where the one before it   *)
(* in its list ends, or where what its parent has itself does, and a dump  *)
(* writes it there.  From this, for every size of file, number of items    *)
(* and set of names: PointersInside, DumpedPointers, and that ItemTree     *)
(* implements LabelledFile.                                                *)
(*                                                                         *)
(* The layout of the tree while it is cut up is proved in ItemTree_proofs; *)
(* here the calls of a parser keep it, the function that Fixup computes    *)
(* restores it, and the order of a dump follows it.  An edit leaves the    *)
(* items where they were before it, in the wrong place: Settled relates a  *)
(* tree to the one that has them where a dump will put them.               *)
(***************************************************************************)
EXTENDS ItemTree_proofs

-----------------------------------------------------------------------------
(* Items in place of others *)

(* u is s when `new`, which has `own`, was created and took the place of i,  *)
(* the k-th child of p.                                                      *)
Substituting(s, u, p, k, i, new, own, gone) ==
  /\ Whole(s, {}) /\ p \in Lists /\ k \in 1 .. Len(s.kids[p])
  /\ i \in Items /\ s.kids[p][k] = i /\ s.kind[i] # "free"
  /\ new \in Items /\ s.kind[new] = "free" /\ ~ Listed(s.kids, new)
  /\ gone = {i} \union Range(s.kids[i]) /\ new \notin gone
  /\ own \in Seq(Nat) /\ s.position[i] \in Nat
  /\ \A c \in Range(s.kids[i]) :
       s.kids[c] = <<>> /\ \A n \in Names : n \notin LabelsOf(s, c)
  /\ \A n \in Names : u.label[n] =
       IF n \in LabelsOf(s, i) THEN [s.label[n] EXCEPT !.item = new]
       ELSE s.label[n]
  /\ \A j \in Lists : u.kids[j] =
       IF j \in gone THEN <<>>
       ELSE IF j = p THEN Spliced(s.kids[p], k, <<new>>) ELSE s.kids[j]
  /\ \A j \in Items :
       /\ u.kind[j] = IF j \in gone THEN "free"
                      ELSE IF j = new THEN "leaf" ELSE s.kind[j]
       /\ j \notin gone /\ j # new =>
            u.own[j] = s.own[j] /\ u.position[j] = s.position[j]
       /\ j = new => u.own[j] = own /\ u.position[j] = s.position[i]
  /\ DOMAIN u.pmap = DOMAIN s.pmap
  /\ \A q \in DOMAIN u.pmap :
       u.pmap[q] = IF s.pmap[q] = i THEN new ELSE s.pmap[q]

(* Context::Create and Item::Replace.                                        *)
LEMMA SubstitutedFields ==
  ASSUME NEW s, NEW i, Replaceable(s, i), NEW own \in Seq(Nat),
         NEW u, u = Replaced(Create(s, "leaf", own), i, Fresh(s))
  PROVE  \E p, k, gone : Substituting(s, u, p, k, i, Fresh(s), own, gone)
<1> DEFINE new == Fresh(s)
           s1 == Create(s, "leaf", own)
           gone == {i} \union Range(s.kids[i])
<1>1. /\ Good(s) /\ Whole(s, {}) /\ Shaped(s) /\ Owned(s, {}) /\ Regular(s)
      /\ Free(s) # {} /\ i \in Items
      /\ s.kind[i] # "free" /\ s.kind[i] # "raw"
      /\ s.kids \in [Lists -> Seq(Items)]
      /\ i \in Lists
  BY DEF Replaceable, Good, Whole, Shaped, Lists
<1>2. \A c \in Range(s.kids[i]) :
        /\ c \in Items /\ Listed(s.kids, c)
        /\ s.kids[c] = <<>> /\ \A n \in Names : n \notin LabelsOf(s, c)
        /\ \A q \in DOMAIN s.pmap : s.pmap[q] # c
  <2>1. \A c \in Range(s.kids[i]) : c \in Items /\ Listed(s.kids, c)
    BY <1>1, KidsOf
  <2>2. QED
    BY <2>1 DEF Replaceable, LabelsOf
<1>3. Creating(s, s1, new, {}, "leaf", own)
  BY <1>1, Created
<1> HIDE DEF s1, new
<1>4. /\ new \in Items /\ s.kind[new] = "free" /\ ~ Listed(s.kids, new)
      /\ s1.kids = s.kids /\ s1.position = s.position
      /\ s1.pmap = s.pmap
      /\ Whole(s1, {new})
  <2>1. {} \union {new} = {new}
    OBVIOUS
  <2>2. QED
    BY <1>3, <2>1 DEF Creating
<1>5. /\ Listed(s.kids, i) /\ s.position[i] \in Nat /\ new # i
      /\ new \notin gone
  BY <1>1, <1>2, <1>4 DEF Owned, Regular
<1>6. \E p \in Lists : \E k \in 1 .. Len(s.kids[p]) : i = s.kids[p][k]
  BY <1>5 DEF Listed
<1>7. PICK p \in Lists : \E k \in 1 .. Len(s.kids[p]) : i = s.kids[p][k]
  BY <1>6
<1>8. PICK k \in 1 .. Len(s.kids[p]) : i = s.kids[p][k]
  BY <1>7
<1>9. Replacing(s1, u, p, k, i, new, gone)
  <2>1. Shaped(s1) /\ Once(s1.kids)
    BY <1>4 DEF Whole, Owned
  <2>2. k \in 1 .. Len(s1.kids[p]) /\ i = s1.kids[p][k]
    BY <1>4, <1>8
  <2>3. gone = {i} \union Range(s1.kids[i])
        /\ \A c \in Range(s1.kids[i]) : s1.kids[c] = <<>>
    BY <1>2, <1>4
  <2>4. u = Replaced(s1, i, new)
    BY DEF s1, new
  <2> HIDE DEF gone
  <2>5. QED
    <3>1. Replacing(s1, Replaced(s1, i, new), p, k, i, new, gone)
      BY <1>4, <1>5, <2>1, <2>2, <2>3, ReplacedFields
    <3>2. QED
      BY <2>4, <3>1
<1>11. \A j \in Items :
         /\ u.kind[j] = IF j \in gone THEN "free"
                        ELSE IF j = new THEN "leaf" ELSE s.kind[j]
         /\ j \notin gone /\ j # new =>
              u.own[j] = s.own[j] /\ u.position[j] = s.position[j]
         /\ j = new => u.own[j] = own /\ u.position[j] = s.position[i]
  <2>1. \A j \in Items :
       /\ u.kind[j] = IF j \in gone THEN "free" ELSE s1.kind[j]
       /\ u.own[j] = IF j \in gone THEN <<>> ELSE s1.own[j]
       /\ u.position[j] = IF j \in gone THEN 0
                          ELSE IF j = new THEN s1.position[i] ELSE s1.position[j]
    BY <1>9 DEF Replacing
  <2>2. \A j \in Items :
          /\ s1.kind[j] = IF j = new THEN "leaf" ELSE s.kind[j]
          /\ s1.own[j] = IF j = new THEN own ELSE s.own[j]
    BY <1>1, <1>3 DEF Creating, Shaped
  <2> HIDE DEF gone
  <2>3. QED
    BY <1>4, <1>5, <2>1, <2>2
<1>12. /\ DOMAIN u.pmap = DOMAIN s.pmap
       /\ \A q \in DOMAIN u.pmap :
            u.pmap[q] = IF s.pmap[q] = i THEN new ELSE s.pmap[q]
  <2>1. /\ DOMAIN u.pmap = {q \in DOMAIN s.pmap : s.pmap[q] \notin gone \ {i}}
        /\ \A q \in DOMAIN u.pmap :
             u.pmap[q] = IF s.pmap[q] = i THEN new ELSE s.pmap[q]
    BY <1>4, <1>9 DEF Replacing
  <2>2. \A q \in DOMAIN s.pmap : s.pmap[q] \notin gone \ {i}
    BY <1>2
  <2>3. QED
    BY <2>1, <2>2
<1>13. \A j \in Lists : u.kids[j] =
         IF j \in gone THEN <<>>
         ELSE IF j = p THEN Spliced(s.kids[p], k, <<new>>) ELSE s.kids[j]
  BY <1>4, <1>9 DEF Replacing
<1>14. gone = {i} \union Range(s.kids[i])
  OBVIOUS
<1> HIDE DEF gone
<1>17. \A n \in Names : u.label[n] =
         IF n \in LabelsOf(s, i) THEN [s.label[n] EXCEPT !.item = new]
         ELSE s.label[n]
  <2>1. s1.label = s.label /\ LabelsOf(s1, i) = LabelsOf(s, i)
    BY <1>3 DEF Creating, LabelsOf
  <2>2. u.label = [n \in Names |->
          IF n \in LabelsOf(s1, i) THEN [s1.label[n] EXCEPT !.item = new]
          ELSE s1.label[n]]
    BY <1>9 DEF Replacing
  <2>3. QED
    BY <2>1, <2>2, Zenon
<1>15. Substituting(s, u, p, k, i, new, own, gone)
  BY <1>1, <1>2, <1>4, <1>5, <1>8, <1>11, <1>12, <1>13, <1>14, <1>17, Zenon
  DEF Substituting
<1>16. QED
  BY <1>15 DEF new

(* An element in the place of another leaves the others where they are.      *)
LEMMA SplicedOne ==
  ASSUME NEW S, NEW list \in Seq(S), NEW k, k \in 1 .. Len(list), NEW new \in S
  PROVE  /\ Len(Spliced(list, k, <<new>>)) = Len(list)
         /\ \A j \in 1 .. Len(list) :
              Spliced(list, k, <<new>>)[j] = IF j = k THEN new ELSE list[j]
<1> DEFINE one == <<new>>
           rest == Spliced(list, k, one)
           n == Len(list)
<1>1. one \in Seq(S) /\ Len(one) = 1 /\ one[1] = new
  OBVIOUS
<1>2. n \in Nat /\ k \in 1 .. n
  OBVIOUS
<1>3. SpliceOf(rest, list, k, one)
  BY <1>1, SplicedIs
<1> HIDE DEF one, rest, n
<1>4. /\ Len(rest) = n - 1 + 1
      /\ \A j \in 1 .. Len(rest) :
           rest[j] = IF j < k THEN list[j]
                     ELSE IF j < k + 1 THEN one[(j - k) + 1]
                     ELSE list[(j - 1) + 1]
  BY <1>1, <1>3 DEF SpliceOf, n
<1>5. Len(rest) = n
  BY <1>2, <1>4
<1>6. ASSUME NEW j \in 1 .. n PROVE rest[j] = IF j = k THEN new ELSE list[j]
  <2>1. rest[j] = IF j < k THEN list[j]
                  ELSE IF j < k + 1 THEN one[(j - k) + 1]
                  ELSE list[(j - 1) + 1]
    BY <1>4, <1>5
  <2>2. CASE j < k
    BY <1>2, <2>1, <2>2
  <2>3. CASE j = k
    <3>1. ~ (k < k) /\ k < k + 1 /\ (k - k) + 1 = 1
      BY <1>2
    <3>2. QED
      BY <1>1, <2>1, <2>3, <3>1
  <2>4. CASE k < j
    <3>1. ~ (j < k) /\ ~ (j < k + 1) /\ (j - 1) + 1 = j /\ j # k
      BY <1>2, <2>4
    <3>2. QED
      BY <2>1, <3>1
  <2>5. QED
    BY <1>2, <2>2, <2>3, <2>4
<1>7. QED
  BY <1>5, <1>6 DEF rest, one, n

(* The lists are what they were, but for `new` in the place of i.            *)
KidsKept(s, u, p, k, new, gone) ==
  \A q \in Lists : \A j \in 1 .. Len(u.kids[q]) :
    /\ q \notin gone /\ q # new /\ j \in 1 .. Len(s.kids[q])
    /\ \/ q = p /\ j = k /\ u.kids[q][j] = new
       \/ /\ ~ (q = p /\ j = k) /\ u.kids[q][j] = s.kids[q][j]
          /\ s.kids[q][j] \in Items /\ s.kids[q][j] \notin gone
          /\ s.kids[q][j] # new

(* What takes the place of an item moves no other.                           *)
LEMMA SubstitutedKids ==
  ASSUME NEW s, NEW u, NEW p, NEW k, NEW i, NEW new, NEW own, NEW gone,
         Substituting(s, u, p, k, i, new, own, gone)
  PROVE  /\ KidsKept(s, u, p, k, new, gone)
         /\ p \notin gone /\ p # new /\ s.kids[new] = <<>> /\ new # Root
         /\ i # Root /\ Len(u.kids[p]) = Len(s.kids[p])
         /\ \A q \in Lists : q \notin gone /\ q # p => u.kids[q] = s.kids[q]
<1>1. /\ Whole(s, {}) /\ p \in Lists /\ k \in 1 .. Len(s.kids[p])
      /\ i \in Items /\ s.kids[p][k] = i
      /\ new \in Items /\ s.kind[new] = "free" /\ ~ Listed(s.kids, new)
      /\ gone = {i} \union Range(s.kids[i]) /\ new \notin gone
      /\ \A c \in Range(s.kids[i]) : s.kids[c] = <<>>
  BY DEF Substituting
<1>2. \A j \in Lists : u.kids[j] =
        IF j \in gone THEN <<>>
        ELSE IF j = p THEN Spliced(s.kids[p], k, <<new>>) ELSE s.kids[j]
  BY DEF Substituting
<1>3. s.kids \in [Lists -> Seq(Items)] /\ Once(s.kids)
  BY <1>1 DEF Whole, Owned, Shaped
<1>4. i \in Lists /\ new \in Lists /\ i # Root /\ new # Root
  BY <1>1 DEF Lists, Items, Root
<1>5. \A c : c \in Range(s.kids[i]) <=>
               \E m \in 1 .. Len(s.kids[i]) : s.kids[i][m] = c
  <2> SUFFICES ASSUME NEW c
               PROVE  c \in Range(s.kids[i]) <=>
                        \E m \in 1 .. Len(s.kids[i]) : s.kids[i][m] = c
    OBVIOUS
  <2>1. s.kids \in [Lists -> Seq(Items)]
    BY <1>3
  <2>2. \A q \in Lists : \A x :
          /\ x \in Range(s.kids[q]) <=>
               \E m \in 1 .. Len(s.kids[q]) : s.kids[q][m] = x
          /\ x \in Range(s.kids[q]) => x \in Items /\ Listed(s.kids, x)
    BY <2>1, KidsOf, Zenon
  <2>3. QED
    BY <1>4, <2>2, Zenon
<1>6. s.kids[p] # <<>>
  BY <1>1
<1>7. p # i
  <2>1. ASSUME p = i PROVE FALSE
    <3>1. i \in Range(s.kids[i])
      BY <1>1, <1>5, <2>1
    <3>2. QED
      BY <1>1, <1>6, <2>1, <3>1
  <2>2. QED
    BY <2>1
<1>8. p \notin gone
  BY <1>1, <1>6, <1>7
<1>9. s.kids[new] = <<>>
  BY <1>1 DEF Whole, Owned, Childless
<1>10. p # new
  BY <1>6, <1>9
<1>11. /\ Len(u.kids[p]) = Len(s.kids[p])
       /\ \A j \in 1 .. Len(s.kids[p]) :
            u.kids[p][j] = IF j = k THEN new ELSE s.kids[p][j]
  <2>1. u.kids[p] = Spliced(s.kids[p], k, <<new>>) /\ s.kids[p] \in Seq(Items)
    BY <1>1, <1>2, <1>3, <1>8
  <2>2. QED
    BY <1>1, <2>1, SplicedOne
<1>12. \A q \in Lists : q \notin gone /\ q # p => u.kids[q] = s.kids[q]
  BY <1>2
<1>13. ASSUME NEW q \in Lists, NEW j \in 1 .. Len(s.kids[q]),
              ~ (q = p /\ j = k), q \notin gone
       PROVE  /\ s.kids[q][j] \in Items /\ s.kids[q][j] \notin gone
              /\ s.kids[q][j] # new
  <2>1. s.kids[q][j] \in Items
    BY <1>3
  <2>2. s.kids[q][j] # i
    <3>1. s.kids[q][j] = s.kids[p][k] => q = p /\ j = k
      <4>1. p \in Lists /\ k \in 1 .. Len(s.kids[p]) /\ Once(s.kids)
        BY <1>1, <1>3
      <4>2. QED
        BY <4>1, OnceAt
    <3>2. QED
      BY <1>1, <1>13, <3>1
  <2>3. s.kids[q][j] # new
    BY <1>1 DEF Listed
  <2>4. ASSUME s.kids[q][j] \in Range(s.kids[i]) PROVE FALSE
    <3>1. PICK m \in 1 .. Len(s.kids[i]) : s.kids[i][m] = s.kids[q][j]
      BY <1>5, <2>4
    <3>2. i = q
      BY <1>3, <1>4, <3>1, OnceAt
    <3>3. QED
      BY <1>1, <1>13, <3>2
  <2>5. QED
    BY <1>1, <2>1, <2>2, <2>3, <2>4
<1>14. KidsKept(s, u, p, k, new, gone)
  <2> SUFFICES ASSUME NEW q \in Lists, NEW j \in 1 .. Len(u.kids[q])
               PROVE  /\ q \notin gone /\ q # new /\ j \in 1 .. Len(s.kids[q])
                      /\ \/ q = p /\ j = k /\ u.kids[q][j] = new
                         \/ /\ ~ (q = p /\ j = k) /\ u.kids[q][j] = s.kids[q][j]
                            /\ s.kids[q][j] \in Items /\ s.kids[q][j] \notin gone
                            /\ s.kids[q][j] # new
    BY DEF KidsKept
  <2>0. ~ (j \in 1 .. Len(<<>>))
    OBVIOUS
  <2>1. q \notin gone
    BY <1>2, <2>0
  <2>2. CASE q = p
    <3>1. j \in 1 .. Len(s.kids[q])
      BY <1>11, <2>2
    <3>2. u.kids[q][j] = IF j = k THEN new ELSE s.kids[q][j]
      BY <1>11, <2>2, <3>1
    <3>3. QED
      BY <1>10, <1>13, <2>1, <2>2, <3>1, <3>2
  <2>3. CASE q # p
    <3>1. u.kids[q] = s.kids[q]
      BY <1>12, <2>1, <2>3
    <3>2. q # new
      BY <1>9, <2>0, <3>1
    <3>3. QED
      BY <1>13, <2>1, <2>3, <3>1, <3>2
  <2>4. QED
    BY <2>2, <2>3
<1>15. QED
  BY <1>4, <1>8, <1>9, <1>10, <1>11, <1>12, <1>14

(* Nothing is laid anywhere.                                                 *)
LEMMA RowOfNone ==
  ASSUME NEW P, NEW E, NEW from, NEW to
  PROVE  Row(<<>>, P, E, from, to) <=> to = from
<1> DEFINE none == <<>>
<1>1. Len(none) = 0 /\ 0 + 1 = 1
  OBVIOUS
<1> HIDE DEF none
<1>2. Mark(none, E, from, 1) = from
  BY DEF Mark
<1>3. \A k \in 1 .. 0 : FALSE
  OBVIOUS
<1>4. Row(none, P, E, from, to) <=> to = from
  BY <1>1, <1>2, <1>3 DEF Row
<1>5. QED
  BY <1>4 DEF none

(* `new`, which has `own`, ends where i does, which has as many bytes. *)
Inheriting(s, end, g, i, new, own) ==
  /\ LaidOut(s, end) /\ end[i] = s.position[i] + Len(own)
  /\ g = [end EXCEPT ![new] = end[i]]

(* What takes the place of an item ends where the item did, if it has as     *)
(* many bytes.                                                               *)
LEMMA SubstitutedLaid ==
  ASSUME NEW s, NEW u, NEW p, NEW k, NEW i, NEW new, NEW own, NEW gone,
         Substituting(s, u, p, k, i, new, own, gone),
         NEW end, NEW g, Inheriting(s, end, g, i, new, own)
  PROVE  LaidOut(u, g)
<1>1. /\ Whole(s, {}) /\ p \in Lists /\ k \in 1 .. Len(s.kids[p])
      /\ i \in Items /\ s.kids[p][k] = i
      /\ new \in Items /\ s.kind[new] = "free" /\ new \notin gone
      /\ own \in Seq(Nat) /\ s.position[i] \in Nat
  BY DEF Substituting
<1>2. \A j \in Lists : u.kids[j] =
        IF j \in gone THEN <<>>
        ELSE IF j = p THEN Spliced(s.kids[p], k, <<new>>) ELSE s.kids[j]
  BY DEF Substituting
<1>3. \A j \in Items :
        /\ u.kind[j] = IF j \in gone THEN "free"
                       ELSE IF j = new THEN "leaf" ELSE s.kind[j]
        /\ j \notin gone /\ j # new =>
             u.own[j] = s.own[j] /\ u.position[j] = s.position[j]
        /\ j = new => u.own[j] = own /\ u.position[j] = s.position[i]
  BY DEF Substituting
<1>4. /\ KidsKept(s, u, p, k, new, gone)
      /\ p \notin gone /\ p # new /\ s.kids[new] = <<>> /\ new # Root
      /\ i # Root /\ Len(u.kids[p]) = Len(s.kids[p])
      /\ \A q \in Lists : q \notin gone /\ q # p => u.kids[q] = s.kids[q]
  BY SubstitutedKids
<1>5. s.kids \in [Lists -> Seq(Items)] /\ i \in Lists /\ new \in Lists
  BY <1>1 DEF Whole, Shaped, Lists
<1>6. /\ end \in [Lists -> Nat] /\ end[Root] = Size
      /\ \A q \in Live(s) : Row(s.kids[q], s.position, end, Inner(s, q), end[q])
      /\ end[i] = s.position[i] + Len(own)
  BY DEF LaidOut, Inheriting
<1>7. g \in [Lists -> Nat] /\ g[new] = end[i]
      /\ \A q \in Lists : q # new => g[q] = end[q]
  BY <1>5, <1>6 DEF Inheriting
<1>8. ASSUME NEW q \in Live(u), q # new
      PROVE  q \in Live(s) /\ q \in Lists /\ q \notin gone /\ Inner(u, q) = Inner(s, q)
  <2>0. gone \subseteq Items
    <3>1. \A x \in Lists : \A y :
            /\ y \in Range(s.kids[x]) <=>
                 \E m \in 1 .. Len(s.kids[x]) : s.kids[x][m] = y
            /\ y \in Range(s.kids[x]) => y \in Items /\ Listed(s.kids, y)
      BY <1>5, KidsOf, Zenon
    <3>2. gone = {i} \union Range(s.kids[i])
      BY DEF Substituting
    <3>3. \A y : y \in Range(s.kids[i]) => y \in Items
      BY <1>5, <3>1, Zenon
    <3>4. QED
      BY <1>1, <3>2, <3>3
  <2>1. CASE q = Root
    <3>1. Root \notin gone
      BY <2>0 DEF Items, Root
    <3>2. QED
      BY <2>1, <3>1 DEF Live, Inner, Lists
  <2>2. CASE q # Root
    <3>1. q \in Items /\ u.kind[q] # "free"
      BY <2>2 DEF Live
    <3>2. q \notin gone
      BY <1>3, <3>1
    <3>3. /\ u.kind[q] = s.kind[q] /\ u.own[q] = s.own[q]
          /\ u.position[q] = s.position[q]
      BY <1>3, <1>8, <3>1, <3>2
    <3>4. QED
      BY <2>2, <3>1, <3>2, <3>3 DEF Live, Inner, Lists
  <2>3. QED
    BY <2>1, <2>2
<1>9. ASSUME NEW q \in Live(s), NEW j \in 1 .. Len(s.kids[q]),
             q \in Lists, q \notin gone, ~ (q = p /\ j = k)
      PROVE  /\ u.position[s.kids[q][j]] = s.position[s.kids[q][j]]
             /\ g[s.kids[q][j]] = end[s.kids[q][j]]
  <2>1. Len(u.kids[q]) = Len(s.kids[q])
    BY <1>4, <1>9
  <2>2. /\ s.kids[q][j] \in Items /\ s.kids[q][j] \notin gone
        /\ s.kids[q][j] # new
    BY <1>4, <1>9, <2>1 DEF KidsKept
  <2>3. QED
    BY <1>3, <1>7, <2>2 DEF Lists
<1>10. ASSUME NEW q \in Live(u)
       PROVE  Row(u.kids[q], u.position, g, Inner(u, q), g[q])
  <2>1. CASE q = new
    <3>1. u.kids[q] = <<>>
      BY <1>1, <1>4, <1>5, <2>1
    <3>2. Inner(u, q) = s.position[i] + Len(own)
      BY <1>1, <1>3, <1>4, <2>1 DEF Inner
    <3>3. g[q] = Inner(u, q)
      BY <1>6, <1>7, <2>1, <3>2
    <3>4. QED
      BY <3>1, <3>3, RowOfNone
  <2>2. CASE q # new /\ q = p
    <3> DEFINE list == s.kids[p]
               one == <<new>>
    <3>1. u.kids[q] = Spliced(list, k, one)
      BY <1>1, <1>2, <1>4, <2>2
    <3>2. /\ q \in Live(s) /\ Inner(u, q) = Inner(s, q) /\ g[q] = end[q]
      BY <1>7, <1>8, <2>2
    <3>3. Row(list, s.position, end, Inner(s, q), end[q])
      BY <1>6, <2>2, <3>2
    <3>4. one \in Seq(Items) /\ Len(one) > 0
      BY <1>1
    <3>5. Row(one, u.position, g, s.position[list[k]], end[list[k]])
      <4>1. u.position[new] = s.position[list[k]] /\ g[new] = end[list[k]]
        BY <1>1, <1>3, <1>7
      <4>2. QED
        BY <4>1, RowOfOne
    <3>6. \A j \in 1 .. Len(list) :
            j # k => /\ u.position[list[j]] = s.position[list[j]]
                     /\ g[list[j]] = end[list[j]]
      <4> SUFFICES ASSUME NEW j \in 1 .. Len(s.kids[q]), j # k
                   PROVE  /\ u.position[s.kids[q][j]] = s.position[s.kids[q][j]]
                          /\ g[s.kids[q][j]] = end[s.kids[q][j]]
        BY <2>2, Zenon
      <4>1. q \in Lists /\ q \notin gone /\ ~ (q = p /\ j = k)
        BY <1>1, <1>4, <2>2
      <4>2. QED
        BY <1>9, <3>2, <4>1, Zenon
    <3>7. list \in Seq(Items) /\ k \in 1 .. Len(list)
      BY <1>1, <1>5
    <3> HIDE DEF list, one
    <3> DEFINE P == s.position
               P2 == u.position
               from == Inner(s, q)
               to == end[q]
    <3>8. Row(Spliced(list, k, one), P2, g, from, to)
      <4>1. /\ Row(list, P, end, from, to)
            /\ Row(one, P2, g, P[list[k]], end[list[k]])
            /\ \A j \in 1 .. Len(list) :
                 j # k => P2[list[j]] = P[list[j]] /\ g[list[j]] = end[list[j]]
        BY <3>3, <3>5, <3>6
      <4> HIDE DEF P, P2, from, to
      <4>2. QED
        BY <3>4, <3>7, <4>1, RowSpliced
    <3>9. QED
      BY <3>1, <3>2, <3>8
  <2>3. CASE q # new /\ q # p
    <3> DEFINE row == s.kids[q]
    <3>1. /\ q \in Live(s) /\ q \in Lists /\ q \notin gone
          /\ Inner(u, q) = Inner(s, q) /\ g[q] = end[q]
      BY <1>7, <1>8, <2>3
    <3>2. u.kids[q] = row /\ Len(row) \in Nat
      BY <1>4, <1>5, <2>3, <3>1
    <3>3. Row(row, s.position, end, Inner(s, q), end[q])
      BY <1>6, <3>1
    <3>4. \A j \in 1 .. Len(row) :
            u.position[row[j]] = s.position[row[j]] /\ g[row[j]] = end[row[j]]
      <4> SUFFICES ASSUME NEW j \in 1 .. Len(s.kids[q])
                   PROVE  /\ u.position[s.kids[q][j]] = s.position[s.kids[q][j]]
                          /\ g[s.kids[q][j]] = end[s.kids[q][j]]
        OBVIOUS
      <4>1. ~ (q = p /\ j = k) /\ q \in Live(s) /\ q \in Lists /\ q \notin gone
        BY <2>3, <3>1
      <4>2. QED
        BY <1>9, <4>1, Zenon
    <3> HIDE DEF row
    <3>5. Row(row, u.position, g, Inner(s, q), end[q])
      BY <3>2, <3>3, <3>4, RowSame
    <3>6. QED
      BY <3>1, <3>2, <3>5
  <2>4. QED
    BY <2>1, <2>2, <2>3
<1>11. g[Root] = Size
  BY <1>4, <1>6, <1>7 DEF Lists
<1>12. QED
  BY <1>7, <1>10, <1>11 DEF LaidOut

(* It is as deep as what it takes the place of.                              *)
LEMMA SubstitutedLayered ==
  ASSUME NEW s, NEW u, NEW p, NEW k, NEW i, NEW new, NEW own, NEW gone,
         Substituting(s, u, p, k, i, new, own, gone),
         NEW depth, Layered(s, depth)
  PROVE  \E d : Layered(u, d)
<1> DEFINE d == [depth EXCEPT ![new] = depth[i]]
<1>1. /\ p \in Lists /\ k \in 1 .. Len(s.kids[p]) /\ s.kids[p][k] = i
      /\ i \in Lists /\ new \in Lists
  BY DEF Substituting, Lists
<1>2. KidsKept(s, u, p, k, new, gone)
  BY SubstitutedKids
<1>3. /\ depth \in [Lists -> Nat]
      /\ \A q \in Lists : \A j \in 1 .. Len(s.kids[q]) :
           depth[q] < depth[s.kids[q][j]]
  BY DEF Layered
<1>4. d \in [Lists -> Nat] /\ d[new] = depth[i]
      /\ \A q \in Lists : q # new => d[q] = depth[q]
  BY <1>1, <1>3
<1> HIDE DEF d
<1>5. ASSUME NEW q \in Lists, NEW j \in 1 .. Len(u.kids[q])
      PROVE  d[q] < d[u.kids[q][j]]
  <2>1. /\ q # new /\ j \in 1 .. Len(s.kids[q])
        /\ \/ q = p /\ j = k /\ u.kids[q][j] = new
           \/ /\ u.kids[q][j] = s.kids[q][j]
              /\ s.kids[q][j] \in Items /\ s.kids[q][j] # new
    BY <1>2 DEF KidsKept
  <2>2. d[q] = depth[q] /\ depth[q] < depth[s.kids[q][j]]
    BY <1>3, <1>4, <2>1
  <2>3. CASE q = p /\ j = k /\ u.kids[q][j] = new
    BY <1>1, <1>4, <2>2, <2>3
  <2>4. CASE /\ u.kids[q][j] = s.kids[q][j]
             /\ s.kids[q][j] \in Items /\ s.kids[q][j] # new
    <3>1. d[u.kids[q][j]] = depth[s.kids[q][j]]
      BY <1>4, <2>4 DEF Lists
    <3>2. QED
      BY <2>2, <3>1
  <2>5. QED
    BY <2>1, <2>3, <2>4
<1>6. QED
  BY <1>4, <1>5 DEF Layered

(* It is found where what it takes the place of was.                         *)
LEMMA SubstitutedIndexed ==
  ASSUME NEW s, NEW u, NEW p, NEW k, NEW i, NEW new, NEW own, NEW gone,
         Substituting(s, u, p, k, i, new, own, gone), Indexed(s, Root)
  PROVE  Indexed(u, Root)
<1>1. /\ p \in Lists /\ k \in 1 .. Len(s.kids[p]) /\ s.kids[p][k] = i
      /\ i \in Items /\ i # Root /\ new \in Items /\ new \notin gone
      /\ i \in gone
  BY DEF Substituting, Items, Root
<1>2. KidsKept(s, u, p, k, new, gone)
  BY SubstitutedKids
<1>3. /\ DOMAIN u.pmap = DOMAIN s.pmap
      /\ \A q \in DOMAIN u.pmap :
           u.pmap[q] = IF s.pmap[q] = i THEN new ELSE s.pmap[q]
      /\ u.position[new] = s.position[i]
      /\ \A j \in Items : j \notin gone /\ j # new =>
           u.position[j] = s.position[j]
  <2>1. \A j \in Items :
          /\ j \notin gone /\ j # new =>
               u.own[j] = s.own[j] /\ u.position[j] = s.position[j]
          /\ j = new => u.own[j] = own /\ u.position[j] = s.position[i]
    BY DEF Substituting
  <2>2. /\ DOMAIN u.pmap = DOMAIN s.pmap
        /\ \A q \in DOMAIN u.pmap :
             u.pmap[q] = IF s.pmap[q] = i THEN new ELSE s.pmap[q]
    BY DEF Substituting
  <2>3. QED
    BY <1>1, <2>1, <2>2
<1>4. ASSUME NEW q \in Lists, NEW j \in 1 .. Len(u.kids[q]), j # 1
      PROVE  Found(u, u.kids[q][j])
  <2>1. /\ j \in 1 .. Len(s.kids[q])
        /\ \/ q = p /\ j = k /\ u.kids[q][j] = new
           \/ /\ u.kids[q][j] = s.kids[q][j]
              /\ s.kids[q][j] \in Items /\ s.kids[q][j] \notin gone
              /\ s.kids[q][j] # new
    BY <1>2 DEF KidsKept
  <2>2. s.kids[q][j] # Root => Found(s, s.kids[q][j])
    BY <1>4, <2>1 DEF Indexed
  <2>3. CASE q = p /\ j = k /\ u.kids[q][j] = new
    <3>1. Found(s, i)
      BY <1>1, <2>2, <2>3
    <3>2. Found(u, new)
      BY <1>3, <3>1 DEF Found
    <3>3. QED
      BY <2>3, <3>2
  <2>4. CASE /\ u.kids[q][j] = s.kids[q][j]
             /\ s.kids[q][j] \in Items /\ s.kids[q][j] \notin gone
             /\ s.kids[q][j] # new
    <3> DEFINE y == s.kids[q][j]
    <3>1. y \in Items /\ y \notin gone /\ y # new /\ y # Root /\ y # i
      BY <1>1, <2>4 DEF Items, Root
    <3>2. Found(s, y)
      BY <2>2, <3>1
    <3> HIDE DEF y
    <3>3. Found(u, y)
      BY <1>3, <3>1, <3>2 DEF Found
    <3>4. QED
      BY <2>4, <3>3 DEF y
  <2>5. QED
    BY <2>1, <2>3, <2>4
<1>5. QED
  BY <1>4 DEF Indexed

(* It has the bytes and the labels of what it takes the place of.            *)
LEMMA SubstitutedKeeping ==
  ASSUME NEW s, NEW u, NEW p, NEW k, NEW i, NEW new, NEW own, NEW gone,
         Substituting(s, u, p, k, i, new, own, gone), Whole(s, {}),
         Holding(s, Unit) => Shows(own, Unit, s.position[i])
  PROVE  Keeping(s, u)
<1>1. /\ Shaped(s) /\ Owned(s, {}) /\ i \in Items /\ new \in Items
      /\ s.kind[new] = "free" /\ new \notin gone
      /\ gone = {i} \union Range(s.kids[i])
      /\ \A c \in Range(s.kids[i]) : \A n \in Names : n \notin LabelsOf(s, c)
      /\ \A n \in Names : u.label[n] =
           IF n \in LabelsOf(s, i) THEN [s.label[n] EXCEPT !.item = new]
           ELSE s.label[n]
      /\ \A j \in Items :
           /\ u.kind[j] = IF j \in gone THEN "free"
                          ELSE IF j = new THEN "leaf" ELSE s.kind[j]
           /\ j \notin gone /\ j # new =>
                u.own[j] = s.own[j] /\ u.position[j] = s.position[j]
           /\ j = new => u.own[j] = own /\ u.position[j] = s.position[i]
  BY Zenon DEF Substituting, Whole
<1>2. ASSUME Holding(s, Unit) PROVE Holding(u, Unit)
  <2> SUFFICES ASSUME NEW j \in Items, u.kind[j] # "free"
               PROVE  Shows(u.own[j], Unit, u.position[j])
    BY DEF Holding
  <2>1. CASE j = new
    BY <1>1, <1>2, <2>1
  <2>2. CASE j # new
    BY <1>1, <1>2, <2>2 DEF Holding
  <2>3. QED
    BY <2>1, <2>2
<1>3. Pointing(s, u)
  <2> SUFFICES ASSUME NEW n \in Names
        PROVE  /\ u.label[n] = Unset <=> s.label[n] = Unset
               /\ s.label[n] # Unset =>
                    ToFilePos(u, u.label[n]) = ToFilePos(s, s.label[n])
    BY DEF Pointing
  <2>1. CASE n \in LabelsOf(s, i)
    <3>1. /\ s.label[n] # Unset /\ s.label[n].item = i
          /\ s.label[n] \in Pointers
      BY <1>1, <2>1 DEF LabelsOf, Shaped
    <3>2. u.label[n] = [s.label[n] EXCEPT !.item = new]
      BY <1>1, <2>1
    <3>3. /\ u.label[n] = [item |-> new, offset |-> s.label[n].offset]
          /\ s.label[n].offset \in Nat
      BY <3>1, <3>2 DEF Pointers
    <3>4. u.label[n] # Unset
      BY <1>1, <3>3, ItemTreeAssumption DEF Items
    <3>5. u.position[new] = s.position[i]
      BY <1>1
    <3>6. QED
      BY <3>1, <3>3, <3>4, <3>5 DEF ToFilePos
  <2>2. CASE n \notin LabelsOf(s, i)
    <3>1. u.label[n] = s.label[n]
      BY <1>1, <2>2
    <3>2. ASSUME s.label[n] # Unset
          PROVE  u.position[s.label[n].item] = s.position[s.label[n].item]
      <4>1. /\ s.label[n].item \in Items /\ s.label[n].item # i
            /\ s.kind[s.label[n].item] # "free"
        BY <1>1, <2>2, <3>2 DEF LabelsOf, Owned, Shaped, Pointers
      <4>2. s.label[n].item \notin Range(s.kids[i])
        BY <1>1, <3>2 DEF LabelsOf
      <4>3. QED
        BY <1>1, <4>1, <4>2
    <3>3. QED
      BY <3>1, <3>2 DEF ToFilePos
  <2>3. QED
    BY <2>1, <2>2
<1>4. QED
  BY <1>2, <1>3 DEF Keeping

(* Item::Replace_ keeps the layout when the new item has as many bytes.      *)
LEMMA ReplacedLayout ==
  ASSUME NEW s, NEW i, Replaceable(s, i), NEW own \in Seq(Nat),
         NEW u, u = Replaced(Create(s, "leaf", own), i, Fresh(s)),
         Layout(s, Root, Root),
         \A end : LaidOut(s, end) => end[i] = s.position[i] + Len(own),
         Holding(s, Unit) => Shows(own, Unit, s.position[i])
  PROVE  Layout(u, Root, Root) /\ Keeping(s, u)
<1> DEFINE new == Fresh(s)
<1>1. PICK p, k, gone : Substituting(s, u, p, k, i, new, own, gone)
  BY SubstitutedFields
<1> HIDE DEF new
<1>2. PICK end : LaidOut(s, end) /\ Bulky(s, end, Root) /\ Held(s, end)
  BY DEF Layout
<1> DEFINE g == [end EXCEPT ![new] = end[i]]
<1>3. Inheriting(s, end, g, i, new, own)
  BY <1>2 DEF Inheriting
<1>4. LaidOut(u, g)
  <2> HIDE DEF g
  <2>1. QED
    BY <1>1, <1>3, SubstitutedLaid
<1>5. /\ i \in Items /\ s.kind[i] # "free" /\ i # Root /\ new # Root
      /\ new \in Items /\ new \notin gone
      /\ \A j \in Items :
        /\ u.kind[j] = IF j \in gone THEN "free"
                       ELSE IF j = new THEN "leaf" ELSE s.kind[j]
        /\ j \notin gone /\ j # new =>
             u.own[j] = s.own[j] /\ u.position[j] = s.position[j]
        /\ j = new => u.own[j] = own /\ u.position[j] = s.position[i]
  BY <1>1 DEF Substituting, Items, Root
<1>6. /\ g[new] = end[i]
      /\ \A q \in Lists : q # new => g[q] = end[q]
  BY <1>2, <1>5 DEF LaidOut, Lists
<1> HIDE DEF g
<1>7. Bulky(u, g, Root)
  <2> SUFFICES ASSUME NEW j \in Items, u.kind[j] # "free"
               PROVE  u.position[j] < g[j] \/ u.position[j] = Size
    BY DEF Bulky
  <2>1. \A x \in Items : s.kind[x] # "free" =>
          s.position[x] < end[x] \/ s.position[x] = Size
    BY <1>2 DEF Bulky, Items, Root
  <2>2. CASE j = new
    BY <1>5, <1>6, <2>1, <2>2
  <2>3. CASE j # new
    <3>1. /\ s.kind[j] # "free" /\ u.position[j] = s.position[j]
          /\ g[j] = end[j]
      BY <1>5, <1>6, <2>3 DEF Lists
    <3>2. QED
      BY <2>1, <3>1
  <2>4. QED
    BY <2>2, <2>3
<1>8. \E d : Layered(u, d)
  BY <1>1, SubstitutedLayered DEF Layout
<1>9. Indexed(u, Root)
  BY <1>1, SubstitutedIndexed DEF Layout
<1>10. EofEmpty(u)
  <2> SUFFICES ASSUME NEW j \in Items, u.kind[j] = "eof" PROVE u.own[j] = <<>>
    BY DEF EofEmpty
  <2>1. s.kind[j] = "eof" /\ u.own[j] = s.own[j]
    BY <1>5
  <2>2. QED
    BY <2>1 DEF Layout, EofEmpty
<1>12. Keeping(s, u)
  BY <1>1, SubstitutedKeeping DEF Replaceable, Good
<1>14. Held(u, g)
  <2> SUFFICES ASSUME NEW n \in Names, u.label[n] # Unset, u.label[n].offset # 0
               PROVE  ToFilePos(u, u.label[n]) < g[u.label[n].item]
    BY DEF Held
  <2>1. /\ Shaped(s) /\ Owned(s, {}) /\ s.kind[new] = "free"
        /\ u.label[n] = IF n \in LabelsOf(s, i)
                        THEN [s.label[n] EXCEPT !.item = new] ELSE s.label[n]
    BY <1>1, Zenon DEF Substituting, Whole
  <2>2. s.label[n] # Unset /\ ToFilePos(u, u.label[n]) = ToFilePos(s, s.label[n])
    BY <1>12 DEF Keeping, Pointing
  <2>3. /\ s.label[n] \in Pointers /\ s.kind[s.label[n].item] # "free"
        /\ s.label[n].item \in Items
    BY <2>1, <2>2 DEF Shaped, Owned, Pointers
  <2>4. s.label[n].offset = u.label[n].offset
        /\ g[u.label[n].item] = end[s.label[n].item]
    <3>1. CASE n \in LabelsOf(s, i)
      <4>1. u.label[n] = [item |-> new, offset |-> s.label[n].offset]
        BY <2>1, <2>3, <3>1 DEF Pointers
      <4>2. s.label[n].item = i
        BY <3>1 DEF LabelsOf
      <4>3. QED
        BY <1>6, <4>1, <4>2
    <3>2. CASE n \notin LabelsOf(s, i)
      BY <1>6, <2>1, <2>3, <3>2 DEF Lists
    <3>3. QED
      BY <3>1, <3>2
  <2>5. ToFilePos(s, s.label[n]) < end[s.label[n].item]
    BY <1>2, <2>2, <2>4 DEF Held
  <2>6. QED
    BY <2>2, <2>4, <2>5
<1>11. Layout(u, Root, Root)
  BY <1>4, <1>7, <1>8, <1>9, <1>10, <1>14 DEF Layout
<1>13. QED
  BY <1>11, <1>12

-----------------------------------------------------------------------------
(* What the calls of a parser keep *)

(* The layout is not about labels.                                           *)
LEMMA LabelLayout ==
  ASSUME NEW s, NEW u, u.kids = s.kids, u.kind = s.kind, u.own = s.own,
         u.position = s.position, u.pmap = s.pmap,
         NEW lost, NEW thin, Layout(s, lost, thin),
         \A end : LaidOut(s, end) /\ Held(s, end) => Held(u, end)
  PROVE  Layout(u, lost, thin)
<1>1. Live(u) = Live(s) /\ \A q \in Live(s) : Inner(u, q) = Inner(s, q)
  BY DEF Live, Inner
<1>2. PICK end : LaidOut(s, end) /\ Bulky(s, end, thin) /\ Held(s, end)
  BY DEF Layout
<1>10. Held(u, end)
  BY <1>2
<1>3. LaidOut(u, end)
  <2>1. \A q \in Live(s) :
          Row(s.kids[q], s.position, end, Inner(s, q), end[q])
    BY <1>2 DEF LaidOut
  <2>2. \A q \in Live(u) :
          Row(u.kids[q], u.position, end, Inner(u, q), end[q])
    BY <1>1, <2>1
  <2>3. QED
    BY <1>2, <2>2 DEF LaidOut
<1>4. Bulky(u, end, thin)
  BY <1>2 DEF Bulky
<1>5. PICK depth : Layered(s, depth)
  BY DEF Layout
<1>6. Layered(u, depth)
  BY <1>5 DEF Layered
<1>7. Indexed(u, lost)
  BY DEF Layout, Indexed, Found
<1>8. EofEmpty(u)
  BY DEF Layout, EofEmpty
<1>9. QED
  BY <1>3, <1>4, <1>6, <1>7, <1>8, <1>10 DEF Layout

(* CreateAndInsert of an item without children, unless it is empty.          *)
LEMMA CreateLeafLayout ==
  ASSUME Parsing(t), Layout(t, Root, Root), CreateLeaf, "empty" \notin Odd
  PROVE  Layout(t', Root, Root) /\ Keeping(t, t')
<1>1. PICK r \in Raws, len \in 0 .. Size :
        /\ len > 0
        /\ \E pos \in Cuts(r, len) : t' = Split(t, r, pos, len, "leaf")
  BY DEF CreateLeaf
<1>2. PICK pos \in Cuts(r, len) : t' = Split(t, r, pos, len, "leaf")
  BY <1>1
<1>3. len \in Nat /\ Room(2)
  BY ItemTreeAssumption DEF CreateLeaf
<1>4. Cutable(t, r, pos, len)
  BY <1>3, CutsOf
<1>5. Good(t) /\ "leaf" # "free" /\ "leaf" # "eof"
  BY DEF Parsing
<1>6. PICK p \in Lists, k \in Nat, f \in Nat :
        Splitting(t, t', p, k, r, pos, len, Fresh(t), f, "leaf")
  BY <1>2, <1>4, <1>5, SplitAny
<1>7. Layout(t, Root, Root) /\ len > 0 => Layout(t', Root, Root)
  BY <1>5, <1>6, SplitLayout
<1>8. Keeping(t, t')
  BY <1>5, <1>6, SplitKeeping
<1>9. QED
  BY <1>1, <1>7, <1>8

(* Where an item that has no children, or one that has none, ends.           *)
LEMMA EndsAt ==
  ASSUME NEW s, Whole(s, {}), NEW end, LaidOut(s, end),
         NEW i \in Items, s.kind[i] # "free"
  PROVE  /\ s.kids[i] = <<>> => end[i] = s.position[i] + Len(s.own[i])
         /\ \A c \in Items :
              s.kids[i] = <<c>> /\ s.kind[c] # "free" /\ s.kids[c] = <<>> =>
                end[i] = (s.position[i] + Len(s.own[i])) + Len(s.own[c])
<1>1. \A q \in Live(s) : Row(s.kids[q], s.position, end, Inner(s, q), end[q])
  BY DEF LaidOut
<1>2. ASSUME NEW j \in Items, s.kind[j] # "free"
      PROVE  /\ Row(s.kids[j], s.position, end, s.position[j] + Len(s.own[j]),
                    end[j])
             /\ s.kids[j] = <<>> => end[j] = s.position[j] + Len(s.own[j])
  <2>1. j \in Live(s) /\ j # Root
    BY <1>2 DEF Live, Items, Root
  <2>2. Inner(s, j) = s.position[j] + Len(s.own[j])
    BY <2>1 DEF Inner
  <2>3. Row(s.kids[j], s.position, end, s.position[j] + Len(s.own[j]), end[j])
    BY <1>1, <2>1, <2>2
  <2>4. QED
    BY <2>3, RowOfNone
<1>3. ASSUME NEW c \in Items, s.kids[i] = <<c>>, s.kind[c] # "free",
             s.kids[c] = <<>>
      PROVE  end[i] = (s.position[i] + Len(s.own[i])) + Len(s.own[c])
  <2> DEFINE one == <<c>>
             from == s.position[i] + Len(s.own[i])
  <2>1. Row(one, s.position, end, from, end[i])
    BY <1>2, <1>3
  <2>2. Len(one) = 1 /\ one[1] = c /\ 1 \in 1 .. 1
    OBVIOUS
  <2>3. end[c] = s.position[c] + Len(s.own[c])
    BY <1>2, <1>3
  <2> HIDE DEF one, from
  <2>4. s.position[c] = from
    BY <2>1, <2>2 DEF Row, Mark
  <2>5. end[i] = end[c]
    BY <2>1, <2>2 DEF Row, Mark
  <2>6. QED
    BY <2>3, <2>4, <2>5 DEF from
<1>4. QED
  BY <1>2, <1>3

(* CollectionLinkHeaderItem::CreateAndInsert                                 *)
LEMMA ReplaceEofLayout ==
  ASSUME Good(t), Layout(t, Root, Root), ReplaceEof
  PROVE  Layout(t', Root, Root) /\ Keeping(t, t')
<1>1. PICK eof \in Items :
        /\ t.kind[eof] = "eof"
        /\ t' = Replaced(Create(t, "leaf", <<>>), eof, Fresh(t))
  BY DEF ReplaceEof
<1>3. Free(t) # {}
  <2>1. Free(t) \subseteq Items /\ Cardinality(Free(t)) >= 1
    BY DEF Free, Room, ReplaceEof
  <2>2. 1 \in Nat /\ 1 > 0
    OBVIOUS
  <2>3. QED
    BY <2>1, <2>2, Spared
<1>4. Whole(t, {}) /\ t.kids[eof] = <<>>
  BY <1>1 DEF Good, Whole, Owned, Childless
<1>5. Replaceable(t, eof)
  <2>1. Range(t.kids[eof]) = {}
    BY <1>4 DEF Range
  <2>2. QED
    BY <1>1, <1>3, <2>1 DEF Replaceable
<1> DEFINE own == <<>>
<1>6. /\ own \in Seq(Nat) /\ t.own[eof] = own
      /\ t' = Replaced(Create(t, "leaf", own), eof, Fresh(t))
  BY <1>1 DEF Layout, EofEmpty
<1> HIDE DEF own
<1>7. \A end : LaidOut(t, end) => end[eof] = t.position[eof] + Len(own)
  BY <1>1, <1>4, <1>6, EndsAt
<1>8. Holding(t, Unit) => Shows(own, Unit, t.position[eof])
  BY <1>1, <1>6 DEF Holding
<1>9. QED
  BY <1>5, <1>6, <1>7, <1>8, ReplacedLayout

(* StringDataItem::MaybeCreateAndReplace, unless the string is padded.       *)
LEMMA StringReplacedLayout ==
  ASSUME NEW s, NEW u, NEW node, NEW c, NEW size, Nesting(s, u, node, c, size),
         Free(u) # {}, node \in Items, NEW w, w \in StringReplaced(u, node),
         Layout(u, Root, Root), "padded" \notin Odd
  PROVE  Layout(w, Root, Root) /\ Keeping(u, w)
<1>1. /\ Good(u) /\ Whole(u, {}) /\ u.kids[node] = <<c>> /\ u.kind[node] = "node"
      /\ c \in RawsOf(u) /\ \A q \in DOMAIN u.pmap : u.pmap[q] # c
  BY DEF Nesting, Good
<1> DEFINE body == u.own[c]
           own == u.own[node] \o SubSeq(body, 1, Len(body) - 0)
<1>2. Head(u.kids[node]) = c
  BY <1>1
<1>3. /\ LabelsOf(u, c) = {}
      /\ w = Replaced(Create(u, "leaf", own), node, Fresh(u))
  BY <1>2 DEF StringReplaced
<1>4. /\ own \in Seq(Nat) /\ Len(own) = Len(u.own[node]) + Len(body)
      /\ Len(u.own[node]) \in Nat /\ Len(body) \in Nat
  <2>1. u.own[node] \in Seq(Nat) /\ body \in Seq(Nat)
    BY <1>1 DEF Whole, Shaped, RawsOf
  <2> HIDE DEF body
  <2>2. Len(body) - 0 = Len(body) /\ SubSeq(body, 1, Len(body)) \in Seq(Nat)
        /\ Len(SubSeq(body, 1, Len(body))) = Len(body)
    BY <2>1
  <2> DEFINE head == u.own[node]
             rest == SubSeq(body, 1, Len(body) - 0)
  <2>3. head \in Seq(Nat) /\ rest \in Seq(Nat) /\ Len(rest) = Len(body)
    BY <2>1, <2>2
  <2> HIDE DEF head, rest
  <2>4. head \o rest \in Seq(Nat) /\ Len(head \o rest) = Len(head) + Len(rest)
    BY <2>3
  <2>5. Len(head) \in Nat /\ Len(body) \in Nat
    BY <2>1, <2>3
  <2>6. QED
    BY <2>3, <2>4, <2>5 DEF head, rest
<1>5. \A x \in Range(u.kids[node]) : x = c
  <2>1. Len(<<c>>) = 1 /\ <<c>>[1] = c /\ DOMAIN <<c>> = 1 .. 1
    OBVIOUS
  <2>2. QED
    BY <1>1, <2>1 DEF Range
<1>6. u.kids[c] = <<>> /\ c \in Items /\ u.kind[c] # "free"
  BY <1>1 DEF Whole, Owned, Childless, RawsOf
<1>7. \A n \in Names : u.label[n] = Unset \/ u.label[n].item # c
  BY <1>3 DEF LabelsOf
<1>8. Replaceable(u, node)
  BY <1>1, <1>5, <1>6, <1>7 DEF Replaceable
<1>11. Holding(u, Unit) => Shows(own, Unit, u.position[node])
  <2> SUFFICES ASSUME Holding(u, Unit)
               PROVE  Shows(own, Unit, u.position[node])
    OBVIOUS
  <2> DEFINE head == u.own[node]
             rest == SubSeq(body, 1, Len(body) - 0)
  <2>1. head \in Seq(Nat) /\ body \in Seq(Nat) /\ u.position[node] \in Nat
        /\ node # Root /\ node \in Live(u)
    <3>1. u.own \in [Items -> Seq(Nat)]
      BY <1>1 DEF Whole, Shaped
    <3>2. u.position[node] \in Nat
      BY <1>1 DEF Good, Regular
    <3>3. node # Root /\ node \in Live(u)
      BY <1>1 DEF Live, Items, Root
    <3>4. QED
      BY <1>6, <3>1, <3>2, <3>3
  <2>2. rest \in Seq(Nat) /\ rest = body
    <3> HIDE DEF body
    <3>1. rest \in Seq(Nat) /\ Len(rest) = Len(body) /\ Len(body) \in Nat
      BY <2>1
    <3>2. \A k \in 1 .. Len(body) : rest[k] = body[k]
      BY <2>1
    <3> HIDE DEF rest
    <3>3. QED
      BY <2>1, <3>1, <3>2, SameSeq
  <2>3. Shows(head, Unit, u.position[node])
    BY <1>1 DEF Holding
  <2>4. Shows(body, Unit, u.position[c])
    BY <1>6 DEF Holding
  <2>5. u.position[c] = u.position[node] + Len(head)
    <3>1. PICK end : LaidOut(u, end)
      BY DEF Layout
    <3> DEFINE one == <<c>>
    <3>2. Row(one, u.position, end, Inner(u, node), end[node])
      BY <1>1, <2>1, <3>1 DEF LaidOut
    <3>3. Len(one) = 1 /\ one[1] = c /\ 1 \in 1 .. 1
      OBVIOUS
    <3> HIDE DEF one
    <3>4. u.position[c] = Inner(u, node)
      BY <3>2, <3>3 DEF Row, Mark
    <3>5. QED
      BY <2>1, <3>4 DEF Inner
  <2> HIDE DEF head, rest, body
  <2>6. Shows(head \o rest, Unit, u.position[node])
    BY <2>1, <2>2, <2>3, <2>4, <2>5, ShowsJoined
  <2>7. QED
    BY <2>6 DEF head, rest, body
<1> HIDE DEF own
<1>9. \A end : LaidOut(u, end) => end[node] = u.position[node] + Len(own)
  <2> SUFFICES ASSUME NEW end, LaidOut(u, end)
               PROVE  end[node] = u.position[node] + Len(own)
    OBVIOUS
  <2>1. end[node] = (u.position[node] + Len(u.own[node])) + Len(body)
    BY <1>1, <1>6, EndsAt
  <2>2. u.position[node] \in Nat
    BY <1>1 DEF Good, Regular
  <2> HIDE DEF body
  <2>3. QED
    BY <1>4, <2>1, <2>2
<1>10. QED
  BY <1>3, <1>4, <1>8, <1>9, <1>11, ReplacedLayout

(* DataItem::CreateAndInsert, DataFactory::Check,                            *)
(* InstructionItem::CreateAndInsert                                          *)
LEMMA CreateDataLayout ==
  ASSUME Parsing(t), Layout(t, Root, Root), CreateData, "padded" \notin Odd
  PROVE  Layout(t', Root, Root) /\ Keeping(t, t')
<1>1. Good(t) /\ Room(4)
  BY DEF Parsing, CreateData
<1> DEFINE node == Fresh(t)
           made(r, pos) == Split(t, r, pos, 1, "node")
           full(r, pos, length) == MoveNextToChild(made(r, pos), node, length)
<1>2. PICK r \in Raws, length \in 0 .. Size - 1 :
        \E pos \in Cuts(r, 1 + length) :
          IF length = 0 THEN t' = made(r, pos)
          ELSE t' \in {full(r, pos, length)} \union
                        StringReplaced(full(r, pos, length), node)
  BY DEF CreateData
<1>3. PICK pos \in Cuts(r, 1 + length) :
        IF length = 0 THEN t' = made(r, pos)
        ELSE t' \in {full(r, pos, length)} \union
                      StringReplaced(full(r, pos, length), node)
  BY <1>2
<1> DEFINE u == made(r, pos)
           w == full(r, pos, length)
<1>4. length \in Nat /\ 1 + length \in Nat
  BY ItemTreeAssumption
<1>5. Cutable(t, r, pos, 1 + length)
  <2>1. Room(2)
    <3>1. Cardinality(Free(t)) >= 4
      BY <1>1 DEF Room
    <3>2. IsFiniteSet(Items) /\ Free(t) \subseteq Items
      BY FS_Interval, ItemTreeAssumption DEF Items, Free
    <3>3. Cardinality(Free(t)) \in Nat
      BY <3>2, FS_Subset, FS_CardinalityType
    <3>4. QED
      BY <3>1, <3>3 DEF Room
  <2>2. QED
    BY <1>4, <2>1, CutsOf
<1>6. /\ pos \in Nat /\ Len(t.own[r]) \in Nat /\ r \in RawsOf(t)
      /\ pos + (1 + length) <= Len(t.own[r])
  BY <1>1, <1>5 DEF Cutable, Good, Whole, Shaped, RawsOf
<1>7. Cutable(t, r, pos, 1)
  <2>1. \/ pos = 0 \/ Free(t) \ {Fresh(t)} # {}
    <3>1. Free(t) \subseteq Items /\ Cardinality(Free(t)) >= 4
      BY <1>1 DEF Free, Room
    <3>2. 4 \in Nat /\ 4 > 1
      OBVIOUS
    <3>3. QED
      BY <3>1, <3>2, Spared
  <2>2. pos + 1 <= Len(t.own[r]) /\ Len(t.own[r]) > 0
    <3> DEFINE L == Len(t.own[r])
    <3>1. L \in Nat /\ pos + (1 + length) <= L
      BY <1>6
    <3> HIDE DEF L
    <3>2. pos + 1 <= L /\ L > 0
      BY <1>4, <1>6, <3>1
    <3>3. QED
      BY <3>2 DEF L
  <2>3. QED
    BY <1>5, <1>6, <2>1, <2>2 DEF Cutable
<1>8. "node" # "free" /\ "node" # "raw" /\ "node" # "eof"
  OBVIOUS
<1>9. PICK p \in Lists, k \in Nat, f \in Nat :
        Splitting(t, u, p, k, r, pos, 1, node, f, "node")
  BY <1>1, <1>7, <1>8, SplitAny
<1> HIDE DEF made, full, node
<1>10. Good(u)
  BY <1>1, <1>8, <1>9, SplitGood
<1>11. Layout(u, Root, Root)
  <2>1. Layout(t, Root, Root) /\ 1 > 0 => Layout(u, Root, Root)
    BY <1>1, <1>8, <1>9, SplitLayout
  <2>2. QED
    BY <2>1
<1>15. Keeping(t, u)
  BY <1>1, <1>9, SplitKeeping
<1>12. CASE length = 0
  BY <1>3, <1>11, <1>12, <1>15
<1>13. CASE length # 0
  <2>1. Cardinality(Free(u)) >= 2
    <3>1. Free(t) \subseteq Items /\ Free(u) \subseteq Items
          /\ Cardinality(Free(t)) >= 4
      BY <1>1 DEF Free, Room
    <3>2. 4 \in Nat /\ 4 > 0 /\ 4 - 1 = 3 /\ 3 \in Nat /\ 3 > 0 /\ 3 - 1 = 2
          /\ 2 \in Nat
      OBVIOUS
    <3>3. Cardinality(Free(t) \ {node}) >= 3
      <4>1. Cardinality(Free(t) \ {node}) >= 4 - 1
        BY <3>1, <3>2, Spared, Zenon
      <4>2. QED
        BY <3>2, <4>1
    <3>4. Free(t) \ {node} \subseteq Items
      BY <3>1
    <3>5. Cardinality((Free(t) \ {node}) \ {f}) >= 2
      <4>1. Cardinality((Free(t) \ {node}) \ {f}) >= 3 - 1
        BY <3>2, <3>3, <3>4, Spared, Zenon
      <4>2. QED
        BY <3>2, <4>1
    <3>6. (Free(t) \ {node}) \ {f} \subseteq Free(u)
      <4>1. Free(t) \ {node, f} \subseteq Free(u)
        BY <1>1, <1>9, SplitPlaces
      <4>2. QED
        BY <4>1
    <3>7. QED
      BY <3>1, <3>2, <3>5, <3>6, Left
  <2>2. 2 \in Nat /\ 2 > 0 /\ 2 > 1 /\ 2 - 1 = 1 /\ 1 > 0 /\ 1 \in Nat
    OBVIOUS
  <2>3. Free(u) \subseteq Items /\ Free(u) # {}
    <3>1. Free(u) \subseteq Items
      BY DEF Free
    <3>2. QED
      BY <2>1, <2>2, <3>1, Spared
  <2>4. length > 0
    BY <1>4, <1>13
  <2>5. PICK b, l : Nestable(u, node, p, l, b, length) /\ Alone(u, b)
    BY <1>1, <1>4, <1>6, <1>9, <2>3, <2>4, NodeMade
  <2> DEFINE c == Fresh(u)
  <2>6. /\ Nesting(u, w, node, c, length) /\ Layout(w, Root, Root)
        /\ Keeping(u, w)
    <3>1. w = MoveNextToChild(u, node, length)
      BY DEF full
    <3> HIDE DEF u, w
    <3>2. Nesting(u, w, node, c, length)
      BY <2>4, <2>5, <3>1, Nested
    <3>3. Layout(w, Root, Root) /\ Keeping(u, w)
      BY <1>11, <2>4, <2>5, <3>1, NestedLayout
    <3>4. QED
      BY <3>2, <3>3
  <2>14. Keeping(t, w)
    <3> HIDE DEF u, w, c
    <3>1. QED
      BY <1>15, <2>6, KeepingOn
  <2>7. Good(w) /\ Free(u) \ {c} \subseteq Free(w)
    BY <2>6 DEF Nesting
  <2>8. Free(w) # {}
    <3>1. Free(u) \ {c} # {}
      BY <2>1, <2>2, <2>3, Spared
    <3>2. QED
      BY <2>7, <3>1
  <2>9. node \in Items
    BY <2>5 DEF Nestable
  <2> HIDE DEF u, w, c
  <2>10. t' = w \/ t' \in StringReplaced(w, node)
    BY <1>3, <1>13 DEF w
  <2>11. CASE t' = w
    BY <2>6, <2>11, <2>14
  <2>12. CASE t' \in StringReplaced(w, node)
    <3>1. Layout(t', Root, Root) /\ Keeping(w, t')
      BY <2>6, <2>8, <2>9, <2>12, StringReplacedLayout
    <3>2. QED
      BY <2>14, <3>1, KeepingOn
  <2>13. QED
    BY <2>10, <2>11, <2>12
<1>14. QED
  BY <1>12, <1>13

(* Labels other than n are left alone, and n is made to point to q. *)
Marking(s, u, n, q) ==
  /\ Holding(s, Unit) => Holding(u, Unit)
  /\ \A x \in Names : x # n =>
       /\ u.label[x] = Unset <=> s.label[x] = Unset
       /\ s.label[x] # Unset =>
            ToFilePos(u, u.label[x]) = ToFilePos(s, s.label[x])
  /\ Named(u, n, q)

(* The first k labels of the order are made to point to the unit at P and to *)
(* those behind it.                                                          *)
Marked(s, u, order, k, P) ==
  /\ Holding(s, Unit) => Holding(u, Unit)
  /\ \A x \in Names : (\A j \in 1 .. k : order[j] # x) =>
       /\ u.label[x] = Unset <=> s.label[x] = Unset
       /\ s.label[x] # Unset =>
            ToFilePos(u, u.label[x]) = ToFilePos(s, s.label[x])
  /\ \A j \in 1 .. k : Named(u, order[j], P + (j - 1))

(* One more of them.                                                         *)
LEMMA MarkedNext ==
  ASSUME NEW s, NEW v, NEW u, NEW order, NEW K \in Nat, NEW k \in 1 .. K,
         NEW P, NEW q, q = P + (k - 1),
         \A j, l \in 1 .. K : order[j] = order[l] => j = l,
         \A j \in 1 .. K : order[j] \in Names,
         Marked(s, v, order, k - 1, P), Marking(v, u, order[k], q)
  PROVE  Marked(s, u, order, k, P)
<1> DEFINE Follows(x, y, n) ==
             /\ y.label[n] = Unset <=> x.label[n] = Unset
             /\ x.label[n] # Unset =>
                  ToFilePos(y, y.label[n]) = ToFilePos(x, x.label[n])
<1>1. /\ k \in 1 .. k /\ k \in Nat
      /\ \A j \in 1 .. k : j = k \/ j \in 1 .. k - 1
      /\ \A j \in 1 .. k - 1 : j \in 1 .. k /\ j \in 1 .. K /\ j # k
  OBVIOUS
<1>2. /\ Holding(s, Unit) => Holding(v, Unit)
      /\ \A x \in Names : (\A j \in 1 .. k - 1 : order[j] # x) => Follows(s, v, x)
      /\ \A j \in 1 .. k - 1 : Named(v, order[j], P + (j - 1))
  BY DEF Marked
<1>3. /\ Holding(v, Unit) => Holding(u, Unit)
      /\ \A x \in Names : x # order[k] => Follows(v, u, x)
      /\ Named(u, order[k], q)
  BY DEF Marking
<1>4. ASSUME NEW x \in Names, \A j \in 1 .. k : order[j] # x
      PROVE  Follows(s, u, x)
  <2>1. Follows(s, v, x) /\ Follows(v, u, x)
    <3> HIDE DEF Follows
    <3>1. QED
      BY <1>1, <1>2, <1>3, <1>4
  <2>2. QED
    BY <2>1
<1>5. ASSUME NEW j \in 1 .. k PROVE Named(u, order[j], P + (j - 1))
  <2>1. CASE j = k
    BY <1>3, <2>1
  <2>2. CASE j # k
    <3>1. j \in 1 .. k - 1 /\ order[j] # order[k] /\ order[j] \in Names
      BY <1>1, <2>2
    <3>2. Named(v, order[j], P + (j - 1)) /\ Follows(v, u, order[j])
      <4> HIDE DEF Follows
      <4>1. QED
        BY <1>2, <1>3, <3>1
    <3>3. QED
      BY <3>2, Zenon DEF Named
  <2>3. QED
    BY <2>1, <2>2
<1>6. QED
  BY <1>2, <1>3, <1>4, <1>5 DEF Marked

(* ExpansionsItem::CreateAndInsert: an ExpansionItem is made.                *)
LEMMA ExpansionLayout ==
  ASSUME NEW s, NEW node, NEW rest \in Nat, Expanding(s, node, rest + 1),
         NEW n \in Names, NEW w, w = WithExpansion(s, node, n),
         Layout(s, Root, Root)
  PROVE  /\ Layout(w, Root, Root)
         /\ Marking(s, w, n, s.position[Last(s.kids[node])])
<1> DEFINE it == Last(s.kids[node])
           K == Len(s.kids[node])
           l == [item |-> it, offset |-> 0]
           u == [s EXCEPT !.label[n] = l]
           new == Fresh(u)
<1>1. /\ Good(s) /\ node \in Items /\ node \in Lists
      /\ s.kids[node] \in Seq(Items) /\ K \in Nat /\ K > 0
      /\ it \in RawsOf(s) /\ it \in Items /\ it = s.kids[node][K]
      /\ Len(s.own[it]) = rest + 1 /\ Cardinality(Free(s)) >= rest + 1
  <2>1. rest + 1 > 0
    OBVIOUS
  <2>2. Good(s) /\ node \in Items /\ node \in Lists
    BY DEF Expanding, Lists
  <2>3. s.kids[node] \in Seq(Items)
    BY <2>2 DEF Good, Whole, Shaped
  <2>4. /\ K > 0 /\ it \in RawsOf(s) /\ Len(s.own[it]) = rest + 1
        /\ Cardinality(Free(s)) >= rest + 1
    BY <2>1 DEF Expanding
  <2>5. it = s.kids[node][K]
    BY DEF Last
  <2>6. QED
    BY <2>2, <2>3, <2>4, <2>5 DEF RawsOf
<1>2. w = Split(u, it, 0, 1, "leaf")
  BY DEF WithExpansion
<1>3. l \in Pointers /\ l.item = it /\ l.offset = 0 /\ Listed(s.kids, it)
  BY <1>1 DEF Pointers, Listed
<1>4. Len(s.own[it]) > 0
  BY <1>1
<1> HIDE DEF it, l, K
<1>20. u.position = s.position /\ u.pmap = s.pmap
  BY <1>1 DEF Good, Whole, Shaped, Fields
<1>5. /\ Good(u)
      /\ u.kids = s.kids /\ u.kind = s.kind /\ u.own = s.own
  <2>1. l.item \in RawsOf(s) => l.offset < Len(s.own[l.item])
    BY <1>3, <1>4
  <2>2. Listed(s.kids, l.item)
    BY <1>3
  <2>3. QED
    BY <1>1, <1>3, <2>1, <2>2, LabelGood
<1>21. Layout(u, Root, Root)
  <2>1. ASSUME NEW end, Held(s, end) PROVE Held(u, end)
    <3> SUFFICES ASSUME NEW x \in Names, u.label[x] # Unset,
                        u.label[x].offset # 0
                 PROVE  ToFilePos(u, u.label[x]) < end[u.label[x].item]
      BY DEF Held
    <3>1. u.label[x] = s.label[x]
      BY <1>1, <1>3 DEF u, Good, Whole, Shaped, Fields
    <3>2. QED
      BY <1>20, <2>1, <3>1 DEF Held, ToFilePos
  <2>2. QED
    BY <1>5, <1>20, <2>1, LabelLayout
<1>6. RawsOf(u) = RawsOf(s) /\ Free(u) = Free(s)
  BY <1>5 DEF RawsOf, Free
<1> HIDE DEF u
<1>7. /\ Free(u) # {} /\ Cardinality(Free(u) \ {new}) >= rest
  <2>1. Free(u) \subseteq Items
    BY DEF Free
  <2>2. rest + 1 \in Nat /\ rest + 1 > 0 /\ (rest + 1) - 1 = rest
    OBVIOUS
  <2>3. Cardinality(Free(u)) >= rest + 1
    BY <1>1, <1>6
  <2>4. Free(u) # {} /\ Cardinality(Free(u) \ {new}) >= (rest + 1) - 1
    BY <2>1, <2>2, <2>3, Spared, Zenon
  <2>5. QED
    BY <2>2, <2>4
<1>8. Cutable(u, it, 0, 1)
  <2>1. 0 + 1 <= rest + 1 /\ rest + 1 > 0
    OBVIOUS
  <2>2. QED
    BY <1>1, <1>5, <1>6, <1>7, <2>1 DEF Cutable
<1>9. K \in 1 .. Len(u.kids[node]) /\ it = u.kids[node][K]
  BY <1>1, <1>5 DEF K
<1>10. PICK f \in Nat : Splitting(u, w, node, K, it, 0, 1, new, f, "leaf")
  <2>1. "leaf" # "free"
    OBVIOUS
  <2>2. QED
    BY <1>1, <1>2, <1>5, <1>8, <1>9, <2>1, SplitOf
<1>11. Layout(w, Root, Root)
  <2>1. "leaf" # "eof"
    OBVIOUS
  <2>2. Layout(u, Root, Root) /\ 1 > 0 => Layout(w, Root, Root)
    BY <1>5, <1>10, <2>1, SplitLayout
  <2>3. QED
    BY <1>21, <2>2
<1>12. Marking(s, w, n, s.position[it])
  <2>1. Keeping(u, w)
    BY <1>5, <1>10, SplitKeeping
  <2>2. Holding(s, Unit) => Holding(u, Unit)
    BY <1>5, <1>20 DEF Holding
  <2>3. u.label[n] = l /\ \A x \in Names : x # n => u.label[x] = s.label[x]
    BY <1>1 DEF u, Good, Whole, Shaped, Fields
  <2>4. Named(u, n, s.position[it])
    <3>1. l # Unset
      BY <1>3, ItemTreeAssumption DEF Pointers, Items
    <3>2. s.position[it] \in Nat /\ s.position[it] + 0 = s.position[it]
      <4>1. s.position[it] \in Nat
        BY <1>1 DEF Good, Regular, RawsOf
      <4>2. QED
        BY <4>1
    <3>3. QED
      BY <1>3, <1>20, <2>3, <3>1, <3>2 DEF Named, ToFilePos
  <2>5. Named(w, n, s.position[it])
    BY <2>1, <2>4 DEF Keeping, Pointing, Named
  <2>6. ASSUME NEW x \in Names, x # n
        PROVE  /\ w.label[x] = Unset <=> s.label[x] = Unset
               /\ s.label[x] # Unset =>
                    ToFilePos(w, w.label[x]) = ToFilePos(s, s.label[x])
    <3>1. u.label[x] = s.label[x]
      BY <2>3, <2>6
    <3>2. ToFilePos(u, s.label[x]) = ToFilePos(s, s.label[x])
      BY <1>20 DEF ToFilePos
    <3>3. QED
      BY <2>1, <3>1, <3>2 DEF Keeping, Pointing
  <2>7. Holding(s, Unit) => Holding(w, Unit)
    BY <2>1, <2>2 DEF Keeping
  <2>8. QED
    BY <2>5, <2>6, <2>7 DEF Marking
<1>13. QED
  BY <1>11, <1>12 DEF it

(* ExpansionsItem::CreateAndInsert: an ExpansionItem after another is made.  *)
LEMMA ExpandedLayout ==
  ASSUME NEW s, NEW node, NEW K \in Nat, NEW order, order \in Seq(Names),
         Len(order) = K, Expanding(s, node, K), Layout(s, Root, Root),
         \A j, l \in 1 .. K : order[j] = order[l] => j = l,
         NEW P \in Nat, P = s.position[Last(s.kids[node])],
         NEW w, w = WithExpansions(s, node, order)
  PROVE  Layout(w, Root, Root) /\ Marked(s, w, order, K, P)
<1> DEFINE made == CHOOSE made : made = [k \in 0 .. Len(order) |->
             IF k = 0 THEN s ELSE WithExpansion(made[k - 1], node, order[k])]
           Kept(u, k) == /\ Expanding(u, node, K - k)
                         /\ Layout(u, Root, Root)
                         /\ K - k > 0 => u.position[Last(u.kids[node])] = P + k
                         /\ Marked(s, u, order, k, P)
           Failed == {k \in 0 .. K : ~ Kept(made[k], k)}
<1>1. made = [k \in 0 .. Len(order) |->
                IF k = 0 THEN s ELSE WithExpansion(made[k - 1], node, order[k])]
  <2>1. Len(order) \in Nat
    OBVIOUS
  <2> HIDE DEF Kept, Failed
  <2>2. \E f : Expands(f, s, node, order)
    BY <2>1, ExpandedEquation
  <2>3. QED
    BY <2>2 DEF Expands
<1>2. w = made[Len(order)]
  BY DEF WithExpansions
<1> HIDE DEF made
<1>3. /\ made[0] = s /\ w = made[K]
      /\ \A k \in 0 .. K :
           k # 0 => made[k] = WithExpansion(made[k - 1], node, order[k])
  BY <1>1, <1>2
<1>4. ASSUME Failed # {} PROVE FALSE
  <2>1. Failed \subseteq Nat
    OBVIOUS
  <2>2. PICK k \in Failed : \A j \in Failed : k <= j
    <3> HIDE DEF Failed
    <3>1. Min(Failed) \in Failed /\ \A m \in Failed : Min(Failed) <= m
      BY <1>4, <2>1, Least
    <3>2. QED
      BY <3>1
  <2>3. k \in 0 .. K /\ ~ Kept(made[k], k)
    BY <2>2
  <2>4. CASE k = 0
    <3>1. K - k = K /\ P + k = P
      BY <2>4
    <3>2. Marked(s, s, order, k, P)
      <4>1. \A j \in 1 .. k : FALSE
        BY <2>4
      <4>2. QED
        BY <4>1, Zenon DEF Marked
    <3>3. Kept(made[k], k)
      BY <1>3, <2>4, <3>1, <3>2
    <3>4. QED
      BY <2>3, <3>3
  <2>5. CASE k # 0
    <3>1. k - 1 \in 0 .. K /\ ~ (k <= k - 1) /\ k \in 1 .. K
      BY <2>3, <2>5
    <3>2. Kept(made[k - 1], k - 1)
      <4>1. k - 1 \notin Failed
        <5> HIDE DEF Failed
        <5>1. QED
          BY <2>2, <3>1
      <4>2. QED
        BY <3>1, <4>1
    <3>3. K - (k - 1) = (K - k) + 1 /\ K - k \in Nat
      BY <2>3
    <3>4. /\ Expanding(made[k - 1], node, (K - k) + 1)
          /\ made[k - 1].position[Last(made[k - 1].kids[node])] = P + (k - 1)
          /\ Layout(made[k - 1], Root, Root)
          /\ Marked(s, made[k - 1], order, k - 1, P)
      <4>1. K - (k - 1) > 0
        BY <3>3
      <4>2. QED
        BY <3>2, <3>3, <4>1
    <3>5. order[k] \in Names
      BY <3>1
    <3>6. made[k] = WithExpansion(made[k - 1], node, order[k])
      BY <1>3, <2>3, <2>5
    <3> DEFINE rest == K - k
               n == order[k]
               v == made[k - 1]
               q == P + (k - 1)
    <3>7. /\ rest \in Nat /\ n \in Names
          /\ Expanding(v, node, rest + 1)
          /\ made[k] = WithExpansion(v, node, n)
          /\ Layout(v, Root, Root) /\ Marked(s, v, order, k - 1, P)
          /\ v.position[Last(v.kids[node])] = q
      <4>1. Expanding(v, node, rest + 1) /\ rest \in Nat
        BY <3>3, <3>4
      <4>2. QED
        BY <3>4, <3>5, <3>6, <4>1
    <3>14. q + 1 = P + k
      OBVIOUS
    <3>12. q = P + (k - 1) /\ n = order[k] /\ \A j \in 1 .. K : order[j] \in Names
      OBVIOUS
    <3> HIDE DEF rest, n, v, q
    <3>8. /\ Expanding(made[k], node, rest)
          /\ rest > 0 => /\ Last(made[k].kids[node]) = Last(v.kids[node])
                         /\ made[k].position[Last(v.kids[node])]
                              = v.position[Last(v.kids[node])] + 1
      <4> DEFINE x == made[k]
      <4>1. x = WithExpansion(v, node, n)
        BY <3>7
      <4> HIDE DEF x
      <4>2. /\ Expanding(x, node, rest)
            /\ rest > 0 => /\ Last(x.kids[node]) = Last(v.kids[node])
                           /\ x.position[Last(v.kids[node])]
                                = v.position[Last(v.kids[node])] + 1
        BY <3>7, <4>1, ExpansionKeeps
      <4>3. QED
        BY <4>2 DEF x
    <3>11. Layout(made[k], Root, Root) /\ Marking(v, made[k], n, q)
      <4> DEFINE x == made[k]
      <4>1. x = WithExpansion(v, node, n)
        BY <3>7
      <4> HIDE DEF x
      <4>2. /\ Layout(x, Root, Root)
            /\ Marking(v, x, n, v.position[Last(v.kids[node])])
        BY <3>7, <4>1, ExpansionLayout
      <4>3. QED
        BY <3>7, <4>2 DEF x
    <3>13. Marked(s, made[k], order, k, P)
      BY <3>1, <3>7, <3>11, <3>12, MarkedNext
    <3>9. Kept(made[k], k)
      BY <3>7, <3>8, <3>11, <3>13, <3>14 DEF rest
    <3>10. QED
      BY <2>3, <3>9
  <2>6. QED
    BY <2>4, <2>5
<1>5. Kept(made[K], K)
  <2>1. K \in 0 .. K
    OBVIOUS
  <2>2. QED
    BY <1>4, <2>1
<1>6. QED
  BY <1>3, <1>5

(* So they are if what came before keeps every label where it points.        *)
LEMMA MarkedBehind ==
  ASSUME NEW s, NEW w, NEW u, NEW order, NEW k, NEW P,
         Keeping(s, w), Marked(w, u, order, k, P)
  PROVE  Marked(s, u, order, k, P)
<1>1. ASSUME NEW x \in Names, \A j \in 1 .. k : order[j] # x
      PROVE  /\ u.label[x] = Unset <=> s.label[x] = Unset
             /\ s.label[x] # Unset =>
                  ToFilePos(u, u.label[x]) = ToFilePos(s, s.label[x])
  <2>1. /\ w.label[x] = Unset <=> s.label[x] = Unset
        /\ s.label[x] # Unset =>
             ToFilePos(w, w.label[x]) = ToFilePos(s, s.label[x])
    BY DEF Keeping, Pointing
  <2>2. /\ u.label[x] = Unset <=> w.label[x] = Unset
        /\ w.label[x] # Unset =>
             ToFilePos(u, u.label[x]) = ToFilePos(w, w.label[x])
    BY <1>1 DEF Marked
  <2>3. QED
    BY <2>1, <2>2
<1>2. QED
  BY <1>1 DEF Keeping, Marked

(* Some labels that were not set, and at least one, are made to point to a   *)
(* unit and to those that follow it.                                         *)
RowMarked(s, u) ==
  \E N \in SUBSET {n \in Names : s.label[n] = Unset}, p \in 0 .. Size :
    N # {} /\ Marked(s, u, SetToSeq(N), Cardinality(N), p)

(* ExpansionsItem::CreateAndInsert, unless there are no expansions.          *)
LEMMA CreateExpansionsLayout ==
  ASSUME Parsing(t), Layout(t, Root, Root), CreateExpansions,
         "empty" \notin Odd
  PROVE  Layout(t', Root, Root) /\ RowMarked(t, t')
<1> DEFINE node == Fresh(t)
           made(r, pos) == Split(t, r, pos, 0, "node")
           full(r, pos, K) == MoveNextToChild(made(r, pos), node, K)
<1>1. PICK N \in SUBSET {n \in Names : t.label[n] = Unset} :
        \E r \in Raws :
          /\ (N # {} \/ "empty" \in Odd) /\ Room(3 + Cardinality(N))
          /\ \E pos \in Cuts(r, Cardinality(N)) :
               t' = WithExpansions(full(r, pos, Cardinality(N)), node, SetToSeq(N))
  BY DEF CreateExpansions
<1>2. PICK r \in Raws :
        /\ (N # {} \/ "empty" \in Odd) /\ Room(3 + Cardinality(N))
        /\ \E pos \in Cuts(r, Cardinality(N)) :
             t' = WithExpansions(full(r, pos, Cardinality(N)), node, SetToSeq(N))
  BY <1>1
<1> DEFINE K == Cardinality(N)
           order == SetToSeq(N)
<1>3. PICK pos \in Cuts(r, K) : t' = WithExpansions(full(r, pos, K), node, order)
  BY <1>2
<1> DEFINE u == made(r, pos)
           w == full(r, pos, K)
<1>4. /\ K \in Nat /\ (N # {} => K > 0)
      /\ order \in Seq(Names) /\ Len(order) = K
      /\ \A j, m \in 1 .. K : order[j] = order[m] => j = m
  <2>1. N \in SUBSET Names
    OBVIOUS
  <2>2. QED
    BY <2>1, OrderOf
<1>5. Good(t) /\ Cardinality(Free(t)) >= 3 + K /\ r \in RawsOf(t)
      /\ N # {}
  BY <1>2 DEF Parsing, Room, Raws, RawsOf
<1> HIDE DEF K, order
<1>6. pos \in Nat /\ pos + K <= Len(t.own[r]) /\ pos < Len(t.own[r])
      /\ Len(t.own[r]) \in Nat
  <2>1. Len(t.own[r]) \in Nat
    BY <1>5 DEF Good, Whole, Shaped, RawsOf
  <2> DEFINE L == Len(t.own[r])
  <2>2. pos \in 0 .. L - 1 /\ pos + K <= L
    BY DEF Cuts
  <2>3. L \in Nat
    BY <2>1
  <2> HIDE DEF L
  <2>4. pos \in Nat /\ pos < L /\ pos + K <= L
    BY <2>2, <2>3
  <2>5. QED
    BY <2>1, <2>4 DEF L
<1>7. /\ Free(t) # {} /\ Free(t) \ {node} # {}
      /\ \A f : Cardinality((Free(t) \ {node}) \ {f}) >= 1 + K
  <2>1. Free(t) \subseteq Items /\ Free(t) \ {node} \subseteq Items
    BY DEF Free
  <2>2. /\ 3 + K \in Nat /\ 3 + K > 0 /\ 3 + K > 1 /\ (3 + K) - 1 = 2 + K
        /\ 2 + K \in Nat /\ 2 + K > 0 /\ (2 + K) - 1 = 1 + K
    BY <1>4
  <2>3. /\ Free(t) # {} /\ Free(t) \ {node} # {}
        /\ Cardinality(Free(t) \ {node}) >= (3 + K) - 1
    BY <1>5, <2>1, <2>2, Spared, Zenon
  <2>4. Cardinality(Free(t) \ {node}) >= 2 + K
    BY <2>2, <2>3
  <2>5. \A f : Cardinality((Free(t) \ {node}) \ {f}) >= (2 + K) - 1
    BY <2>1, <2>2, <2>4, Spared, Zenon
  <2>6. QED
    BY <2>2, <2>3, <2>5
<1>8. Cutable(t, r, pos, 0)
  <2> DEFINE L == Len(t.own[r])
  <2>1. pos \in Nat /\ L \in Nat /\ pos < L
    BY <1>6
  <2> HIDE DEF L
  <2>2. pos + 0 <= L /\ L > 0
    BY <2>1
  <2>3. QED
    BY <1>5, <1>6, <1>7, <2>2 DEF Cutable, L
<1>9. "node" # "free" /\ "node" # "raw" /\ "node" # "eof"
  OBVIOUS
<1>10. PICK p \in Lists, k \in Nat, f \in Nat :
         Splitting(t, u, p, k, r, pos, 0, node, f, "node")
  BY <1>5, <1>8, <1>9, SplitAny
<1> HIDE DEF made, full, node
<1>11. Good(u)
  BY <1>5, <1>9, <1>10, SplitGood
<1> DEFINE b == IF pos = 0 THEN r ELSE f
           c == Fresh(u)
<1>12. Layout(u, b, node)
  BY <1>5, <1>6, <1>9, <1>10, SplitLayout
<1>13. Cardinality(Free(u)) >= 1 + K /\ Free(u) \subseteq Items
  <2>1. Free(u) \subseteq Items
    BY DEF Free
  <2>2. Free(t) \ {node, f} \subseteq Free(u)
    BY <1>5, <1>10, SplitPlaces
  <2> DEFINE S == (Free(t) \ {node}) \ {f}
  <2>3. 1 + K \in Nat
    BY <1>4
  <2>4. S \subseteq Free(u)
    BY <2>2
  <2>5. Cardinality(S) >= 1 + K
    BY <1>7
  <2> HIDE DEF S
  <2>6. QED
    BY <2>1, <2>3, <2>4, <2>5, Left
<1>14. Free(u) # {} /\ Cardinality(Free(u) \ {c}) >= K
  <2>1. 1 + K \in Nat /\ 1 + K > 0 /\ (1 + K) - 1 = K
    BY <1>4
  <2>2. Free(u) # {} /\ Cardinality(Free(u) \ {c}) >= (1 + K) - 1
    <3> HIDE DEF c
    <3>1. QED
      BY <1>13, <2>1, Spared, Zenon
  <2>3. QED
    BY <2>1, <2>2
<1> HIDE DEF b, u
<1>15. /\ \E l : Nestable(u, node, p, l, b, K)
       /\ Taken(u, b) /\ \A n \in LabelsOf(u, b) : u.label[n].offset # 0
  BY <1>4, <1>5, <1>6, <1>10, <1>14, EmptyNodeMade DEF b
<1>16. PICK l : Nestable(u, node, p, l, b, K)
  BY <1>15
<1>17. w = MoveNextToChild(u, node, K)
  BY DEF full, u
<1> HIDE DEF w, c
<1>18. Nesting(u, w, node, c, K) /\ Layout(w, Root, Root) /\ Keeping(u, w)
  <2>1. K > 0
    BY <1>4, <1>5
  <2>2. Nesting(u, w, node, c, K)
    BY <1>15, <1>16, <1>17, <2>1, Nested DEF c
  <2>3. Layout(w, Root, Root) /\ Keeping(u, w)
    BY <1>12, <1>15, <1>16, <1>17, <2>1, NestedLayout
  <2>4. QED
    BY <2>2, <2>3
<1>19. Expanding(w, node, K)
  <2>1. Good(w) /\ w.kids[node] = <<c>> /\ c \in RawsOf(w)
        /\ Len(w.own[c]) = K /\ Free(u) \ {c} \subseteq Free(w)
    BY <1>18 DEF Nesting
  <2>2. Len(w.kids[node]) > 0 /\ Last(w.kids[node]) = c
    BY <2>1 DEF Last
  <2>3. Cardinality(Free(w)) >= K
    <3>1. Free(w) \subseteq Items
      BY DEF Free
    <3> DEFINE S == Free(u) \ {c}
    <3>2. S \subseteq Free(w) /\ Cardinality(S) >= K
      BY <1>14, <2>1
    <3> HIDE DEF S
    <3>3. QED
      BY <1>4, <3>1, <3>2, Left
  <2>4. node \in Items
    BY <1>16 DEF Nestable
  <2>5. QED
    BY <1>4, <2>1, <2>2, <2>3, <2>4 DEF Expanding
<1>20. t' = WithExpansions(w, node, order)
  BY <1>3 DEF w
<1> DEFINE at == w.position[Last(w.kids[node])]
<1>21. at \in Nat /\ at \in 0 .. Size
  <2>1. /\ Good(w) /\ w.kids[node] = <<c>> /\ c \in RawsOf(w)
        /\ Len(w.own[c]) = K
    BY <1>18 DEF Nesting
  <2>2. Last(w.kids[node]) = c
    BY <2>1 DEF Last
  <2>3. w.position[c] \in Nat
    BY <2>1 DEF Good, Regular, RawsOf
  <2>4. EndOf(w, c) \in 0 .. Size
    BY <2>1 DEF Good, Regular, Whole, Shaped
  <2>5. w.position[c] + K \in 0 .. Size
    BY <2>1, <2>4 DEF EndOf
  <2> HIDE DEF at
  <2>6. w.position[c] \in 0 .. Size
    BY <1>4, <2>3, <2>5, ItemTreeAssumption
  <2>7. QED
    BY <2>2, <2>3, <2>6 DEF at
<1>22. Layout(t', Root, Root) /\ Marked(w, t', order, K, at)
  <2> DEFINE x == t'
  <2>1. x = WithExpansions(w, node, order)
    BY <1>20
  <2> HIDE DEF x
  <2>2. at = w.position[Last(w.kids[node])]
    OBVIOUS
  <2> HIDE DEF at
  <2>3. Layout(x, Root, Root) /\ Marked(w, x, order, K, at)
    BY <1>4, <1>18, <1>19, <1>21, <2>1, <2>2, ExpandedLayout
  <2>4. QED
    BY <2>3 DEF x
<1> HIDE DEF at
<1>23. Keeping(t, w)
  <2>1. Keeping(t, u)
    BY <1>5, <1>10, SplitKeeping DEF u
  <2>2. QED
    BY <1>18, <2>1, KeepingOn
<1>24. Marked(t, t', order, K, at)
  BY <1>22, <1>23, MarkedBehind
<1>25. RowMarked(t, t')
  BY <1>5, <1>21, <1>24 DEF RowMarked, order, K
<1>26. QED
  BY <1>22, <1>25

(* File::Parse_: what there is before anything is parsed is laid out: all of *)
(* the file, and the EofItem behind it.                                      *)
LEMMA UnparsedLayout ==
  /\ Layout(Unparsed, Root, Root) /\ Holding(Unparsed, Unit)
  /\ \A n \in Names : Unparsed.label[n] = Unset
<1>1. PICK s, root : SetUp(s, root) /\ Unparsed = Split(s, root, Size, 0, "eof")
  BY UnparsedOf
<1> DEFINE u == Split(s, root, Size, 0, "eof")
           new == Fresh(s)
<1>2. /\ Whole(s, {}) /\ Shaped(s) /\ root \in Items /\ s.kind[root] = "raw"
      /\ Len(s.own[root]) = Size /\ s.position[root] = 0
      /\ DOMAIN s.pmap = {0} /\ s.pmap[0] = root
      /\ \A n \in Names : s.label[n] = Unset
      /\ Free(s) = Items \ {root} /\ Free(s) # {}
      /\ Size \in Nat /\ Size > 0 /\ Size + 0 = Size
  BY <1>1, ItemTreeAssumption DEF SetUp, Whole
<1>3. 1 \in 1 .. Len(s.kids[Root]) /\ s.kids[Root][1] = root /\ Root \in Lists
  <2>1. s.kids[Root] = <<root>>
    BY <1>1 DEF SetUp
  <2>2. QED
    BY <2>1 DEF Lists
<1>4. new \in Items /\ new # root /\ s.kind[new] = "free"
  <2>1. Free(s) \subseteq Nat
    BY <1>2 DEF Free, Items
  <2>2. new \in Free(s)
    BY <1>2, <2>1, Least DEF Fresh
  <2>3. QED
    BY <1>2, <2>2 DEF Free
<1>5. LabelsOf(s, root) = {}
  BY <1>2 DEF LabelsOf
<1>6. \E f \in Nat : /\ f # root /\ f # new
        /\ Cutting(s, u, Root, 1, root,
                   PiecesOf(root, Size, Size + 0, Len(s.own[root]), new, f),
                   new, "eof")
  <2>1. Cuttable(s, root, Size, 0)
    BY <1>2, <1>5 DEF Cuttable
  <2>2. "eof" # "free"
    OBVIOUS
  <2> HIDE DEF u
  <2> DEFINE k == 1
  <2>3. k \in 1 .. Len(s.kids[Root]) /\ root = s.kids[Root][k]
    BY <1>3
  <2> HIDE DEF k
  <2>4. \E f \in Nat : /\ f # root /\ f # new
          /\ Cutting(s, Split(s, root, Size, 0, "eof"), Root, k, root,
                     PiecesOf(root, Size, Size + 0, Len(s.own[root]), new, f),
                     new, "eof")
    BY <1>3, <2>1, <2>2, <2>3, SplitCuts
  <2>5. QED
    BY <2>4 DEF k, u
<1> HIDE DEF u, new
<1>7. PICK f \in Nat :
        Cutting(s, u, Root, 1, root,
                PiecesOf(root, Size, Size + 0, Len(s.own[root]), new, f),
                new, "eof")
  BY <1>6
<1> DEFINE seq == PiecesOf(root, Size, Size + 0, Len(s.own[root]), new, f)
<1>8. /\ Len(seq) = 2 /\ seq[1][1] = root /\ seq[2][1] = new
      /\ seq[1][2] = Size /\ seq[2][2] = Size
      /\ StartOf(seq, 1) = 0 /\ StartOf(seq, 2) = Size
  <2>1. seq = << <<root, Size>>, <<new, Size>> >>
    BY <1>2 DEF PiecesOf
  <2> HIDE DEF seq
  <2>2. /\ Len(seq) = 2 /\ seq[1][1] = root /\ seq[2][1] = new
        /\ seq[1][2] = Size /\ seq[2][2] = Size
    BY <2>1
  <2>3. QED
    BY <2>2 DEF StartOf
<1>9. Cutting(s, u, Root, 1, root, seq, new, "eof")
  BY <1>7
<1> HIDE DEF seq
<1>10. /\ 1 \in 1 .. Len(seq) /\ 2 \in 1 .. Len(seq) /\ Len(seq) > 1
       /\ \A m \in 1 .. Len(seq) : m = 1 \/ m = 2
  BY <1>8
<1>11. CutFrom(s, u, Root, 1, root, seq, new, "eof")
  <2>1. EndOf(s, root) <= Size /\ s.position[root] \in Nat
    BY <1>2 DEF EndOf
  <2>2. QED
    BY <1>2, <1>3, <1>9, <2>1 DEF CutFrom
<1>12. Whole(u, {})
  BY <1>11, CutWhole
<1>13. /\ u.kind[root] = "raw" /\ u.kind[new] = "eof"
       /\ Len(u.own[root]) = Size /\ u.position[root] = 0
       /\ u.position[new] = Size
       /\ \A j \in Items : j # root /\ j # new => u.kind[j] = "free"
  <2>0. \A m \in 1 .. Len(seq) :
          /\ u.kind[seq[m][1]] = IF seq[m][1] = new THEN "eof" ELSE "raw"
          /\ Len(u.own[seq[m][1]]) = seq[m][2] - StartOf(seq, m)
          /\ u.position[seq[m][1]] = s.position[root] + StartOf(seq, m)
    BY <1>9 DEF Cutting
  <2>1. /\ u.kind[root] = "raw" /\ Len(u.own[root]) = Size - 0
        /\ u.position[root] = 0 + 0
    <3>1. /\ u.kind[seq[1][1]] = IF seq[1][1] = new THEN "eof" ELSE "raw"
          /\ Len(u.own[seq[1][1]]) = seq[1][2] - StartOf(seq, 1)
          /\ u.position[seq[1][1]] = s.position[root] + StartOf(seq, 1)
      BY <1>10, <2>0
    <3>2. QED
      BY <1>2, <1>4, <1>8, <3>1
  <2>2. u.kind[new] = "eof" /\ u.position[new] = 0 + Size
    BY <1>2, <1>4, <1>8, <1>10, <2>0
  <2>3. ASSUME NEW j \in Items, j # root, j # new PROVE u.kind[j] = "free"
    <3>1. \A m \in 1 .. Len(seq) : seq[m][1] # j
      BY <1>8, <1>10, <2>3
    <3>2. u.kind[j] = s.kind[j]
      BY <1>9, <2>3, <3>1 DEF Cutting
    <3>3. s.kind[j] = "free"
      BY <1>2, <2>3 DEF Free
    <3>4. QED
      BY <3>2, <3>3
  <2>4. QED
    BY <1>2, <2>1, <2>2, <2>3
<1>14. /\ u.kids \in [Lists -> Seq(Items)] /\ Len(u.kids[Root]) = 2
       /\ u.kids[Root][1] = root /\ u.kids[Root][2] = new
       /\ \A j \in Items : u.kids[j] = <<>>
  <2> DEFINE items == PieceItems(seq)
             one == s.kids[Root]
             list == Spliced(one, 1, items)
  <2>1. /\ s.kids \in [Lists -> Seq(Items)] /\ one \in Seq(Items)
        /\ one = <<root>> /\ Root \notin Items
    BY <1>1, <1>2, <1>3 DEF Shaped, SetUp, Items, Root
  <2>2. Len(one) = 1 /\ 1 \in 1 .. Len(one)
    BY <2>1
  <2>3. /\ DOMAIN seq = 1 .. Len(seq)
        /\ \A m \in 1 .. Len(seq) : seq[m][1] \in Items
    BY <1>11, CutLists
  <2>4. items = [m \in 1 .. 2 |-> seq[m][1]] /\ \A m \in 1 .. 2 : seq[m][1] \in Items
    BY <1>8, <2>3 DEF PieceItems
  <2>5. /\ items \in Seq(Items) /\ Len(items) = 2
        /\ items[1] = root /\ items[2] = new
    BY <1>8, <2>4
  <2> HIDE DEF items, one
  <2>6. SpliceOf(list, one, 1, items)
    BY <2>1, <2>2, <2>5, SplicedIs
  <2> HIDE DEF list
  <2>7. Len(list) = 2
    BY <2>2, <2>5, <2>6 DEF SpliceOf
  <2>8. list[1] = items[1] /\ list[2] = items[2]
    <3>1. /\ 1 \in 1 .. 2 /\ 2 \in 1 .. 2 /\ ~ (1 < 1) /\ ~ (2 < 1)
          /\ 1 < 1 + 2 /\ 2 < 1 + 2 /\ (1 - 1) + 1 = 1 /\ (2 - 1) + 1 = 2
      OBVIOUS
    <3>2. \A j \in 1 .. 2 : list[j] =
            IF j < 1 THEN one[j] ELSE IF j < 1 + 2 THEN items[(j - 1) + 1]
            ELSE one[(j - 2) + 1]
      BY <2>5, <2>6, <2>7 DEF SpliceOf
    <3>3. QED
      BY <3>1, <3>2
  <2>9. /\ u.kids \in [Lists -> Seq(Items)] /\ u.kids[Root] = list
        /\ \A j \in Lists : j # Root => u.kids[j] = s.kids[j]
    BY <1>3, <1>9 DEF Cutting, Typed, list, one, items
  <2>10. ASSUME NEW j \in Items PROVE u.kids[j] = <<>>
    <3>1. j \in Lists /\ j # Root
      BY <2>1 DEF Lists
    <3>2. u.kind[j] \in Childless
      BY <1>13 DEF Childless
    <3>3. QED
      BY <1>12, <3>2 DEF Whole, Owned
  <2>11. QED
    BY <2>5, <2>7, <2>8, <2>9, <2>10
<1>15. u.own[new] = <<>>
  <2>1. Len(u.own[new]) = Size - Size /\ u.own[new] \in Seq(Nat)
    <3>1. /\ u.own \in [Items -> Seq(Nat)]
          /\ \A m \in 1 .. Len(seq) :
               Len(u.own[seq[m][1]]) = seq[m][2] - StartOf(seq, m)
      BY <1>9 DEF Cutting, Typed
    <3>2. QED
      BY <1>4, <1>8, <1>10, <3>1
  <2>2. Len(u.own[new]) = 0
    BY <1>2, <2>1
  <2>3. QED
    BY <2>1, <2>2
<1> DEFINE end == [j \in Lists |-> Size]
           depth == [j \in Lists |-> IF j = Root THEN 0 ELSE 1]
<1>16. /\ end \in [Lists -> Nat] /\ \A j \in Lists : end[j] = Size
       /\ depth \in [Lists -> Nat] /\ depth[Root] = 0
       /\ \A j \in Items : depth[j] = 1
  BY <1>2, <1>3 DEF Lists, Items, Root
<1>17. root \in Lists /\ new \in Lists /\ Root \notin Items
  BY <1>2, <1>4 DEF Lists, Items, Root
<1> HIDE DEF end, depth
<1>18. LaidOut(u, end)
  <2>1. ASSUME NEW q \in Live(u), q # Root
        PROVE  Row(u.kids[q], u.position, end, Inner(u, q), end[q])
    <3>1. q \in Items /\ (q = root \/ q = new) /\ q \in Lists
      BY <1>13, <2>1 DEF Live, Lists
    <3>2. u.kids[q] = <<>> /\ end[q] = Size
      BY <1>14, <1>16, <3>1
    <3>3. Inner(u, q) = Size
      <4>1. CASE q = root
        BY <1>2, <1>13, <2>1, <4>1 DEF Inner
      <4>2. CASE q = new
        <5> DEFINE none == <<>>
        <5>1. u.own[new] = none /\ Len(none) = 0
          BY <1>15
        <5> HIDE DEF none
        <5>2. QED
          BY <1>2, <1>13, <2>1, <4>2, <5>1 DEF Inner
      <4>3. QED
        BY <3>1, <4>1, <4>2
    <3>4. QED
      BY <3>2, <3>3, RowOfNone
  <2>2. Row(u.kids[Root], u.position, end, Inner(u, Root), end[Root])
    <3> DEFINE list == u.kids[Root]
    <3>1. Inner(u, Root) = 0 /\ end[Root] = Size /\ end[root] = Size /\ end[new] = Size
      BY <1>3, <1>16, <1>17 DEF Inner
    <3>2. Len(list) = 2 /\ list[1] = root /\ list[2] = new
      BY <1>14
    <3> HIDE DEF list
    <3>3. /\ Mark(list, end, 0, 1) = 0 /\ Mark(list, end, 0, 2) = Size
          /\ Mark(list, end, 0, 2 + 1) = Size
      BY <3>1, <3>2 DEF Mark
    <3>4. \A k \in 1 .. 2 : k = 1 \/ k = 2
      OBVIOUS
    <3>5. Row(list, u.position, end, 0, Size)
      BY <1>13, <3>2, <3>3, <3>4 DEF Row
    <3>6. QED
      BY <3>1, <3>5 DEF list
  <2>3. QED
    BY <1>3, <1>16, <2>1, <2>2 DEF LaidOut
<1>19. Bulky(u, end, Root)
  <2> SUFFICES ASSUME NEW i \in Items, u.kind[i] # "free"
               PROVE  u.position[i] < end[i] \/ u.position[i] = Size
    BY DEF Bulky
  <2>1. i \in Lists /\ (i = root \/ i = new)
    BY <1>13 DEF Lists
  <2>2. end[i] = Size
    BY <1>16, <2>1
  <2>3. QED
    BY <1>2, <1>13, <2>1, <2>2
<1>20. Layered(u, depth)
  <2> SUFFICES ASSUME NEW p \in Lists, NEW k \in 1 .. Len(u.kids[p])
               PROVE  depth[p] < depth[u.kids[p][k]]
    BY <1>16 DEF Layered
  <2>1. p = Root
    BY <1>14 DEF Lists
  <2>2. k = 1 \/ k = 2
    <3>1. Len(u.kids[p]) = 2
      BY <1>14, <2>1
    <3> DEFINE n == Len(u.kids[p])
    <3>2. k \in 1 .. n /\ n = 2
      BY <3>1
    <3> HIDE DEF n
    <3>3. QED
      BY <3>2
  <2>3. depth[p] = 0 /\ depth[u.kids[p][k]] = 1
    BY <1>2, <1>4, <1>14, <1>16, <2>1, <2>2
  <2>4. QED
    BY <2>3
<1>21. Indexed(u, Root)
  <2> SUFFICES ASSUME NEW p \in Lists, NEW k \in 1 .. Len(u.kids[p]), k # 1
               PROVE  Found(u, u.kids[p][k])
    BY DEF Indexed
  <2>1. p = Root
    BY <1>14 DEF Lists
  <2>2. k = 2
    <3> DEFINE n == Len(u.kids[p])
    <3>1. k \in 1 .. n /\ n = 2
      BY <1>14, <2>1
    <3> HIDE DEF n
    <3>2. QED
      BY <3>1
  <2>3. u.kids[p][k] = new
    BY <1>14, <2>1, <2>2
  <2>4. Remapping(s, u, root, seq)
    BY <1>9 DEF Cutting
  <2>5. s.position[root] + StartOf(seq, 2) = Size
    BY <1>2, <1>8
  <2>6. Size \in DOMAIN u.pmap
    <3>1. Size \in Started(seq, s.position[root])
      <4>1. s.position[root] + StartOf(seq, 2) \in Started(seq, s.position[root])
        BY <1>10 DEF Started
      <4>2. QED
        BY <2>5, <4>1
    <3>2. Started(seq, s.position[root]) \subseteq DOMAIN u.pmap
      BY <1>10, <2>4 DEF Remapping
    <3>3. QED
      BY <3>1, <3>2
  <2>7. u.pmap[Size] = new
    <3>1. \A q \in DOMAIN u.pmap : \E m \in 1 .. Len(seq) :
            First(seq, s.position[root], q, m) /\ u.pmap[q] = seq[m][1]
      BY <1>2, <2>4 DEF Remapping
    <3>2. PICK l \in 1 .. Len(seq) :
            First(seq, s.position[root], Size, l) /\ u.pmap[Size] = seq[l][1]
      BY <2>6, <3>1
    <3>3. s.position[root] + StartOf(seq, l) = Size
      BY <3>2 DEF First
    <3>4. l = 2
      BY <1>2, <1>8, <1>10, <3>3
    <3>5. QED
      BY <1>8, <3>2, <3>4
  <2>8. QED
    BY <1>13, <2>3, <2>6, <2>7 DEF Found
<1>22. EofEmpty(u)
  <2> SUFFICES ASSUME NEW i \in Items, u.kind[i] = "eof" PROVE u.own[i] = <<>>
    BY DEF EofEmpty
  <2>1. i = new
    BY <1>13
  <2>2. QED
    BY <1>15, <2>1
<1>24. Holding(u, Unit)
  <2> SUFFICES ASSUME NEW j \in Items, u.kind[j] # "free"
               PROVE  Shows(u.own[j], Unit, u.position[j])
    BY DEF Holding
  <2>1. CASE j = root
    <3>1. Excerpt(u.own[root], s.own[root], 0)
      <4>1. Excerpt(u.own[seq[1][1]], s.own[root], StartOf(seq, 1))
        BY <1>9, <1>10 DEF Cutting
      <4>2. QED
        BY <1>8, <4>1
    <3>2. \A k \in 1 .. Size : s.own[root][k] = k - 1
      BY <1>1 DEF SetUp
    <3>3. ASSUME NEW k \in 1 .. Size PROVE u.own[root][k] = Unit[0 + (k - 1)]
      <4>1. 0 + k = k /\ k \in 1 .. Size /\ k - 1 \in Nat /\ 0 + (k - 1) = k - 1
        BY <1>2
      <4>2. u.own[root][0 + k] = s.own[root][0 + k]
        BY <1>13, <3>1, <4>1 DEF Excerpt
      <4>3. QED
        BY <3>2, <4>1, <4>2 DEF Unit
    <3>4. QED
      BY <1>13, <2>1, <3>3 DEF Shows
  <2>2. CASE j # root
    <3>1. j = new /\ Len(u.own[j]) = 0
      BY <1>13, <1>15, <2>2
    <3>2. QED
      BY <3>1 DEF Shows
  <2>3. QED
    BY <2>1, <2>2
<1>25. ASSUME NEW n \in Names PROVE u.label[n] = Unset
  <2>1. Relabelling(s, u, root, seq)
    BY <1>9 DEF Cutting
  <2>2. u.label[n] = s.label[n]
    BY <1>5, <2>1 DEF Relabelling
  <2>3. QED
    BY <1>2, <2>2
<1>23. Layout(u, Root, Root)
  <2>1. Held(u, end)
    BY <1>25 DEF Held
  <2>2. QED
    BY <1>18, <1>19, <1>20, <1>21, <1>22, <2>1 DEF Layout
<1>26. QED
  BY <1>1, <1>23, <1>24, <1>25 DEF u

-----------------------------------------------------------------------------
(* What a dump writes *)

(* `first`, and behind it, up to the k-th, what `all` has for the list. *)
Gathered(list, first, all) ==
  LET upto[k \in 0 .. Len(list)] ==
        IF k = 0 THEN first ELSE upto[k - 1] \o all[list[k]]
  IN upto

Joins(upto, m, list, first, all) ==
  upto = [k \in 0 .. m |->
            IF k = 0 THEN first ELSE upto[k - 1] \o all[list[k]]]

(* Such a function exists.                                                   *)
LEMMA JoinsExists ==
  ASSUME NEW list, NEW first, NEW all, Len(list) \in Nat
  PROVE  \E upto : Joins(upto, Len(list), list, first, all)
<1> DEFINE K == Len(list)
           Missing == {m \in 0 .. K : ~ \E g : Joins(g, m, list, first, all)}
<1>0. K \in Nat
  OBVIOUS
<1> HIDE DEF K
<1>1. ASSUME Missing # {} PROVE FALSE
  <2>1. Missing \subseteq Nat
    BY <1>0
  <2>2. Min(Missing) \in Missing /\ \A m \in Missing : Min(Missing) <= m
    <3> HIDE DEF Missing
    <3>1. QED
      BY <1>1, <2>1, Least
  <2>3. PICK m \in Missing : \A j \in Missing : m <= j
    <3> HIDE DEF Missing
    <3>1. QED
      BY <2>2
  <2>4. m \in 0 .. K /\ ~ \E g : Joins(g, m, list, first, all)
    BY <2>3
  <2>5. CASE m = 0
    <3> DEFINE g == [k \in 0 .. m |-> first]
    <3>1. g = [k \in 0 .. m |->
                 IF k = 0 THEN first ELSE g[k - 1] \o all[list[k]]]
      BY <2>5
    <3> HIDE DEF g
    <3>2. Joins(g, m, list, first, all)
      BY <3>1 DEF Joins
    <3>3. QED
      BY <2>4, <3>2
  <2>6. CASE m # 0
    <3>1. m - 1 \in 0 .. K /\ m - 1 \notin Missing
      <4> HIDE DEF Missing
      <4>1. m - 1 \in 0 .. K /\ ~ (m <= m - 1)
        BY <1>0, <2>4, <2>6
      <4>2. QED
        BY <2>3, <4>1
    <3>2. PICK g : Joins(g, m - 1, list, first, all)
      BY <3>1
    <3>a. g = [k \in 0 .. m - 1 |->
                 IF k = 0 THEN first ELSE g[k - 1] \o all[list[k]]]
      BY <3>2 DEF Joins
    <3> DEFINE last == g[m - 1] \o all[list[m]]
               h == [k \in 0 .. m |-> IF k < m THEN g[k] ELSE last]
    <3> HIDE DEF last
    <3>3. ASSUME NEW k \in 0 .. m
          PROVE  h[k] = IF k = 0 THEN first ELSE h[k - 1] \o all[list[k]]
      <4>1. CASE k = m
        <5>1. h[k] = last /\ k # 0
          BY <2>6, <4>1
        <5>2. h[k - 1] = g[m - 1]
          <6>1. k - 1 \in 0 .. m /\ k - 1 < m /\ k - 1 = m - 1
            BY <1>0, <2>4, <2>6, <4>1
          <6>2. QED
            BY <6>1
        <5> HIDE DEF h
        <5>3. QED
          BY <4>1, <5>1, <5>2 DEF last
      <4>2. CASE k # m
        <5>1. k < m /\ k \in 0 .. m - 1
          BY <1>0, <2>4, <4>2
        <5>2. h[k] = g[k]
          BY <5>1
        <5>3. g[k] = IF k = 0 THEN first ELSE g[k - 1] \o all[list[k]]
          BY <3>a, <5>1
        <5>4. k # 0 => h[k - 1] = g[k - 1]
          <6>1. k # 0 => k - 1 \in 0 .. m /\ k - 1 < m
            BY <1>0, <2>4, <5>1
          <6>2. QED
            BY <6>1
        <5> HIDE DEF h
        <5>5. QED
          BY <5>2, <5>3, <5>4
      <4>3. QED
        BY <4>1, <4>2
    <3>4. h = [k \in 0 .. m |-> h[k]]
      OBVIOUS
    <3> HIDE DEF h
    <3>5. Joins(h, m, list, first, all)
      BY <3>3, <3>4 DEF Joins
    <3>6. QED
      BY <2>4, <3>5
  <2>7. QED
    BY <2>5, <2>6
<1>2. K \in 0 .. K
  BY <1>0
<1>3. \E g : Joins(g, K, list, first, all)
  BY <1>1, <1>2
<1>4. QED
  BY <1>3 DEF K

Grows(upto, list, first, all) ==
  /\ upto[0] = first
  /\ \A k \in 1 .. Len(list) : upto[k] = upto[k - 1] \o all[list[k]]

(* How it goes on.                                                           *)
LEMMA GatheredIs ==
  ASSUME NEW list, NEW first, NEW all, Len(list) \in Nat
  PROVE  Grows(Gathered(list, first, all), list, first, all)
<1> DEFINE upto == CHOOSE upto : upto = [k \in 0 .. Len(list) |->
                     IF k = 0 THEN first ELSE upto[k - 1] \o all[list[k]]]
<1>1. \E g : g = [k \in 0 .. Len(list) |->
               IF k = 0 THEN first ELSE g[k - 1] \o all[list[k]]]
  <2>1. \E g : Joins(g, Len(list), list, first, all)
    BY JoinsExists
  <2>2. QED
    BY <2>1, Zenon DEF Joins
<1>2. upto = [k \in 0 .. Len(list) |->
                IF k = 0 THEN first ELSE upto[k - 1] \o all[list[k]]]
  BY <1>1, ZenonT(30)
<1>3. Gathered(list, first, all) = upto
  BY Zenon DEF Gathered
<1> HIDE DEF upto
<1> DEFINE n == Len(list)
<1>4. n \in Nat /\ upto = [k \in 0 .. n |->
                IF k = 0 THEN first ELSE upto[k - 1] \o all[list[k]]]
  BY <1>2
<1> HIDE DEF n
<1>5. 0 \in 0 .. n /\ \A k \in 1 .. n : k \in 0 .. n /\ k # 0
  BY <1>4
<1>6. \A k \in 0 .. n :
        upto[k] = IF k = 0 THEN first ELSE upto[k - 1] \o all[list[k]]
  BY <1>4
<1>7. upto[0] = first
  BY <1>5, <1>6
<1>8. \A k \in 1 .. n : upto[k] = upto[k - 1] \o all[list[k]]
  BY <1>5, <1>6
<1>9. QED
  BY <1>3, <1>7, <1>8 DEF Grows, n

Agreeing(list, all, all2) ==
  \A k \in 1 .. Len(list) : all[list[k]] = all2[list[k]]

(* Only what `all` has for the list matters.                                 *)
LEMMA GatheredSame ==
  ASSUME NEW list, NEW first, NEW all, NEW all2, Len(list) \in Nat,
         Agreeing(list, all, all2)
  PROVE  Gathered(list, first, all)[Len(list)] = Gathered(list, first, all2)[Len(list)]
<1> DEFINE a == Gathered(list, first, all)
           b == Gathered(list, first, all2)
           n == Len(list)
           Failed == {k \in 0 .. n : a[k] # b[k]}
<1>a. Grows(a, list, first, all) /\ Grows(b, list, first, all2)
  BY GatheredIs
<1> HIDE DEF a, b
<1>1. a[0] = first /\ \A k \in 1 .. n : a[k] = a[k - 1] \o all[list[k]]
  BY <1>a DEF Grows
<1>2. b[0] = first /\ \A k \in 1 .. n : b[k] = b[k - 1] \o all2[list[k]]
  BY <1>a DEF Grows
<1>3. n \in Nat /\ \A k \in 1 .. n : all[list[k]] = all2[list[k]]
  BY DEF Agreeing
<1> HIDE DEF n
<1>4. ASSUME Failed # {} PROVE FALSE
  <2>1. Failed \subseteq Nat
    BY <1>3
  <2>2. PICK k \in Failed : \A j \in Failed : k <= j
    <3> HIDE DEF Failed
    <3>1. Min(Failed) \in Failed /\ \A j \in Failed : Min(Failed) <= j
      BY <1>4, <2>1, Least
    <3>2. QED
      BY <3>1
  <2>3. k \in 0 .. n /\ a[k] # b[k]
    BY <2>2
  <2>4. k # 0
    BY <1>1, <1>2, <2>3
  <2>5. k \in 1 .. n /\ k - 1 \in 0 .. n /\ ~ (k <= k - 1)
    BY <1>3, <2>3, <2>4
  <2>6. a[k - 1] = b[k - 1]
    BY <2>2, <2>5
  <2> HIDE DEF Failed
  <2>7. QED
    BY <1>1, <1>2, <1>3, <2>3, <2>5, <2>6
<1>5. n \in 0 .. n
  BY <1>3
<1>6. QED
  BY <1>4, <1>5 DEF a, b, n

(* No item is deeper than some bound.                                        *)
LEMMA DepthBounded ==
  ASSUME NEW s, NEW depth, Layered(s, depth)
  PROVE  \E b \in Nat : \A i \in Lists : depth[i] <= b
<1> DEFINE Failed == {n \in 0 .. MaxItems :
                        ~ \E b \in Nat : \A i \in 0 .. n : depth[i] <= b}
<1>1. MaxItems \in Nat /\ Lists = 0 .. MaxItems
  BY ItemTreeAssumption DEF Lists, Root, Items
<1>2. \A i \in 0 .. MaxItems : depth[i] \in Nat
  BY <1>1 DEF Layered
<1>3. ASSUME Failed # {} PROVE FALSE
  <2>1. Failed \subseteq Nat
    BY <1>1
  <2>2. PICK n \in Failed : \A j \in Failed : n <= j
    <3> HIDE DEF Failed
    <3>1. Min(Failed) \in Failed /\ \A j \in Failed : Min(Failed) <= j
      BY <1>3, <2>1, Least
    <3>2. QED
      BY <3>1
  <2>3. n \in 0 .. MaxItems /\ ~ \E b \in Nat : \A i \in 0 .. n : depth[i] <= b
    BY <2>2
  <2>4. CASE n = 0
    <3>1. \A i \in 0 .. n : i = 0
      BY <2>4
    <3>2. depth[0] \in Nat /\ depth[0] <= depth[0]
      <4>1. 0 \in 0 .. MaxItems
        BY <1>1
      <4>2. QED
        BY <1>2, <4>1
    <3>3. \A i \in 0 .. n : depth[i] <= depth[0]
      BY <3>1, <3>2
    <3>4. QED
      BY <2>3, <3>2, <3>3
  <2>5. CASE n # 0
    <3>1. n - 1 \in 0 .. MaxItems /\ ~ (n <= n - 1)
      BY <1>1, <2>3, <2>5
    <3>2. n - 1 \notin Failed
      <4> HIDE DEF Failed
      <4>1. QED
        BY <2>2, <3>1
    <3>3. PICK b \in Nat : \A i \in 0 .. n - 1 : depth[i] <= b
      BY <3>1, <3>2
    <3> DEFINE c == b + depth[n]
    <3>4. c \in Nat /\ b <= c /\ depth[n] <= c
      BY <1>2, <2>3
    <3> HIDE DEF c
    <3>5. ASSUME NEW i \in 0 .. n PROVE depth[i] <= c
      <4>1. CASE i = n
        BY <3>4, <4>1
      <4>2. CASE i # n
        <5>1. i \in 0 .. n - 1 /\ i \in 0 .. MaxItems
          BY <1>1, <2>3, <4>2
        <5>2. depth[i] <= b /\ depth[i] \in Nat
          BY <1>2, <3>3, <5>1
        <5>3. QED
          BY <3>4, <5>2
      <4>3. QED
        BY <4>1, <4>2
    <3>6. QED
      BY <2>3, <3>4, <3>5
  <2>6. QED
    BY <2>4, <2>5
<1>4. MaxItems \in 0 .. MaxItems
  BY <1>1
<1>5. \E b \in Nat : \A i \in 0 .. MaxItems : depth[i] <= b
  BY <1>3, <1>4
<1>6. QED
  BY <1>1, <1>5

(* Of some items, one has no child that is one of them.                      *)
LEMMA Deepest ==
  ASSUME NEW s, NEW depth, Layered(s, depth), NEW B, B \subseteq Lists, B # {}
  PROVE  \E i \in B : \A k \in 1 .. Len(s.kids[i]) : s.kids[i][k] \notin B
<1> DEFINE D == {depth[i] : i \in B}
<1>1. depth \in [Lists -> Nat]
  BY DEF Layered
<1>2. PICK b \in Nat : \A i \in Lists : depth[i] <= b
  BY DepthBounded
<1>3. D \subseteq Nat /\ D # {} /\ \A d \in D : d <= b
  BY <1>1, <1>2
<1>4. Max(D) \in D /\ \A d \in D : d <= Max(D)
  <2> HIDE DEF D
  <2>1. QED
    BY <1>3, Greatest
<1>5. PICK i \in B : depth[i] = Max(D)
  BY <1>4
<1>6. \A j \in B : depth[j] <= depth[i]
  BY <1>4, <1>5
<1>7. ASSUME NEW k \in 1 .. Len(s.kids[i]), s.kids[i][k] \in B PROVE FALSE
  <2>1. depth[i] < depth[s.kids[i][k]] /\ depth[s.kids[i][k]] <= depth[i]
    BY <1>6, <1>7 DEF Layered
  <2>2. depth[i] \in Nat /\ depth[s.kids[i][k]] \in Nat
    BY <1>1, <1>7
  <2>3. QED
    BY <2>1, <2>2
<1>8. QED
  BY <1>7

(* Item i is no child of those in B. *)
Foremost(s, B, i) ==
  \A p \in B : \A k \in 1 .. Len(s.kids[p]) : s.kids[p][k] # i

(* And one is no child of any.                                               *)
LEMMA Shallowest ==
  ASSUME NEW s, NEW depth, Layered(s, depth), NEW B, B \subseteq Lists, B # {}
  PROVE  \E i \in B : Foremost(s, B, i)
<1> DEFINE D == {depth[i] : i \in B}
<1>1. depth \in [Lists -> Nat]
  BY DEF Layered
<1>2. D \subseteq Nat /\ D # {}
  BY <1>1
<1>3. Min(D) \in D /\ \A d \in D : Min(D) <= d
  <2> HIDE DEF D
  <2>1. QED
    BY <1>2, Least
<1>4. PICK i \in B : depth[i] = Min(D)
  BY <1>3
<1>5. \A j \in B : depth[i] <= depth[j]
  BY <1>3, <1>4
<1>6. ASSUME NEW p \in B, NEW k \in 1 .. Len(s.kids[p]), s.kids[p][k] = i
      PROVE  FALSE
  <2>1. depth[p] < depth[i] /\ depth[i] <= depth[p]
    BY <1>5, <1>6 DEF Layered
  <2>2. depth[i] \in Nat /\ depth[p] \in Nat
    BY <1>1
  <2>3. QED
    BY <2>1, <2>2
<1>7. QED
  BY <1>6 DEF Foremost

(* What is right for the items of a rank below n. *)
Built(g, s, has, rank, n) ==
  \A i \in Lists : rank[i] < n =>
    g[i] = Gathered(s.kids[i], has[i], g)[Len(s.kids[i])]

(* Children have a lower rank than their parent. *)
Ranked(s, rank, c) ==
  /\ rank \in [Lists -> Nat] /\ \A i \in Lists : rank[i] <= c
  /\ \A p \in Lists : \A k \in 1 .. Len(s.kids[p]) :
       rank[s.kids[p][k]] < rank[p]

(* In a tree there are such ranks.                                           *)
LEMMA RanksExist ==
  ASSUME NEW s, s.kids \in [Lists -> Seq(Items)],
         NEW depth, Layered(s, depth)
  PROVE  \E rank : \E c \in Nat : Ranked(s, rank, c)
<1>1. PICK b \in Nat : \A i \in Lists : depth[i] <= b
  BY DepthBounded
<1> DEFINE rank == [i \in Lists |-> b - depth[i]]
<1>2. depth \in [Lists -> Nat]
  BY DEF Layered
<1>3. \A i \in Lists : b - depth[i] \in Nat /\ b - depth[i] <= b
  <2> SUFFICES ASSUME NEW i \in Lists
               PROVE  b - depth[i] \in Nat /\ b - depth[i] <= b
    OBVIOUS
  <2>1. depth[i] \in Nat /\ depth[i] <= b
    BY <1>1, <1>2
  <2>2. QED
    BY <2>1
<1>4. rank \in [Lists -> Nat] /\ \A i \in Lists : rank[i] <= b
  BY <1>3
<1>5. ASSUME NEW p \in Lists, NEW k \in 1 .. Len(s.kids[p])
      PROVE  rank[s.kids[p][k]] < rank[p]
  <2> DEFINE c == s.kids[p][k]
  <2>1. c \in Lists
    <3>1. s.kids[p] \in Seq(Items)
      OBVIOUS
    <3>2. s.kids[p][k] \in Items
      BY <3>1
    <3>3. QED
      BY <3>2 DEF Lists
  <2>2. depth[p] < depth[c]
    BY DEF Layered
  <2> HIDE DEF c
  <2>3. rank[c] = b - depth[c] /\ rank[p] = b - depth[p]
    BY <2>1
  <2>4. depth[p] \in Nat /\ depth[c] \in Nat
    BY <1>2, <2>1
  <2> HIDE DEF rank
  <2>5. rank[c] < rank[p]
    BY <2>2, <2>3, <2>4
  <2>6. QED
    BY <2>5 DEF c
<1> HIDE DEF rank
<1>6. Ranked(s, rank, b)
  BY <1>4, <1>5 DEF Ranked
<1>7. QED
  BY <1>6

(* The function Preorder is defined by exists in every tree.                 *)
LEMMA PreorderExists ==
  ASSUME NEW s, s.kids \in [Lists -> Seq(Items)],
         NEW depth, Layered(s, depth), NEW has
  PROVE  \E all : all = [i \in Lists |->
           Gathered(s.kids[i], has[i], all)[Len(s.kids[i])]]
<1>1. PICK rank : \E c \in Nat : Ranked(s, rank, c)
  BY RanksExist
<1>2. PICK c \in Nat : Ranked(s, rank, c)
  BY <1>1
<1>3. /\ rank \in [Lists -> Nat] /\ \A i \in Lists : rank[i] <= c
      /\ \A p \in Lists : \A k \in 1 .. Len(s.kids[p]) :
           rank[s.kids[p][k]] < rank[p] /\ s.kids[p][k] \in Lists
  <2>1. ASSUME NEW p \in Lists, NEW k \in 1 .. Len(s.kids[p])
        PROVE  s.kids[p][k] \in Lists
    <3>1. s.kids[p] \in Seq(Items)
      OBVIOUS
    <3>2. s.kids[p][k] \in Items
      BY <3>1
    <3>3. QED
      BY <3>2 DEF Lists
  <2>2. QED
    BY <1>2, <2>1 DEF Ranked
<1> DEFINE Missing == {n \in 0 .. c + 1 : ~ \E g : Built(g, s, has, rank, n)}
<1>4. ASSUME Missing # {} PROVE FALSE
  <2>1. Missing \subseteq Nat
    OBVIOUS
  <2>2. PICK n \in Missing : \A j \in Missing : n <= j
    <3> HIDE DEF Missing
    <3>1. Min(Missing) \in Missing /\ \A j \in Missing : Min(Missing) <= j
      BY <1>4, <2>1, Least
    <3>2. QED
      BY <3>1
  <2>3. n \in 0 .. c + 1 /\ ~ \E g : Built(g, s, has, rank, n)
    BY <2>2
  <2>4. CASE n = 0
    <3>1. \A i \in Lists : ~ (rank[i] < n)
      <4>1. \A i \in Lists : rank[i] \in Nat
        BY <1>3
      <4>2. QED
        BY <2>4, <4>1
    <3>2. Built(<<>>, s, has, rank, n)
      BY <3>1 DEF Built
    <3>3. QED
      BY <2>3, <3>2
  <2>5. CASE n # 0
    <3> DEFINE m == n - 1
    <3>1. m \in 0 .. c + 1 /\ ~ (n <= m) /\ m \in Nat /\ n = m + 1
      BY <2>3, <2>5
    <3> HIDE DEF m
    <3>2. m \notin Missing
      <4> HIDE DEF Missing
      <4>1. QED
        BY <2>2, <3>1
    <3>3. PICK g : Built(g, s, has, rank, m)
      BY <3>1, <3>2
    <3> DEFINE new(i) == Gathered(s.kids[i], has[i], g)[Len(s.kids[i])]
               h == [i \in Lists |-> IF rank[i] < m THEN g[i] ELSE new(i)]
    <3>4. \A i \in Lists : rank[i] < m => g[i] = new(i)
      BY <3>3 DEF Built
    <3> HIDE DEF new
    <3>5. \A i \in Lists : h[i] = new(i)
      BY <3>4
    <3>6. \A i \in Lists : rank[i] < m => h[i] = g[i]
      BY <3>4
    <3> HIDE DEF h
    <3>7. ASSUME NEW i \in Lists, rank[i] < n
          PROVE  h[i] = Gathered(s.kids[i], has[i], h)[Len(s.kids[i])]
      <4> DEFINE list == s.kids[i]
                 first == has[i]
      <4>1. list \in Seq(Items) /\ Len(list) \in Nat
        OBVIOUS
      <4>2. \A k \in 1 .. Len(list) : h[list[k]] = g[list[k]]
        <5> SUFFICES ASSUME NEW k \in 1 .. Len(list) PROVE h[list[k]] = g[list[k]]
          OBVIOUS
        <5>1. rank[list[k]] < rank[i] /\ list[k] \in Lists
          BY <1>3
        <5>2. rank[list[k]] \in Nat /\ rank[i] \in Nat
          BY <1>3, <5>1
        <5> HIDE DEF list
        <5>3. rank[list[k]] < m
          BY <3>1, <3>7, <5>1, <5>2
        <5>4. QED
          BY <3>6, <5>1, <5>3
      <4> HIDE DEF list, first
      <4>3. Agreeing(list, g, h)
        BY <4>2 DEF Agreeing
      <4>4. Gathered(list, first, g)[Len(list)] = Gathered(list, first, h)[Len(list)]
        BY <4>1, <4>3, GatheredSame
      <4>5. h[i] = Gathered(list, first, g)[Len(list)]
        BY <3>5 DEF new, list, first
      <4>6. h[i] = Gathered(list, first, h)[Len(list)]
        BY <4>4, <4>5
      <4>7. QED
        BY <4>6 DEF list, first
    <3>8. Built(h, s, has, rank, n)
      BY <3>7 DEF Built
    <3>9. QED
      BY <2>3, <3>8
  <2>6. QED
    BY <2>4, <2>5
<1>5. c + 1 \in 0 .. c + 1
  OBVIOUS
<1>6. PICK g : Built(g, s, has, rank, c + 1)
  BY <1>4, <1>5
<1> DEFINE h == [i \in Lists |-> g[i]]
<1>7. ASSUME NEW i \in Lists
      PROVE  h[i] = Gathered(s.kids[i], has[i], h)[Len(s.kids[i])]
  <2> DEFINE list == s.kids[i]
             first == has[i]
  <2>1. list \in Seq(Items) /\ Len(list) \in Nat
    OBVIOUS
  <2>2. \A k \in 1 .. Len(list) : g[list[k]] = h[list[k]]
    <3>1. \A k \in 1 .. Len(list) : list[k] \in Lists
      BY <1>3
    <3>2. QED
      BY <3>1
  <2>3. rank[i] < c + 1
    <3>1. rank[i] \in Nat /\ rank[i] <= c
      BY <1>3
    <3>2. QED
      BY <3>1
  <2>4. g[i] = Gathered(list, first, g)[Len(list)]
    BY <1>6, <2>3 DEF Built
  <2>5. h[i] = g[i]
    OBVIOUS
  <2> HIDE DEF list, first, h
  <2>6. Agreeing(list, g, h)
    BY <2>2 DEF Agreeing
  <2>7. Gathered(list, first, g)[Len(list)] = Gathered(list, first, h)[Len(list)]
    BY <2>1, <2>6, GatheredSame
  <2>8. h[i] = Gathered(list, first, h)[Len(list)]
    BY <2>4, <2>5, <2>7
  <2>9. QED
    BY <2>8 DEF list, first
<1>8. h = [i \in Lists |-> h[i]]
  OBVIOUS
<1> HIDE DEF h
<1>9. h = [i \in Lists |-> Gathered(s.kids[i], has[i], h)[Len(s.kids[i])]]
  BY <1>7, <1>8
<1>10. QED
  BY <1>9

(* Preorder: what an item has, and behind it what its children have.         *)
LEMMA PreorderIs ==
  ASSUME NEW s, s.kids \in [Lists -> Seq(Items)],
         NEW depth, Layered(s, depth), NEW has, NEW i \in Lists
  PROVE  Preorder(s, has)[i] =
           Gathered(s.kids[i], has[i], Preorder(s, has))[Len(s.kids[i])]
<1> DEFINE all == CHOOSE all : all = [j \in Lists |->
                    Gathered(s.kids[j], has[j], all)[Len(s.kids[j])]]
<1>1. \E f : f = [j \in Lists |-> Gathered(s.kids[j], has[j], f)[Len(s.kids[j])]]
  BY PreorderExists
<1>2. all = [j \in Lists |-> Gathered(s.kids[j], has[j], all)[Len(s.kids[j])]]
  BY <1>1, ZenonT(30)
<1>3. Preorder(s, has) = all
  BY Zenon DEF Preorder, Gathered, Lists
<1> HIDE DEF all
<1>4. all[i] = Gathered(s.kids[i], has[i], all)[Len(s.kids[i])]
  <2> DEFINE next(j) == Gathered(s.kids[j], has[j], all)[Len(s.kids[j])]
  <2>1. all = [j \in Lists |-> next(j)]
    BY <1>2
  <2> HIDE DEF next
  <2>2. all[i] = next(i)
    BY <2>1
  <2>3. QED
    BY <2>2 DEF next
<1>5. QED
  BY <1>3, <1>4

(* What is put together from sequences is one.                               *)
LEMMA GatheredTyped ==
  ASSUME NEW S, NEW list, Len(list) \in Nat, NEW first \in Seq(S), NEW all,
         \A k \in 1 .. Len(list) : all[list[k]] \in Seq(S)
  PROVE  \A k \in 0 .. Len(list) : Gathered(list, first, all)[k] \in Seq(S)
<1> DEFINE a == Gathered(list, first, all)
           n == Len(list)
           Failed == {k \in 0 .. n : a[k] \notin Seq(S)}
<1>a. Grows(a, list, first, all)
  BY GatheredIs
<1> HIDE DEF a
<1>1. a[0] = first /\ \A k \in 1 .. n : a[k] = a[k - 1] \o all[list[k]]
  BY <1>a DEF Grows
<1>2. n \in Nat /\ \A k \in 1 .. n : all[list[k]] \in Seq(S)
  OBVIOUS
<1> HIDE DEF n
<1>3. ASSUME Failed # {} PROVE FALSE
  <2>1. Failed \subseteq Nat
    BY <1>2
  <2>2. PICK k \in Failed : \A j \in Failed : k <= j
    <3> HIDE DEF Failed
    <3>1. Min(Failed) \in Failed /\ \A j \in Failed : Min(Failed) <= j
      BY <1>3, <2>1, Least
    <3>2. QED
      BY <3>1
  <2>3. k \in 0 .. n /\ a[k] \notin Seq(S)
    BY <2>2
  <2>4. k # 0
    BY <1>1, <2>3
  <2>5. k \in 1 .. n /\ k - 1 \in 0 .. n /\ ~ (k <= k - 1)
    BY <1>2, <2>3, <2>4
  <2>6. a[k - 1] \in Seq(S)
    BY <2>2, <2>5
  <2> HIDE DEF Failed
  <2> DEFINE x == a[k - 1]
             y == all[list[k]]
  <2>7. x \in Seq(S) /\ y \in Seq(S) /\ a[k] = x \o y
    BY <1>1, <1>2, <2>5, <2>6
  <2> HIDE DEF x, y
  <2>8. x \o y \in Seq(S)
    BY <2>7
  <2>9. QED
    BY <2>3, <2>7, <2>8
<1>4. QED
  BY <1>3 DEF a, n

(* So is what a dump writes for an item.                                     *)
LEMMA PreorderTyped ==
  ASSUME NEW s, s.kids \in [Lists -> Seq(Items)],
         NEW depth, Layered(s, depth),
         NEW S, NEW has, \A i \in Lists : has[i] \in Seq(S)
  PROVE  \A i \in Lists : Preorder(s, has)[i] \in Seq(S)
<1> DEFINE all == Preorder(s, has)
           B == {i \in Lists : all[i] \notin Seq(S)}
<1>1. ASSUME B # {} PROVE FALSE
  <2>1. B \subseteq Lists
    OBVIOUS
  <2>2. PICK i \in B : \A k \in 1 .. Len(s.kids[i]) : s.kids[i][k] \notin B
    <3> HIDE DEF B
    <3>1. QED
      BY <1>1, <2>1, Deepest
  <2>3. i \in Lists /\ all[i] \notin Seq(S) /\ has[i] \in Seq(S)
    BY <2>2
  <2> DEFINE list == s.kids[i]
             first == has[i]
  <2>4. list \in Seq(Items) /\ Len(list) \in Nat /\ first \in Seq(S)
    BY <2>3
  <2>5. ASSUME NEW k \in 1 .. Len(list) PROVE all[list[k]] \in Seq(S)
    <3>1. list[k] \in Lists
      <4>1. list[k] \in Items
        BY <2>4
      <4>2. QED
        BY <4>1 DEF Lists
    <3>2. list[k] \notin B
      BY <2>2
    <3>3. QED
      BY <3>1, <3>2
  <2>6. all[i] = Gathered(list, first, all)[Len(list)]
    BY <2>3, PreorderIs
  <2> HIDE DEF list, first, all
  <2>7. \A k \in 0 .. Len(list) : Gathered(list, first, all)[k] \in Seq(S)
    BY <2>4, <2>5, GatheredTyped
  <2>8. Len(list) \in 0 .. Len(list)
    BY <2>4
  <2>9. QED
    BY <2>3, <2>6, <2>7, <2>8
<1>2. QED
  BY <1>1

(* Where the items of a list start and end, which have these bytes. *)
Measured(list, first, all, P, E, start) ==
  /\ Len(list) \in Nat /\ first \in Seq(Nat) /\ start \in Nat
  /\ \A k \in 1 .. Len(list) :
       /\ all[list[k]] \in Seq(Nat) /\ P[list[k]] \in Nat
       /\ E[list[k]] = P[list[k]] + Len(all[list[k]])

(* What is put together up to each item ends where the item does. *)
Reaching(list, first, all, E, start) ==
  \A k \in 0 .. Len(list) :
    start + Len(Gathered(list, first, all)[k])
      = Mark(list, E, start + Len(first), k + 1)

(* The bytes of a row end where it does.                                     *)
LEMMA RowLength ==
  ASSUME NEW list, NEW first, NEW all, NEW P, NEW E, NEW start,
         Measured(list, first, all, P, E, start),
         NEW to, Row(list, P, E, start + Len(first), to)
  PROVE  /\ start + Len(Gathered(list, first, all)[Len(list)]) = to
         /\ Reaching(list, first, all, E, start)
<1> DEFINE a == Gathered(list, first, all)
           n == Len(list)
           from == start + Len(first)
           Failed == {k \in 0 .. n :
                        start + Len(a[k]) # Mark(list, E, from, k + 1)}
<1>0. /\ Len(list) \in Nat /\ first \in Seq(Nat) /\ start \in Nat
      /\ \A k \in 1 .. Len(list) : all[list[k]] \in Seq(Nat)
  BY DEF Measured
<1>a. Grows(a, list, first, all)
  BY <1>0, GatheredIs
<1>b. \A k \in 0 .. n : a[k] \in Seq(Nat)
  BY <1>0, GatheredTyped
<1> HIDE DEF a
<1>1. a[0] = first /\ \A k \in 1 .. n : a[k] = a[k - 1] \o all[list[k]]
  BY <1>a DEF Grows
<1>2. /\ n \in Nat
      /\ \A k \in 1 .. n :
           /\ all[list[k]] \in Seq(Nat) /\ P[list[k]] \in Nat
           /\ E[list[k]] = P[list[k]] + Len(all[list[k]])
  BY DEF Measured
<1>3. /\ \A k \in 1 .. n : P[list[k]] = Mark(list, E, from, k)
      /\ to = Mark(list, E, from, n + 1)
  BY DEF Row
<1> HIDE DEF n
<1>4. ASSUME Failed # {} PROVE FALSE
  <2>1. Failed \subseteq Nat
    BY <1>2
  <2>2. PICK k \in Failed : \A j \in Failed : k <= j
    <3> HIDE DEF Failed
    <3>1. Min(Failed) \in Failed /\ \A j \in Failed : Min(Failed) <= j
      BY <1>4, <2>1, Least
    <3>2. QED
      BY <3>1
  <2>3. k \in 0 .. n /\ start + Len(a[k]) # Mark(list, E, from, k + 1)
    BY <2>2
  <2>4. CASE k = 0
    <3>1. Mark(list, E, from, k + 1) = from
      BY <2>4 DEF Mark
    <3>2. QED
      BY <1>1, <2>3, <2>4, <3>1
  <2>5. CASE k # 0
    <3> DEFINE j == k - 1
               x == a[j]
               y == all[list[k]]
    <3>1. k \in 1 .. n /\ j \in 0 .. n /\ ~ (k <= j) /\ j + 1 = k
      BY <1>2, <2>3, <2>5
    <3>2. start + Len(a[j]) = Mark(list, E, from, j + 1)
      <4> HIDE DEF j
      <4>1. QED
        BY <2>2, <3>1
    <3>3. x \in Seq(Nat) /\ y \in Seq(Nat) /\ a[k] = x \o y
      <4> HIDE DEF Failed
      <4>1. QED
        BY <1>b, <1>1, <1>2, <3>1
    <3>4. /\ start + Len(x) = P[list[k]]
          /\ P[list[k]] \in Nat /\ E[list[k]] = P[list[k]] + Len(y)
      <4> HIDE DEF j, Failed
      <4>1. QED
        BY <1>2, <1>3, <3>1, <3>2
    <3>5. Mark(list, E, from, k + 1) = E[list[k]]
      <4>1. k + 1 # 1 /\ (k + 1) - 1 = k
        BY <3>1
      <4>2. QED
        BY <4>1 DEF Mark
    <3> HIDE DEF x, y, Failed
    <3>6. Len(x \o y) = Len(x) + Len(y) /\ Len(x) \in Nat /\ Len(y) \in Nat
      BY <3>3
    <3> DEFINE X == Len(x)
               Y == Len(y)
               pos == P[list[k]]
    <3>7. Len(a[k]) = X + Y /\ X \in Nat /\ Y \in Nat /\ pos \in Nat
          /\ start + X = pos /\ E[list[k]] = pos + Y
      BY <3>3, <3>4, <3>6
    <3> HIDE DEF X, Y, pos
    <3>8. start + Len(a[k]) = E[list[k]]
      BY <1>0, <3>7
    <3>9. QED
      BY <2>3, <3>5, <3>8
  <2>6. QED
    BY <2>4, <2>5
<1>5. n \in 0 .. n
  BY <1>2
<1>6. start + Len(a[n]) = to
  BY <1>3, <1>4, <1>5
<1>7. \A k \in 0 .. n : start + Len(a[k]) = Mark(list, E, from, k + 1)
  BY <1>4
<1>8. QED
  BY <1>6, <1>7 DEF a, n, from, Reaching

(* Who has children is alive, and so are they.                               *)
LEMMA KidsAlive ==
  ASSUME NEW s, Whole(s, {}), NEW p \in Lists, NEW k \in 1 .. Len(s.kids[p])
  PROVE  /\ p \in Live(s) /\ s.kids[p][k] \in Items /\ s.kids[p][k] \in Lists
         /\ s.kids[p][k] \in Live(s) /\ s.kind[s.kids[p][k]] # "free"
<1> DEFINE c == s.kids[p][k]
<1>1. s.kids \in [Lists -> Seq(Items)]
  BY DEF Whole, Shaped
<1>2. c \in Items
  <2>1. s.kids[p] \in Seq(Items)
    BY <1>1
  <2>2. QED
    BY <2>1
<1>3. Listed(s.kids, c)
  BY DEF Listed
<1> HIDE DEF c
<1>4. s.kind[c] # "free"
  BY <1>2, <1>3 DEF Whole, Owned
<1>5. p \in Live(s)
  <2>1. CASE p = Root
    BY <2>1 DEF Live
  <2>2. CASE p # Root
    <3>1. p \in Items
      BY <2>2 DEF Lists
    <3>2. s.kids[p] # <<>>
      <4> DEFINE none == <<>>
      <4>1. Len(none) = 0
        OBVIOUS
      <4> HIDE DEF none
      <4>2. s.kids[p] # none
        BY <4>1
      <4>3. QED
        BY <4>2 DEF none
    <3>3. s.kind[p] \notin Childless
      BY <3>1, <3>2 DEF Whole, Owned
    <3>4. s.kind[p] # "free"
      BY <3>3 DEF Childless
    <3>5. QED
      BY <3>1, <3>4 DEF Live
  <2>3. QED
    BY <2>1, <2>2
<1>6. QED
  BY <1>2, <1>4, <1>5 DEF c, Live, Lists

(* Where an item starts. *)
Start(s, i) == IF i = Root THEN 0 ELSE s.position[i]

(* What an item has itself. *)
Header(s) == [i \in {Root} \union Items |-> IF i = Root THEN <<>> ELSE s.own[i]]

(* The items are where their bytes are, whatever the size of the file. *)
Ordered(s, end) ==
  /\ end \in [Lists -> Nat]
  /\ \A i \in Items : s.kind[i] # "free" => s.position[i] \in Nat
  /\ \A p \in Live(s) : Row(s.kids[p], s.position, end, Inner(s, p), end[p])

(* What an item has itself begins where the item starts.                     *)
LEMMA HeaderIs ==
  ASSUME NEW s, s.own \in [Items -> Seq(Nat)]
  PROVE  \A i \in Lists : /\ Header(s)[i] \in Seq(Nat)
                          /\ Inner(s, i) = Start(s, i) + Len(Header(s)[i])
                          /\ i # Root => Header(s)[i] = s.own[i]
<1> DEFINE none == <<>>
<1>1. none \in Seq(Nat) /\ Len(none) = 0 /\ 0 + 0 = 0
  OBVIOUS
<1>2. Header(s) = [i \in {Root} \union Items |-> IF i = Root THEN none ELSE s.own[i]]
  BY DEF Header
<1> HIDE DEF none
<1> SUFFICES ASSUME NEW i \in Lists
             PROVE  /\ Header(s)[i] \in Seq(Nat)
                    /\ Inner(s, i) = Start(s, i) + Len(Header(s)[i])
                    /\ i # Root => Header(s)[i] = s.own[i]
  OBVIOUS
<1>3. CASE i = Root
  BY <1>1, <1>2, <1>3 DEF Inner, Start, Lists
<1>4. CASE i # Root
  <2>1. i \in Items /\ Header(s)[i] = s.own[i]
    BY <1>2, <1>4 DEF Lists
  <2>2. QED
    BY <1>4, <2>1 DEF Inner, Start
<1>5. QED
  BY <1>3, <1>4

(* Item::GetSize: a dump writes as many bytes of an item as there are        *)
(* between where it starts and where it ends.                                *)
LEMMA DumpedLength ==
  ASSUME NEW s, Whole(s, {}), NEW depth, Layered(s, depth),
         NEW end, Ordered(s, end)
  PROVE  \A i \in Live(s) : /\ Dumped(s)[i] \in Seq(Nat)
                            /\ Start(s, i) + Len(Dumped(s)[i]) = end[i]
<1> DEFINE all == Dumped(s)
           has == Header(s)
           B == {i \in Live(s) : Start(s, i) + Len(all[i]) # end[i]}
<1>1. /\ s.kids \in [Lists -> Seq(Items)] /\ s.own \in [Items -> Seq(Nat)]
      /\ Live(s) \subseteq Lists
  BY DEF Whole, Shaped, Live, Lists
<1>2. all = Preorder(s, has)
  BY Zenon DEF Dumped, Header
<1>3. \A i \in Lists : /\ has[i] \in Seq(Nat)
                       /\ Inner(s, i) = Start(s, i) + Len(has[i])
  BY <1>1, HeaderIs
<1> HIDE DEF has, all
<1>4. \A i \in Lists : all[i] \in Seq(Nat)
  <2>1. \A i \in Lists : Preorder(s, has)[i] \in Seq(Nat)
    BY <1>1, <1>3, PreorderTyped
  <2>2. QED
    BY <1>2, <2>1
<1>5. /\ \A i \in Items : s.kind[i] # "free" => s.position[i] \in Nat
      /\ \A p \in Live(s) :
           Row(s.kids[p], s.position, end, Inner(s, p), end[p])
  BY DEF Ordered
<1>6. ASSUME B # {} PROVE FALSE
  <2>1. B \subseteq Lists
    BY <1>1
  <2>2. PICK i \in B : \A k \in 1 .. Len(s.kids[i]) : s.kids[i][k] \notin B
    <3> HIDE DEF B
    <3>1. QED
      BY <1>6, <2>1, Deepest
  <2>3. i \in Live(s) /\ i \in Lists /\ Start(s, i) + Len(all[i]) # end[i]
    BY <1>1, <2>2
  <2> DEFINE list == s.kids[i]
             first == has[i]
             start == Start(s, i)
  <2>4. list \in Seq(Items) /\ Len(list) \in Nat /\ first \in Seq(Nat)
    BY <1>1, <1>3, <2>3
  <2>5. start \in Nat
    BY <1>5, <2>3 DEF Start, Live
  <2>6. ASSUME NEW k \in 1 .. Len(list)
        PROVE  /\ all[list[k]] \in Seq(Nat) /\ s.position[list[k]] \in Nat
               /\ end[list[k]] = s.position[list[k]] + Len(all[list[k]])
    <3> DEFINE c == list[k]
    <3>1. c \in Items /\ c \in Lists /\ c \in Live(s) /\ s.kind[c] # "free"
      BY <2>3, KidsAlive
    <3>2. c \notin B
      BY <2>2
    <3>3. Start(s, c) + Len(all[c]) = end[c]
      BY <3>1, <3>2
    <3> HIDE DEF c
    <3>4. Start(s, c) = s.position[c]
      BY <3>1 DEF Start, Items, Root
    <3>5. QED
      BY <1>4, <1>5, <3>1, <3>3, <3>4 DEF c
  <2>7. Row(list, s.position, end, start + Len(first), end[i])
    BY <1>3, <1>5, <2>3
  <2>8. all[i] = Gathered(list, first, all)[Len(list)]
    <3>1. Preorder(s, has)[i] =
            Gathered(s.kids[i], has[i], Preorder(s, has))[Len(s.kids[i])]
      BY <1>1, <2>3, PreorderIs
    <3>2. QED
      BY <1>2, <3>1
  <2> HIDE DEF list, first, start
  <2>9. Measured(list, first, all, s.position, end, start)
    BY <2>4, <2>5, <2>6 DEF Measured
  <2>10. start + Len(Gathered(list, first, all)[Len(list)]) = end[i]
    BY <2>7, <2>9, RowLength
  <2>11. QED
    BY <2>3, <2>8, <2>10 DEF start
<1>7. QED
  BY <1>1, <1>4, <1>6 DEF all

-----------------------------------------------------------------------------
(* Pointers into a file that is being parsed *)

(* A layout of the file is one.                                              *)
LEMMA LaidOutOrdered ==
  ASSUME NEW s, Good(s), NEW end, LaidOut(s, end)
  PROVE  Ordered(s, end)
BY DEF Good, Regular, LaidOut, Ordered

(* Where an item ends, another is found, or it is the end of the file.       *)
LEMMA EndFound ==
  ASSUME NEW s, Good(s), NEW depth, Layered(s, depth), Indexed(s, Root),
         NEW end, LaidOut(s, end)
  PROVE  \A i \in Items : s.kind[i] # "free" =>
           end[i] \in DOMAIN s.pmap \/ end[i] = Size
<1> DEFINE B == {i \in Items : s.kind[i] # "free" /\ end[i] \notin DOMAIN s.pmap
                               /\ end[i] # Size}
<1>1. /\ Whole(s, {}) /\ s.kids \in [Lists -> Seq(Items)]
      /\ \A i \in Items : Listed(s.kids, i) <=> s.kind[i] # "free"
  BY DEF Good, Whole, Shaped, Owned
<1>2. /\ end[Root] = Size
      /\ \A p \in Live(s) :
           Row(s.kids[p], s.position, end, Inner(s, p), end[p])
  BY DEF LaidOut
<1>3. ASSUME B # {} PROVE FALSE
  <2>1. B \subseteq Lists
    BY DEF Lists
  <2>2. PICK i \in B : \A p \in B : \A k \in 1 .. Len(s.kids[p]) :
          s.kids[p][k] # i
    <3> HIDE DEF B
    <3>1. \E i \in B : Foremost(s, B, i)
      BY <1>3, <2>1, Shallowest
    <3>2. QED
      BY <3>1, Zenon DEF Foremost
  <2>3. /\ i \in Items /\ s.kind[i] # "free"
        /\ end[i] \notin DOMAIN s.pmap /\ end[i] # Size
    BY <2>2
  <2>4. PICK p \in Lists : \E k \in 1 .. Len(s.kids[p]) : s.kids[p][k] = i
    BY <1>1, <2>3 DEF Listed
  <2>5. PICK k \in 1 .. Len(s.kids[p]) : s.kids[p][k] = i
    BY <2>4
  <2>6. p \in Live(s)
    BY <1>1, KidsAlive
  <2> DEFINE list == s.kids[p]
             n == Len(list)
             from == Inner(s, p)
             x == k + 1
  <2>7. /\ \A j \in 1 .. n : s.position[list[j]] = Mark(list, end, from, j)
        /\ end[p] = Mark(list, end, from, n + 1)
    BY <1>2, <2>6 DEF Row
  <2>8. n \in Nat /\ k \in 1 .. n
    <3>1. list \in Seq(Items)
      BY <1>1
    <3>2. QED
      BY <3>1
  <2>9. list[k] = i
    BY <2>5
  <2>a. \A j \in 1 .. n : j # 1 /\ list[j] # Root => Found(s, list[j])
    BY DEF Indexed
  <2>b. \A j \in 1 .. n : list[j] # Root
    <3>1. \A j \in 1 .. n : list[j] \in Items
      BY <1>1, KidsAlive
    <3>2. QED
      BY <3>1 DEF Items, Root
  <2> HIDE DEF list, n, from
  <2>10. Mark(list, end, from, x) = end[i]
    <3>1. k + 1 # 1 /\ (k + 1) - 1 = k
      BY <2>8
    <3>2. QED
      BY <2>9, <3>1 DEF Mark
  <2>11. CASE k # n
    <3>1. x \in 1 .. n /\ x # 1
      BY <2>8, <2>11
    <3> HIDE DEF x
    <3>2. Found(s, list[x]) /\ s.position[list[x]] = end[i]
      BY <2>7, <2>10, <2>a, <2>b, <3>1
    <3>3. end[i] \in DOMAIN s.pmap
      BY <3>2 DEF Found
    <3>4. QED
      BY <2>3, <3>3
  <2>12. CASE k = n
    <3>1. end[p] = end[i]
      BY <2>7, <2>10, <2>12
    <3>2. CASE p = Root
      BY <1>2, <2>3, <3>1, <3>2
    <3>3. CASE p # Root
      <4>1. p \in Items /\ s.kind[p] # "free"
        BY <2>6, <3>3 DEF Live
      <4>2. p \in B
        BY <2>3, <3>1, <4>1
      <4> HIDE DEF B
      <4>3. QED
        BY <2>2, <2>5, <4>2
    <3>4. QED
      BY <3>2, <3>3
  <2>13. QED
    BY <2>11, <2>12
<1>4. QED
  BY <1>3

(* Context::GetPointer finds the item that has a byte there.                 *)
LEMMA LayoutInside ==
  ASSUME Good(t), Layout(t, Root, Root)
  PROVE  PointersInside
<1>1. /\ Whole(t, {}) /\ Shaped(t) /\ Regular(t) /\ Size \in Nat
      /\ DOMAIN t.pmap \subseteq 0 .. Size /\ 0 \in DOMAIN t.pmap
      /\ \A q \in DOMAIN t.pmap :
           t.pmap[q] \in Items /\ t.position[t.pmap[q]] = q
      /\ \A q \in DOMAIN t.pmap : Listed(t.kids, t.pmap[q])
      /\ \A i \in Items : Listed(t.kids, i) <=> t.kind[i] # "free"
  BY ItemTreeAssumption DEF Good, Whole, Shaped, Owned, Regular
<1>2. PICK end : LaidOut(t, end) /\ Bulky(t, end, Root)
  BY DEF Layout
<1>3. PICK depth : Layered(t, depth)
  BY DEF Layout
<1>4. Indexed(t, Root)
  BY DEF Layout
<1>5. \A i \in Live(t) : Start(t, i) + Len(Dumped(t)[i]) = end[i]
  <2>1. Ordered(t, end)
    BY <1>2, LaidOutOrdered
  <2>2. QED
    BY <1>1, <1>3, <2>1, DumpedLength
<1>6. \A i \in Items : t.kind[i] # "free" =>
        end[i] \in DOMAIN t.pmap \/ end[i] = Size
  BY <1>2, <1>3, <1>4, EndFound
<1>7. ASSUME NEW p \in 0 .. Size
      PROVE  /\ Linked(t, GetPointer(t, p).item)
             /\ p < Size =>
                  GetPointer(t, p).offset < SizeOf(t, GetPointer(t, p).item)
  <2>1. PICK key \in DOMAIN t.pmap :
          /\ key <= p /\ \A q \in DOMAIN t.pmap : q <= p => q <= key
          /\ GetPointer(t, p) = [item |-> t.pmap[key], offset |-> p - key]
    BY <1>1, PointerOf
  <2> DEFINE y == t.pmap[key]
  <2>2. /\ y \in Items /\ t.position[y] = key /\ Listed(t.kids, y)
        /\ t.kind[y] # "free" /\ y # Root /\ y \in Live(t) /\ key \in Nat
    BY <1>1 DEF Items, Root, Live
  <2>3. GetPointer(t, p).item = y /\ GetPointer(t, p).offset = p - key
    BY <2>1
  <2> HIDE DEF y
  <2>4. Linked(t, y)
    BY <2>2 DEF Linked, Listed, Contains, Lists
  <2>5. ASSUME p < Size PROVE p - key < SizeOf(t, y)
    <3>1. key + SizeOf(t, y) = end[y]
      BY <1>5, <2>2 DEF Start, SizeOf
    <3>2. end[y] \in Nat
      BY <1>2, <2>2 DEF LaidOut, Lists
    <3>3. key < end[y]
      <4>1. key < end[y] \/ key = Size
        <5>1. y # Root
          BY <2>2
        <5>2. QED
          BY <1>2, <2>2, <5>1 DEF Bulky
      <4>2. QED
        BY <1>1, <2>1, <2>2, <2>5, <4>1
    <3>4. ~ (end[y] <= p)
      <4>1. ASSUME end[y] <= p PROVE FALSE
        <5>1. end[y] \in DOMAIN t.pmap
          BY <1>1, <1>6, <2>2, <2>5, <4>1
        <5>2. end[y] <= key
          BY <2>1, <4>1, <5>1
        <5>3. QED
          BY <2>2, <3>2, <3>3, <5>2
      <4>2. QED
        BY <4>1
    <3> DEFINE size == SizeOf(t, y)
    <3>5. size \in Nat
      <4>1. Dumped(t)[y] \in Seq(Nat)
        <5>1. Ordered(t, end)
          BY <1>2, LaidOutOrdered
        <5>2. QED
          BY <1>1, <1>3, <2>2, <5>1, DumpedLength
      <4>2. QED
        BY <4>1 DEF SizeOf
    <3>6. key + size = end[y]
      BY <3>1
    <3> HIDE DEF size
    <3>7. p - key < size
      BY <2>2, <3>2, <3>4, <3>5, <3>6
    <3>8. QED
      BY <3>7 DEF size
  <2>6. QED
    BY <2>3, <2>4, <2>5
<1>8. \A q \in DOMAIN t.pmap : t.position[t.pmap[q]] = q
  BY <1>1
<1>9. QED
  BY <1>7, <1>8, Zenon DEF PointersInside

(* Context::CreateLabelFallback, CreateLabel.                                *)
LEMMA CreateLabelLayout ==
  ASSUME Good(t), Layout(t, Root, Root), NEW n \in Names, CreateLabel(n)
  PROVE  Layout(t', Root, Root)
<1>1. PICK at \in 0 .. Size : t' = [t EXCEPT !.label[n] = GetPointer(t, at)]
  BY DEF CreateLabel
<1>2. /\ Fields \subseteq DOMAIN t /\ Whole(t, {})
      /\ t.label \in [Names -> Pointers \union {Unset}]
      /\ DOMAIN t.pmap \subseteq 0 .. Size /\ 0 \in DOMAIN t.pmap
      /\ Size \in DOMAIN t.pmap
      /\ \A q \in DOMAIN t.pmap :
           /\ t.pmap[q] \in Items /\ t.position[t.pmap[q]] = q
           /\ t.kind[t.pmap[q]] # "free"
  BY DEF Good, Whole, Shaped, Owned, Regular
<1> DEFINE l == GetPointer(t, at)
<1>3. t' = [t EXCEPT !.label[n] = l]
  BY <1>1
<1>4. PICK key \in DOMAIN t.pmap :
        /\ key <= at /\ \A q \in DOMAIN t.pmap : q <= at => q <= key
        /\ l = [item |-> t.pmap[key], offset |-> at - key]
  <2>1. at \in Nat
    OBVIOUS
  <2>2. \E key \in DOMAIN t.pmap :
          /\ key <= at /\ \A q \in DOMAIN t.pmap : q <= at => q <= key
          /\ GetPointer(t, at) = [item |-> t.pmap[key], offset |-> at - key]
    BY <1>2, <2>1, PointerOf
  <2>3. QED
    BY <2>2
<1>5. ASSUME at < Size PROVE at - key < SizeOf(t, t.pmap[key])
  <2>1. PointersInside /\ phase = "parsing"
    BY LayoutInside DEF CreateLabel
  <2>2. GetPointer(t, at).offset < SizeOf(t, GetPointer(t, at).item)
    BY <1>5, <2>1 DEF PointersInside
  <2>3. QED
    BY <1>4, <2>2
<1> HIDE DEF l
<1>6. /\ t'.kids = t.kids /\ t'.kind = t.kind /\ t'.own = t.own
      /\ t'.position = t.position /\ t'.pmap = t.pmap /\ t'.label[n] = l
      /\ \A x \in Names : x # n => t'.label[x] = t.label[x]
  BY <1>2, <1>3 DEF Fields
<1>7. PICK depth : Layered(t, depth)
  BY DEF Layout
<1>8. ASSUME NEW end, LaidOut(t, end), Held(t, end) PROVE Held(t', end)
  <2> SUFFICES ASSUME NEW x \in Names, t'.label[x] # Unset,
                      t'.label[x].offset # 0
               PROVE  ToFilePos(t', t'.label[x]) < end[t'.label[x].item]
    BY DEF Held
  <2>1. CASE x # n
    BY <1>6, <1>8, <2>1 DEF Held, ToFilePos
  <2>2. CASE x = n
    <3> DEFINE i == t.pmap[key]
    <3>1. t'.label[x].item = i /\ t'.label[x].offset = at - key
      BY <1>4, <1>6, <2>2
    <3>2. key # at /\ at # Size
      BY <1>2, <1>4, <3>1, ItemTreeAssumption
    <3>3. at < Size /\ key \in Nat /\ at \in Nat
      BY <1>2, <3>2, ItemTreeAssumption
    <3>4. i \in Live(t) /\ Start(t, i) = key
      BY <1>2 DEF Live, Start, Items, Root
    <3>5. Ordered(t, end)
      BY <1>8, LaidOutOrdered
    <3>6. Dumped(t)[i] \in Seq(Nat) /\ key + Len(Dumped(t)[i]) = end[i]
      BY <1>2, <1>7, <3>4, <3>5, DumpedLength
    <3>7. at - key < Len(Dumped(t)[i])
      BY <1>5, <3>3 DEF SizeOf
    <3>8. ToFilePos(t', t'.label[x]) = key + (at - key)
      BY <1>2, <1>6, <3>1 DEF ToFilePos
    <3> DEFINE L == Len(Dumped(t)[i])
    <3>9. L \in Nat /\ key + L = end[i] /\ at - key < L
      BY <3>6, <3>7
    <3> HIDE DEF L, i
    <3>10. key + (at - key) < end[i]
      BY <3>3, <3>9
    <3>11. QED
      BY <3>1, <3>8, <3>10
  <2>3. QED
    BY <2>1, <2>2
<1>9. QED
  BY <1>6, <1>8, LabelLayout

-----------------------------------------------------------------------------
(* What edits leave of the layout *)

(* u is s without the items G, which nothing points to, of the list of the   *)
(* file.                                                                     *)
Sieving(s, u, G) ==
  /\ G \subseteq Items
  /\ \A y \in G : /\ s.kids[y] = <<>> /\ s.kind[y] = "raw"
                  /\ \E k \in 1 .. Len(s.kids[Root]) : s.kids[Root][k] = y
  /\ \A n \in Names : s.label[n] # Unset => s.label[n].item \notin G
  /\ u.label = s.label
  /\ u.kids \in [Lists -> Seq(Items)]
  /\ Sifted(u.kids[Root], s.kids[Root], Len(s.kids[Root]), G)
  /\ \E kept : /\ Keeps(kept, s.kids[Root], G)
               /\ u.kids[Root] = kept[Len(s.kids[Root])]
  /\ \A j \in Items : u.kids[j] = s.kids[j]
  /\ \A j \in Items : u.kind[j] = IF j \in G THEN "free" ELSE s.kind[j]
  /\ \A j \in Items : j \notin G =>
       u.own[j] = s.own[j] /\ u.position[j] = s.position[j]

(* Stcm::File::Gc is so.                                                     *)
LEMMA GcSieves ==
  ASSUME Whole(t, {}), Gc
  PROVE  \E G : Sieving(t, t', G)
<1> DEFINE top == t.kids[Root]
           garbage == {i \in Range(top) : i \in Raws /\ LabelsOf(t, i) = {}}
           kept == CHOOSE kept : kept = [k \in 0 .. Len(top) |->
                     IF k = 0 THEN <<>>
                     ELSE IF top[k] \in garbage THEN kept[k - 1]
                     ELSE Append(kept[k - 1], top[k])]
           list == kept[Len(top)]
           s1 == Removed(t, garbage)
           s2 == Disposed(s1, garbage)
<1>1. /\ Shaped(t) /\ Owned(t, {}) /\ Once(t.kids) /\ Fields \subseteq DOMAIN t
      /\ t.kids \in [Lists -> Seq(Items)] /\ Root \in Lists /\ Root \notin Items
      /\ Items \subseteq Lists
  BY DEF Whole, Owned, Shaped, Lists, Items, Root
<1>2. t' = [s2 EXCEPT !.kids[Root] = list]
  BY DEF Gc, Dropped
<1>3. top \in Seq(Items) /\ Distinct(top) /\ Len(top) \in Nat
  BY <1>1 DEF Once, Distinct
<1>4. Keeps(kept, top, garbage)
  <2>1. \E f : Keeps(f, top, garbage)
    <3> HIDE DEF top, garbage
    <3>1. QED
      BY <1>3, KeptEquation
  <2> HIDE DEF top, garbage
  <2>2. QED
    BY Zenon, <2>1 DEF Keeps
<1>5. /\ garbage \subseteq Items
      /\ \A i \in garbage : t.kids[i] = <<>> /\ t.kind[i] = "raw"
      /\ \A n \in Names : t.label[n] # Unset => t.label[n].item \notin garbage
  <2>1. garbage \subseteq Raws
    OBVIOUS
  <2>2. \A i \in garbage : i \in Items /\ t.kind[i] = "raw"
    BY <2>1 DEF Raws
  <2>3. \A n \in Names : t.label[n] # Unset => n \in LabelsOf(t, t.label[n].item)
    BY DEF LabelsOf
  <2>4. \A i \in garbage : t.kids[i] = <<>>
    BY <1>1, <2>2 DEF Owned, Childless
  <2>5. QED
    BY <2>2, <2>3, <2>4
<1>6. \A x : x \in garbage => \E k \in 1 .. Len(top) : top[k] = x
  BY <1>3 DEF Range
<1> HIDE DEF kept, garbage, top
<1>7. Sifted(list, top, Len(top), garbage)
  BY <1>3, <1>4, KeptSifted
<1>8. Removing(t, s1, garbage)
  BY <1>1, RemovedFields
<1> HIDE DEF list, s1
<1>9. Typed(s1)
  BY <1>1, <1>8 DEF Removing, Typed, Shaped
<1>10. Disposing(s1, s2, garbage)
  BY <1>9, DisposedFields
<1> HIDE DEF s2
<1>11. /\ DOMAIN t' = DOMAIN t /\ t'.kids = [s2.kids EXCEPT ![Root] = list]
       /\ t'.kind = s2.kind /\ t'.own = s2.own /\ t'.position = s2.position
       /\ t'.pmap = s2.pmap /\ t'.label = s2.label
       /\ DOMAIN s2 = DOMAIN s1 /\ DOMAIN s1 = DOMAIN t
       /\ Typed(s2)
  BY <1>1, <1>2, <1>8, <1>10 DEF Fields, Disposing, Removing
<1>12. /\ t'.kids \in [Lists -> Seq(Items)]
       /\ t'.kids[Root] = list
       /\ \A j \in Items :
            t'.kids[j] = IF j \in garbage THEN <<>> ELSE t.kids[j]
  <2>1. s2.kids \in [Lists -> Seq(Items)]
    BY <1>11 DEF Typed
  <2>2. list \in Seq(Items)
    BY <1>7 DEF Sifted
  <2>3. t'.kids \in [Lists -> Seq(Items)]
    BY <1>1, <1>11, <2>1, <2>2
  <2>4. \A j \in Items : t'.kids[j] = s2.kids[j]
    BY <1>1, <1>11, <2>1
  <2>5. \A j \in Items :
          s2.kids[j] = IF j \in garbage THEN <<>> ELSE t.kids[j]
    BY <1>1, <1>8, <1>10 DEF Disposing, Removing
  <2>6. QED
    BY <1>1, <1>11, <2>1, <2>3, <2>4, <2>5
<1>13. /\ \A j \in Items : t'.kids[j] = t.kids[j]
       /\ \A j \in Items :
            t'.kind[j] = IF j \in garbage THEN "free" ELSE t.kind[j]
       /\ \A j \in Items : j \notin garbage =>
            t'.own[j] = t.own[j] /\ t'.position[j] = t.position[j]
       /\ t'.label = t.label
  <2>1. \A j \in Items : t'.kids[j] = t.kids[j]
    BY <1>5, <1>12
  <2>2. QED
    BY <1>8, <1>10, <1>11, <2>1 DEF Disposing, Removing
<1>14. \E f : Keeps(f, top, garbage) /\ list = f[Len(top)]
  BY <1>4 DEF list
<1>15. \A y \in garbage : \E k \in 1 .. Len(t.kids[Root]) : t.kids[Root][k] = y
  BY <1>6 DEF top
<1> DEFINE u == t'
<1>16. /\ Sifted(u.kids[Root], t.kids[Root], Len(t.kids[Root]), garbage)
       /\ \E f : /\ Keeps(f, t.kids[Root], garbage)
                 /\ u.kids[Root] = f[Len(t.kids[Root])]
  BY <1>7, <1>12, <1>14 DEF top
<1>17. /\ u.label = t.label /\ u.kids \in [Lists -> Seq(Items)]
       /\ \A j \in Items : u.kids[j] = t.kids[j]
       /\ \A j \in Items : u.kind[j] = IF j \in garbage THEN "free" ELSE t.kind[j]
       /\ \A j \in Items : j \notin garbage =>
            u.own[j] = t.own[j] /\ u.position[j] = t.position[j]
  BY <1>12, <1>13
<1> HIDE DEF u
<1>18. Sieving(t, u, garbage)
  BY <1>5, <1>15, <1>16, <1>17, Zenon DEF Sieving
<1>19. QED
  BY <1>18 DEF u

(* No item comes under another.                                              *)
LEMMA GcLayered ==
  ASSUME Whole(t, {}), Gc, NEW depth, Layered(t, depth)
  PROVE  Layered(t', depth)
<1> DEFINE u == t'
<1>1. PICK G : Sieving(t, u, G)
  BY GcSieves
<1> DEFINE top == t.kids[Root]
           list == u.kids[Root]
<1>2. /\ u.kids \in [Lists -> Seq(Items)] /\ Sifted(list, top, Len(top), G)
      /\ \A j \in Items : u.kids[j] = t.kids[j]
  BY <1>1 DEF Sieving
<1> HIDE DEF u
<1>3. \A x \in Items : (\E j \in 1 .. Len(list) : list[j] = x) <=>
         x \notin G /\ \E k \in 1 .. Len(top) : top[k] = x
  BY <1>2 DEF Sifted
<1>4. ASSUME NEW p \in Lists, NEW k \in 1 .. Len(u.kids[p])
      PROVE  \E j \in 1 .. Len(t.kids[p]) : t.kids[p][j] = u.kids[p][k]
  <2>1. CASE p = Root
    <3> DEFINE x == list[k]
    <3>1. k \in 1 .. Len(list) /\ x = u.kids[p][k] /\ list \in Seq(Items)
      BY <1>2, <1>4, <2>1 DEF Lists
    <3>2. x \in Items
      BY <3>1
    <3>3. \E j \in 1 .. Len(list) : list[j] = x
      BY <3>1
    <3> HIDE DEF x
    <3>4. \E j \in 1 .. Len(top) : top[j] = x
      BY <1>3, <3>2, <3>3
    <3>5. QED
      BY <2>1, <3>1, <3>4
  <2>2. CASE p # Root
    <3>1. u.kids[p] = t.kids[p]
      BY <1>2, <2>2 DEF Lists
    <3>2. QED
      BY <1>4, <3>1
  <2>3. QED
    BY <2>1, <2>2
<1>5. ASSUME NEW p \in Lists, NEW k \in 1 .. Len(u.kids[p])
      PROVE  depth[p] < depth[u.kids[p][k]]
  <2>1. PICK j \in 1 .. Len(t.kids[p]) : t.kids[p][j] = u.kids[p][k]
    BY <1>4
  <2>2. depth[p] < depth[t.kids[p][j]]
    BY DEF Layered
  <2>3. QED
    BY <2>1, <2>2
<1>6. Layered(u, depth)
  BY <1>5, Zenon DEF Layered
<1>7. QED
  BY <1>6 DEF u

(* The order of the tree is not about what its items have.                   *)
LEMMA SameLayered ==
  ASSUME NEW s, NEW u, u.kids = s.kids, NEW depth, Layered(s, depth)
  PROVE  Layered(u, depth)
BY DEF Layered

(* ReadTxt_                                                                  *)
LEMMA ReadTxtLayered ==
  ASSUME Whole(t, {}), ReadTxt, NEW depth, Layered(t, depth)
  PROVE  Layered(t', depth)
<1>1. PICK i \in Items, n \in Texts :
        t' = [t EXCEPT !.own[i] = [k \in 1 .. n |-> Edited]]
  BY DEF ReadTxt
<1> DEFINE text == [k \in 1 .. n |-> Edited]
<1>2. t' = [t EXCEPT !.own[i] = text]
  BY <1>1
<1> HIDE DEF text
<1>3. t'.kids = t.kids
  BY <1>2 DEF Whole, Shaped, Fields
<1>4. QED
  BY <1>3, SameLayered

-----------------------------------------------------------------------------
(* The positions that Fixup computes *)

(* How many bytes a dump of item p writes before its k-th child. *)
Ahead(s, p, k) == Len(Gathered(s.kids[p], Header(s)[p], Dumped(s))[k - 1])

(* They grow by the bytes of one child after another.                        *)
Advancing(s, p) ==
  /\ Ahead(s, p, 1) = Len(Header(s)[p])
  /\ \A k \in 1 .. Len(s.kids[p]) + 1 : Ahead(s, p, k) \in Nat
  /\ \A k \in 1 .. Len(s.kids[p]) :
       /\ SizeOf(s, s.kids[p][k]) \in Nat
       /\ Ahead(s, p, k + 1) = Ahead(s, p, k) + SizeOf(s, s.kids[p][k])
  /\ SizeOf(s, p) = Ahead(s, p, Len(s.kids[p]) + 1)

(* In a tree they do.                                                        *)
LEMMA AheadIs ==
  ASSUME NEW s, Whole(s, {}), NEW depth, Layered(s, depth), NEW p \in Lists
  PROVE  Advancing(s, p)
<1> DEFINE all == Dumped(s)
           has == Header(s)
           list == s.kids[p]
           first == has[p]
           a == Gathered(list, first, all)
           n == Len(list)
<1>1. s.kids \in [Lists -> Seq(Items)] /\ s.own \in [Items -> Seq(Nat)]
  BY DEF Whole, Shaped
<1>2. all = Preorder(s, has)
  BY Zenon DEF Dumped, Header
<1>3. \A i \in Lists : has[i] \in Seq(Nat)
  BY <1>1, HeaderIs
<1> HIDE DEF has
<1>4. \A i \in Lists : all[i] \in Seq(Nat)
  <2> HIDE DEF all
  <2>1. \A i \in Lists : Preorder(s, has)[i] \in Seq(Nat)
    BY <1>1, <1>3, PreorderTyped
  <2>2. QED
    BY <1>2, <2>1
<1>5. all[p] = a[n]
  <2> HIDE DEF all
  <2>1. Preorder(s, has)[p] =
          Gathered(s.kids[p], has[p], Preorder(s, has))[Len(s.kids[p])]
    BY <1>1, PreorderIs
  <2>2. QED
    BY <1>2, <2>1
<1>6. list \in Seq(Items) /\ n \in Nat /\ first \in Seq(Nat)
  BY <1>1, <1>3
<1>7. \A k : Ahead(s, p, k) = Len(a[k - 1])
  BY DEF Ahead, has
<1>8. \A i : SizeOf(s, i) = Len(all[i])
  BY DEF SizeOf
<1> HIDE DEF all, list, first
<1>9. \A k \in 1 .. n : all[list[k]] \in Seq(Nat)
  <2> SUFFICES ASSUME NEW k \in 1 .. n PROVE all[list[k]] \in Seq(Nat)
    OBVIOUS
  <2>1. list[k] \in Items
    BY <1>6
  <2>2. list[k] \in Lists
    BY <2>1 DEF Lists
  <2>3. QED
    BY <1>4, <2>2
<1>10. Grows(a, list, first, all)
  BY <1>6, GatheredIs
<1>11. \A k \in 0 .. n : a[k] \in Seq(Nat)
  BY <1>6, <1>9, GatheredTyped
<1> HIDE DEF a
<1>12. a[0] = first /\ \A k \in 1 .. n : a[k] = a[k - 1] \o all[list[k]]
  BY <1>10 DEF Grows
<1> HIDE DEF n
<1>13. ASSUME NEW k \in 1 .. n + 1 PROVE Ahead(s, p, k) \in Nat
  <2> DEFINE j == k - 1
  <2>1. j \in 0 .. n
    BY <1>6
  <2> HIDE DEF j
  <2>2. a[j] \in Seq(Nat)
    BY <1>11, <2>1
  <2>3. Len(a[j]) \in Nat
    BY <2>2
  <2>4. QED
    BY <1>7, <2>3 DEF j
<1>14. Ahead(s, p, 1) = Len(first)
  <2>1. 1 - 1 = 0
    OBVIOUS
  <2>2. QED
    BY <1>7, <1>12, <2>1
<1>15. ASSUME NEW k \in 1 .. n
       PROVE  /\ SizeOf(s, list[k]) \in Nat
              /\ Ahead(s, p, k + 1) = Ahead(s, p, k) + SizeOf(s, list[k])
  <2> DEFINE j == k - 1
             x == a[j]
             y == all[list[k]]
  <2>1. j \in 0 .. n /\ (k + 1) - 1 = k
    BY <1>6
  <2>2. y \in Seq(Nat) /\ a[k] = x \o y
    BY <1>9, <1>12
  <2>3. x \in Seq(Nat)
    <3> HIDE DEF j
    <3>1. QED
      BY <1>11, <2>1
  <2>4. Ahead(s, p, k) = Len(x) /\ Ahead(s, p, k + 1) = Len(a[k])
    BY <1>7, <2>1
  <2>5. SizeOf(s, list[k]) = Len(y)
    BY <1>8
  <2> HIDE DEF x, y
  <2>6. Len(x \o y) = Len(x) + Len(y) /\ Len(y) \in Nat
    BY <2>2, <2>3
  <2>7. QED
    BY <2>2, <2>4, <2>5, <2>6
<1>16. SizeOf(s, p) = Ahead(s, p, n + 1)
  <2>1. (n + 1) - 1 = n
    BY <1>6
  <2>2. QED
    BY <1>5, <1>7, <1>8, <2>1
<1>17. QED
  BY <1>13, <1>14, <1>15, <1>16 DEF Advancing, first, has, list, n

(* Where the items are that a dump writes from 0 on. *)
Stepping(g, s) ==
  /\ g \in [Lists -> Nat] /\ g[Root] = 0
  /\ \A p \in Lists : \A k \in 1 .. Len(s.kids[p]) :
       g[s.kids[p][k]] = g[p] + Ahead(s, p, k)

(* So are the items that are not deep. *)
Stepped(g, s, depth, n) ==
  /\ g \in [Lists -> Nat] /\ g[Root] = 0
  /\ \A p \in Lists : \A k \in 1 .. Len(s.kids[p]) :
       depth[s.kids[p][k]] < n => g[s.kids[p][k]] = g[p] + Ahead(s, p, k)

(* The items of the next depth are placed.                                   *)
LEMMA SteppedNext ==
  ASSUME NEW s, Whole(s, {}), NEW depth, Layered(s, depth),
         NEW m \in Nat, NEW g, Stepped(g, s, depth, m)
  PROVE  \E h : Stepped(h, s, depth, m + 1)
<1> DEFINE at(j) == Ahead(s, Parent(s, j), IndexIn(s.kids[Parent(s, j)], j))
           up(j) == g[Parent(s, j)]
           h == [j \in Lists |-> IF j # Root /\ Listed(s.kids, j)
                                 THEN up(j) + at(j) ELSE 0]
<1>1. /\ s.kids \in [Lists -> Seq(Items)] /\ Once(s.kids)
      /\ \A i \in Items : Listed(s.kids, i) <=> s.kind[i] # "free"
      /\ Root \in Lists /\ depth \in [Lists -> Nat] /\ Root \notin Items
  BY DEF Whole, Shaped, Owned, Lists, Layered, Items, Root
<1>2. /\ g \in [Lists -> Nat] /\ g[Root] = 0
      /\ \A p \in Lists : \A k \in 1 .. Len(s.kids[p]) :
           depth[s.kids[p][k]] < m => g[s.kids[p][k]] = g[p] + Ahead(s, p, k)
  BY DEF Stepped
<1>3. ASSUME NEW p \in Lists, NEW k \in 1 .. Len(s.kids[p])
      PROVE  /\ s.kids[p][k] \in Items /\ s.kids[p][k] \in Lists
             /\ Listed(s.kids, s.kids[p][k])
             /\ up(s.kids[p][k]) = g[p] /\ at(s.kids[p][k]) = Ahead(s, p, k)
             /\ Ahead(s, p, k) \in Nat
  <2>1. /\ s.kids[p][k] \in Items /\ Parent(s, s.kids[p][k]) = p
        /\ IndexIn(s.kids[p], s.kids[p][k]) = k
    BY <1>1, Placed
  <2>2. Listed(s.kids, s.kids[p][k])
    BY DEF Listed
  <2>3. Ahead(s, p, k) \in Nat
    <3>1. Advancing(s, p)
      BY AheadIs
    <3>2. \A j \in 1 .. Len(s.kids[p]) + 1 : Ahead(s, p, j) \in Nat
      BY <3>1 DEF Advancing
    <3> DEFINE n == Len(s.kids[p])
    <3>3. n \in Nat
      <4>1. s.kids[p] \in Seq(Items)
        BY <1>1
      <4>2. QED
        BY <4>1
    <3>4. k \in 1 .. n
      OBVIOUS
    <3> HIDE DEF n
    <3>5. k \in 1 .. n + 1
      BY <3>3, <3>4
    <3>6. QED
      BY <3>2, <3>5 DEF n
  <2>4. QED
    BY <2>1, <2>2, <2>3 DEF Lists
<1> HIDE DEF at, up
<1>4. ASSUME NEW j \in Items, Listed(s.kids, j)
      PROVE  \E p \in Lists : \E k \in 1 .. Len(s.kids[p]) : s.kids[p][k] = j
  BY <1>4 DEF Listed
<1>5. \A j \in Lists :
        h[j] = IF j # Root /\ Listed(s.kids, j) THEN up(j) + at(j) ELSE 0
  OBVIOUS
<1>6. h \in [Lists -> Nat]
  <2>1. ASSUME NEW j \in Lists, j # Root, Listed(s.kids, j)
        PROVE  up(j) + at(j) \in Nat
    <3>1. j \in Items
      BY <2>1 DEF Lists
    <3>2. PICK p \in Lists : \E k \in 1 .. Len(s.kids[p]) : s.kids[p][k] = j
      BY <1>4, <2>1, <3>1
    <3>3. PICK k \in 1 .. Len(s.kids[p]) : s.kids[p][k] = j
      BY <3>2
    <3>4. up(j) = g[p] /\ at(j) = Ahead(s, p, k) /\ Ahead(s, p, k) \in Nat
      BY <1>3, <3>3
    <3>5. g[p] \in Nat
      BY <1>2
    <3>6. QED
      BY <3>4, <3>5
  <2>2. QED
    BY <2>1
<1> HIDE DEF h
<1>7. h[Root] = 0
  BY <1>1, <1>5
<1>8. ASSUME NEW p \in Lists, depth[p] < m, p \in Live(s)
      PROVE  h[p] = g[p]
  <2>1. CASE p = Root
    BY <1>2, <1>7, <2>1
  <2>2. CASE p # Root
    <3>1. p \in Items /\ Listed(s.kids, p)
      BY <1>1, <1>8, <2>2 DEF Live
    <3>2. PICK q \in Lists : \E l \in 1 .. Len(s.kids[q]) : s.kids[q][l] = p
      BY <1>4, <3>1
    <3>3. PICK l \in 1 .. Len(s.kids[q]) : s.kids[q][l] = p
      BY <3>2
    <3>4. up(p) = g[q] /\ at(p) = Ahead(s, q, l)
      BY <1>3, <3>3
    <3>5. g[p] = g[q] + Ahead(s, q, l)
      BY <1>2, <1>8, <3>3
    <3>6. h[p] = up(p) + at(p)
      BY <1>5, <2>2, <3>1
    <3>7. QED
      BY <3>4, <3>5, <3>6
  <2>3. QED
    BY <2>1, <2>2
<1>9. ASSUME NEW p \in Lists, NEW k \in 1 .. Len(s.kids[p]),
             depth[s.kids[p][k]] < m + 1
      PROVE  h[s.kids[p][k]] = h[p] + Ahead(s, p, k)
  <2> DEFINE c == s.kids[p][k]
  <2>1. /\ c \in Items /\ c \in Lists /\ Listed(s.kids, c)
        /\ up(c) = g[p] /\ at(c) = Ahead(s, p, k)
    BY <1>3
  <2>2. depth[p] < depth[c] /\ depth[c] < m + 1
    BY <1>9 DEF Layered
  <2>3. p \in Live(s)
    BY KidsAlive
  <2> HIDE DEF c
  <2>4. depth[p] < m
    <3>1. depth[p] \in Nat /\ depth[c] \in Nat
      BY <1>1, <2>1
    <3>2. QED
      BY <2>2, <3>1
  <2>5. h[p] = g[p]
    BY <1>8, <2>3, <2>4
  <2>6. h[c] = up(c) + at(c)
    BY <1>1, <1>5, <2>1
  <2>7. h[c] = h[p] + Ahead(s, p, k)
    BY <2>1, <2>5, <2>6
  <2>8. QED
    BY <2>7 DEF c
<1>10. Stepped(h, s, depth, m + 1)
  BY <1>6, <1>7, <1>9 DEF Stepped
<1>11. QED
  BY <1>10

(* Such positions exist in every tree.                                       *)
LEMMA SteppingExists ==
  ASSUME NEW s, Whole(s, {}), NEW depth, Layered(s, depth)
  PROVE  \E g : Stepping(g, s)
<1>1. PICK b \in Nat : \A i \in Lists : depth[i] <= b
  BY DepthBounded
<1>2. depth \in [Lists -> Nat]
  BY DEF Layered
<1> DEFINE Missing == {n \in 0 .. b + 1 : ~ \E g : Stepped(g, s, depth, n)}
<1>3. ASSUME Missing # {} PROVE FALSE
  <2>1. Missing \subseteq Nat
    OBVIOUS
  <2>2. PICK n \in Missing : \A j \in Missing : n <= j
    <3> HIDE DEF Missing
    <3>1. Min(Missing) \in Missing /\ \A j \in Missing : Min(Missing) <= j
      BY <1>3, <2>1, Least
    <3>2. QED
      BY <3>1
  <2>3. n \in 0 .. b + 1 /\ ~ \E g : Stepped(g, s, depth, n)
    BY <2>2
  <2>4. CASE n = 0
    <3> DEFINE g == [j \in Lists |-> 0]
    <3>1. g \in [Lists -> Nat] /\ g[Root] = 0
      BY DEF Lists
    <3>2. ASSUME NEW p \in Lists, NEW k \in 1 .. Len(s.kids[p])
          PROVE  ~ (depth[s.kids[p][k]] < n)
      <4>1. s.kids[p][k] \in Lists
        BY KidsAlive
      <4>2. depth[s.kids[p][k]] \in Nat
        BY <1>2, <4>1
      <4>3. QED
        BY <2>4, <4>2
    <3> HIDE DEF g
    <3>3. Stepped(g, s, depth, n)
      BY <3>1, <3>2 DEF Stepped
    <3>4. QED
      BY <2>3, <3>3
  <2>5. CASE n # 0
    <3> DEFINE m == n - 1
    <3>1. m \in 0 .. b + 1 /\ ~ (n <= m) /\ m \in Nat /\ n = m + 1
      BY <2>3, <2>5
    <3> HIDE DEF m
    <3>2. m \notin Missing
      <4> HIDE DEF Missing
      <4>1. QED
        BY <2>2, <3>1
    <3>3. PICK g : Stepped(g, s, depth, m)
      BY <3>1, <3>2
    <3>4. \E h : Stepped(h, s, depth, m + 1)
      BY <3>1, <3>3, SteppedNext
    <3>5. QED
      BY <2>3, <3>1, <3>4
  <2>6. QED
    BY <2>4, <2>5
<1>4. b + 1 \in 0 .. b + 1
  OBVIOUS
<1>5. PICK g : Stepped(g, s, depth, b + 1)
  BY <1>3, <1>4
<1>6. ASSUME NEW p \in Lists, NEW k \in 1 .. Len(s.kids[p])
      PROVE  depth[s.kids[p][k]] < b + 1
  <2>1. s.kids[p][k] \in Lists
    BY KidsAlive
  <2>2. depth[s.kids[p][k]] \in Nat /\ depth[s.kids[p][k]] <= b
    BY <1>1, <1>2, <2>1
  <2>3. QED
    BY <2>2
<1>7. Stepping(g, s)
  BY <1>5, <1>6 DEF Stepped, Stepping
<1>8. QED
  BY <1>7

(* Item::UpdatePosition, of an item that is in a list. *)
FixedAt(pos, s, i) ==
  IF i = Root \/ ~ Linked(s, i) THEN 0
  ELSE LET p == Parent(s, i)
           k == IndexIn(s.kids[p], i)
           before == s.kids[p][k - 1]
       IN IF k > 1 THEN pos[before] + SizeOf(s, before)
          ELSE IF p = Root THEN 0 ELSE pos[p] + Len(s.own[p])

(* Where an item is put: behind the one before it, or where the children of  *)
(* its parent begin.                                                         *)
LEMMA FixedAtIs ==
  ASSUME NEW s, Whole(s, {}), NEW pos,
         NEW p \in Lists, NEW k \in 1 .. Len(s.kids[p])
  PROVE  /\ Linked(s, s.kids[p][k]) /\ s.kids[p][k] # Root
         /\ FixedAt(pos, s, s.kids[p][k]) =
              IF k > 1 THEN pos[s.kids[p][k - 1]] + SizeOf(s, s.kids[p][k - 1])
              ELSE IF p = Root THEN 0 ELSE pos[p] + Len(s.own[p])
<1> DEFINE c == s.kids[p][k]
<1>1. s.kids \in [Lists -> Seq(Items)] /\ Once(s.kids)
  BY DEF Whole, Shaped, Owned
<1>2. c \in Items /\ Parent(s, c) = p /\ IndexIn(s.kids[p], c) = k
  BY <1>1, Placed
<1>3. Linked(s, c)
  BY DEF Linked, Contains, Lists
<1>4. c # Root
  BY <1>2 DEF Items, Root
<1> HIDE DEF c
<1>5. FixedAt(pos, s, c) =
        IF k > 1 THEN pos[s.kids[p][k - 1]] + SizeOf(s, s.kids[p][k - 1])
        ELSE IF p = Root THEN 0 ELSE pos[p] + Len(s.own[p])
  BY <1>2, <1>3, <1>4, Zenon DEF FixedAt
<1>6. QED
  BY <1>3, <1>4, <1>5 DEF c

(* Positions that are where FixedAt puts the items. *)
Fixing(pos, s) ==
  /\ pos = [i \in Lists |-> pos[i]]
  /\ \A i \in Lists : pos[i] = FixedAt(pos, s, i)

(* The function FixedPositions is defined by exists in every tree.           *)
LEMMA FixingExists ==
  ASSUME NEW s, Whole(s, {}), NEW depth, Layered(s, depth)
  PROVE  \E pos : pos = [i \in Lists |-> FixedAt(pos, s, i)]
<1>1. PICK g : Stepping(g, s)
  BY SteppingExists
<1>2. /\ g \in [Lists -> Nat] /\ g[Root] = 0
      /\ \A p \in Lists : \A k \in 1 .. Len(s.kids[p]) :
           g[s.kids[p][k]] = g[p] + Ahead(s, p, k)
  BY <1>1 DEF Stepping
<1>a. /\ s.kids \in [Lists -> Seq(Items)] /\ s.own \in [Items -> Seq(Nat)]
      /\ \A i \in Items : Listed(s.kids, i) <=> s.kind[i] # "free"
  BY DEF Whole, Shaped, Owned
<1> DEFINE pos == [i \in Lists |-> IF i = Root \/ ~ Linked(s, i) THEN 0 ELSE g[i]]
<1>3. \A i \in Lists :
        pos[i] = IF i = Root \/ ~ Linked(s, i) THEN 0 ELSE g[i]
  OBVIOUS
<1>4. pos = [i \in Lists |-> pos[i]]
  OBVIOUS
<1> HIDE DEF pos
<1>5. ASSUME NEW i \in Items
      PROVE  /\ Linked(s, i) =>
                  \E p \in Lists : \E k \in 1 .. Len(s.kids[p]) : s.kids[p][k] = i
             /\ s.kind[i] # "free" => Linked(s, i)
  <2>1. Listed(s.kids, i) <=> Linked(s, i)
    BY DEF Listed, Linked, Contains, Lists
  <2>2. QED
    BY <1>a, <2>1 DEF Listed
<1>6. ASSUME NEW p \in Lists, NEW k \in 1 .. Len(s.kids[p])
      PROVE  pos[s.kids[p][k]] = FixedAt(pos, s, s.kids[p][k])
  <2> DEFINE list == s.kids[p]
             c == list[k]
             n == Len(list)
             j == k - 1
             b == list[j]
  <2>1. /\ Linked(s, c) /\ c # Root
        /\ FixedAt(pos, s, c) =
             IF k > 1 THEN pos[b] + SizeOf(s, b)
             ELSE IF p = Root THEN 0 ELSE pos[p] + Len(s.own[p])
    BY FixedAtIs
  <2>2. c \in Lists /\ p \in Live(s)
    BY KidsAlive
  <2>3. pos[c] = g[c]
    BY <1>3, <2>1, <2>2
  <2>4. g[c] = g[p] + Ahead(s, p, k)
    BY <1>2
  <2>5. n \in Nat /\ k \in 1 .. n
    <3>1. list \in Seq(Items)
      BY <1>a
    <3>2. QED
      BY <3>1
  <2>6. Advancing(s, p)
    BY AheadIs
  <2>7. /\ Ahead(s, p, 1) = Len(Header(s)[p])
        /\ \A l \in 1 .. n :
             Ahead(s, p, l + 1) = Ahead(s, p, l) + SizeOf(s, list[l])
    BY <2>6 DEF Advancing
  <2>8. CASE k > 1
    <3>1. j \in 1 .. n /\ j + 1 = k
      BY <2>5, <2>8
    <3>2. /\ b \in Lists /\ Linked(s, b) /\ b # Root /\ g[b] = g[p] + Ahead(s, p, j)
      <4> HIDE DEF j
      <4>1. b \in Lists
        BY <3>1, KidsAlive
      <4>2. Linked(s, b) /\ b # Root
        BY <3>1, FixedAtIs
      <4>3. QED
        BY <1>2, <3>1, <4>1, <4>2
    <3> HIDE DEF list
    <3>3. pos[b] = g[b]
      BY <1>3, <3>2
    <3>4. Ahead(s, p, k) = Ahead(s, p, j) + SizeOf(s, b)
      BY <2>7, <3>1
    <3>5. g[p] \in Nat /\ Ahead(s, p, j) \in Nat /\ SizeOf(s, b) \in Nat
      <4> HIDE DEF j
      <4>1. SizeOf(s, b) \in Nat
        BY <2>6, <3>1 DEF Advancing, list, n, b
      <4>2. Ahead(s, p, j) \in Nat
        <5>1. j \in 1 .. n + 1
          BY <2>5, <3>1
        <5>2. QED
          BY <2>6, <5>1 DEF Advancing, n, list
      <4>3. QED
        BY <1>2, <4>1, <4>2
    <3> HIDE DEF j, b, c
    <3>6. QED
      BY <2>1, <2>3, <2>4, <2>8, <3>2, <3>3, <3>4, <3>5 DEF c, list
  <2>9. CASE ~ (k > 1)
    <3>1. k = 1
      BY <2>5, <2>9
    <3>2. g[c] = g[p] + Len(Header(s)[p])
      BY <2>4, <2>7, <3>1
    <3>3. CASE p = Root
      <4>1. Header(s)[p] = <<>>
        BY <3>3 DEF Header
      <4> DEFINE none == <<>>
      <4>2. Len(none) = 0
        OBVIOUS
      <4> HIDE DEF none
      <4>3. Len(Header(s)[p]) = 0
        BY <4>1, <4>2 DEF none
      <4> HIDE DEF c
      <4>4. pos[c] = 0
        BY <1>2, <2>3, <3>2, <3>3, <4>3
      <4>5. FixedAt(pos, s, c) = 0
        BY <2>1, <2>9, <3>3
      <4>6. QED
        BY <4>4, <4>5 DEF c
    <3>4. CASE p # Root
      <4>1. p \in Items /\ s.kind[p] # "free"
        BY <2>2, <3>4 DEF Live
      <4>2. Header(s)[p] = s.own[p]
        BY <1>a, <3>4, HeaderIs
      <4>3. pos[p] = g[p]
        BY <1>3, <1>5, <3>4, <4>1
      <4> HIDE DEF c
      <4>4. pos[c] = pos[p] + Len(s.own[p])
        BY <2>3, <3>2, <4>2, <4>3
      <4>5. FixedAt(pos, s, c) = pos[p] + Len(s.own[p])
        BY <2>1, <2>9, <3>4
      <4>6. QED
        BY <4>4, <4>5 DEF c
    <3>5. QED
      BY <3>3, <3>4
  <2>10. QED
    BY <2>8, <2>9
<1>7. ASSUME NEW i \in Lists PROVE pos[i] = FixedAt(pos, s, i)
  <2>1. CASE i = Root \/ ~ Linked(s, i)
    BY <1>3, <2>1 DEF FixedAt
  <2>2. CASE i # Root /\ Linked(s, i)
    <3>1. PICK p \in Lists : \E k \in 1 .. Len(s.kids[p]) : s.kids[p][k] = i
      BY <1>5, <2>2 DEF Lists
    <3>2. PICK k \in 1 .. Len(s.kids[p]) : s.kids[p][k] = i
      BY <3>1
    <3>3. QED
      BY <1>6, <3>2
  <2>3. QED
    BY <2>1, <2>2
<1>8. pos = [i \in Lists |-> FixedAt(pos, s, i)]
  BY <1>4, <1>7
<1>9. QED
  BY <1>8

(* FixedPositions is made of such positions.                                 *)
LEMMA FixedPositionsIs ==
  ASSUME NEW s, Whole(s, {}), NEW depth, Layered(s, depth)
  PROVE  \E pos : Fixing(pos, s) /\ FixedPositions(s) = [i \in Items |-> pos[i]]
<1> DEFINE pos == CHOOSE pos : pos = [i \in Lists |-> FixedAt(pos, s, i)]
<1>1. \E g : g = [i \in Lists |-> FixedAt(g, s, i)]
  BY FixingExists
<1>2. pos = [i \in Lists |-> FixedAt(pos, s, i)]
  BY <1>1, ZenonT(30)
<1>3. FixedPositions(s) = [i \in Items |-> pos[i]]
  BY Zenon DEF FixedPositions, FixedAt, Lists
<1> HIDE DEF pos
<1>4. \A i \in Lists : pos[i] = FixedAt(pos, s, i)
  <2> DEFINE next(i) == FixedAt(pos, s, i)
  <2>1. pos = [i \in Lists |-> next(i)]
    BY <1>2
  <2> HIDE DEF next
  <2>2. \A i \in Lists : pos[i] = next(i)
    BY <2>1
  <2>3. QED
    BY <2>2 DEF next
<1>5. pos = [i \in Lists |-> pos[i]]
  <2> DEFINE next(i) == FixedAt(pos, s, i)
  <2>1. pos = [i \in Lists |-> next(i)]
    BY <1>2
  <2> HIDE DEF next
  <2>2. QED
    BY <2>1
<1>6. Fixing(pos, s)
  BY <1>4, <1>5 DEF Fixing
<1>7. QED
  BY <1>3, <1>6

(* They are where a dump writes the children of an item.                     *)
LEMMA FixingKids ==
  ASSUME NEW s, Whole(s, {}), NEW depth, Layered(s, depth),
         NEW pos, Fixing(pos, s), NEW p \in Lists, pos[p] \in Nat
  PROVE  \A k \in 1 .. Len(s.kids[p]) : pos[s.kids[p][k]] = pos[p] + Ahead(s, p, k)
<1> DEFINE list == s.kids[p]
           n == Len(list)
           Failed == {k \in 1 .. n : pos[list[k]] # pos[p] + Ahead(s, p, k)}
<1>1. /\ s.kids \in [Lists -> Seq(Items)] /\ s.own \in [Items -> Seq(Nat)]
  BY DEF Whole, Shaped
<1>2. n \in Nat
  <2>1. list \in Seq(Items)
    BY <1>1
  <2>2. QED
    BY <2>1
<1>3. Advancing(s, p)
  BY AheadIs
<1>4. /\ Ahead(s, p, 1) = Len(Header(s)[p])
      /\ \A k \in 1 .. n + 1 : Ahead(s, p, k) \in Nat
      /\ \A k \in 1 .. n :
           /\ SizeOf(s, list[k]) \in Nat
           /\ Ahead(s, p, k + 1) = Ahead(s, p, k) + SizeOf(s, list[k])
  BY <1>3 DEF Advancing
<1>5. ASSUME NEW k \in 1 .. n
      PROVE  /\ list[k] \in Lists
             /\ pos[list[k]] =
                  IF k > 1 THEN pos[list[k - 1]] + SizeOf(s, list[k - 1])
                  ELSE IF p = Root THEN 0 ELSE pos[p] + Len(s.own[p])
  <2>1. list[k] \in Lists
    BY KidsAlive
  <2>2. FixedAt(pos, s, list[k]) =
          IF k > 1 THEN pos[list[k - 1]] + SizeOf(s, list[k - 1])
          ELSE IF p = Root THEN 0 ELSE pos[p] + Len(s.own[p])
    BY FixedAtIs
  <2>3. pos[list[k]] = FixedAt(pos, s, list[k])
    <3> HIDE DEF list
    <3>1. QED
      BY <2>1 DEF Fixing
  <2>4. QED
    BY <2>1, <2>2, <2>3
<1>6. pos[Root] = 0
  BY DEF Fixing, FixedAt, Lists
<1> HIDE DEF list, n
<1>7. ASSUME Failed # {} PROVE FALSE
  <2>1. Failed \subseteq Nat
    BY <1>2
  <2>2. PICK k \in Failed : \A j \in Failed : k <= j
    <3> HIDE DEF Failed
    <3>1. Min(Failed) \in Failed /\ \A j \in Failed : Min(Failed) <= j
      BY <1>7, <2>1, Least
    <3>2. QED
      BY <3>1
  <2>3. k \in 1 .. n /\ pos[list[k]] # pos[p] + Ahead(s, p, k)
    BY <2>2
  <2>4. CASE k > 1
    <3> DEFINE j == k - 1
               b == list[j]
    <3>1. j \in 1 .. n /\ j \in 1 .. n + 1 /\ ~ (k <= j) /\ j + 1 = k
      BY <1>2, <2>3, <2>4
    <3>2. pos[list[k]] = pos[b] + SizeOf(s, b)
      BY <1>5, <2>3, <2>4
    <3> HIDE DEF j
    <3>3. pos[b] = pos[p] + Ahead(s, p, j)
      BY <2>2, <3>1
    <3>4. /\ SizeOf(s, b) \in Nat /\ Ahead(s, p, j) \in Nat
          /\ Ahead(s, p, k) = Ahead(s, p, j) + SizeOf(s, b)
      BY <1>4, <3>1
    <3> HIDE DEF b, Failed
    <3>5. QED
      BY <2>3, <3>2, <3>3, <3>4
  <2>5. CASE ~ (k > 1)
    <3>1. k = 1
      BY <1>2, <2>3, <2>5
    <3>2. pos[list[k]] = IF p = Root THEN 0 ELSE pos[p] + Len(s.own[p])
      BY <1>5, <2>3, <2>5
    <3>3. CASE p = Root
      <4> DEFINE none == <<>>
      <4>1. Len(none) = 0
        OBVIOUS
      <4>2. Header(s)[p] = none
        BY <3>3 DEF Header
      <4> HIDE DEF none, Failed
      <4>3. pos[p] + Ahead(s, p, k) = 0
        BY <1>4, <1>6, <3>1, <3>3, <4>1, <4>2
      <4>4. QED
        BY <2>3, <3>2, <3>3, <4>3
    <3>4. CASE p # Root
      <4>1. Header(s)[p] = s.own[p]
        BY <1>1, <3>4, HeaderIs
      <4> HIDE DEF Failed
      <4>2. QED
        BY <1>4, <2>3, <3>1, <3>2, <3>4, <4>1
    <3>5. QED
      BY <3>3, <3>4
  <2>6. QED
    BY <2>4, <2>5
<1>8. QED
  BY <1>7 DEF list, n

(* And of all items.                                                         *)
LEMMA FixingSteps ==
  ASSUME NEW s, Whole(s, {}), NEW depth, Layered(s, depth),
         NEW pos, Fixing(pos, s)
  PROVE  Stepping(pos, s)
<1> DEFINE B == {i \in Lists : pos[i] \notin Nat}
<1>1. /\ pos = [i \in Lists |-> pos[i]]
      /\ \A i \in Lists : pos[i] = FixedAt(pos, s, i)
  BY DEF Fixing
<1>2. pos[Root] = 0
  BY <1>1 DEF FixedAt, Lists
<1>3. ASSUME B # {} PROVE FALSE
  <2>1. B \subseteq Lists
    OBVIOUS
  <2>2. PICK i \in B : Foremost(s, B, i)
    <3> HIDE DEF B
    <3>1. QED
      BY <1>3, <2>1, Shallowest
  <2>3. i \in Lists /\ pos[i] \notin Nat
    BY <2>2
  <2>4. i # Root
    BY <1>2, <2>3
  <2>5. Linked(s, i)
    <3>1. ASSUME ~ Linked(s, i) PROVE FALSE
      <4>1. FixedAt(pos, s, i) = 0
        BY <3>1 DEF FixedAt
      <4>2. QED
        BY <1>1, <2>3, <4>1
    <3>2. QED
      BY <3>1
  <2>6. PICK p \in Lists : \E k \in 1 .. Len(s.kids[p]) : s.kids[p][k] = i
    BY <2>5 DEF Linked, Contains, Lists
  <2>7. PICK k \in 1 .. Len(s.kids[p]) : s.kids[p][k] = i
    BY <2>6
  <2>8. p \notin B
    BY <2>2, <2>7 DEF Foremost
  <2>9. pos[p] \in Nat
    BY <2>8
  <2> HIDE DEF B
  <2>10. pos[i] = pos[p] + Ahead(s, p, k)
    <3>1. \A l \in 1 .. Len(s.kids[p]) :
            pos[s.kids[p][l]] = pos[p] + Ahead(s, p, l)
      BY <2>9, FixingKids
    <3>2. QED
      BY <2>7, <3>1
  <2>11. Ahead(s, p, k) \in Nat
    <3>1. Advancing(s, p)
      BY AheadIs
    <3> DEFINE n == Len(s.kids[p])
    <3>2. n \in Nat
      <4>1. s.kids[p] \in Seq(Items)
        BY DEF Whole, Shaped
      <4>2. QED
        BY <4>1
    <3>3. \A l \in 1 .. n + 1 : Ahead(s, p, l) \in Nat
      BY <3>1 DEF Advancing
    <3>4. k \in 1 .. n
      OBVIOUS
    <3> HIDE DEF n
    <3>5. k \in 1 .. n + 1
      BY <3>2, <3>4
    <3>6. QED
      BY <3>3, <3>5
  <2>12. QED
    BY <2>3, <2>9, <2>10, <2>11
<1>4. \A i \in Lists : pos[i] \in Nat
  BY <1>3
<1>5. pos \in [Lists -> Nat]
  BY <1>1, <1>4
<1>6. ASSUME NEW p \in Lists
      PROVE  \A k \in 1 .. Len(s.kids[p]) :
               pos[s.kids[p][k]] = pos[p] + Ahead(s, p, k)
  BY <1>4, FixingKids
<1>7. QED
  BY <1>2, <1>5, <1>6 DEF Stepping

(* Items at such positions are one behind the other.                         *)
LEMMA SteppingOrdered ==
  ASSUME NEW s, Whole(s, {}), NEW depth, Layered(s, depth),
         NEW g, Stepping(g, s),
         NEW u, u.kids = s.kids, u.kind = s.kind, u.own = s.own,
         u.position = [i \in Items |-> g[i]]
  PROVE  \E end : Ordered(u, end)
<1> DEFINE end == [i \in Lists |-> g[i] + SizeOf(s, i)]
<1>1. /\ s.kids \in [Lists -> Seq(Items)] /\ s.own \in [Items -> Seq(Nat)]
      /\ Live(u) = Live(s) /\ Live(s) \subseteq Lists
  BY DEF Whole, Shaped, Live, Lists
<1>2. /\ g \in [Lists -> Nat] /\ g[Root] = 0
      /\ \A p \in Lists : \A k \in 1 .. Len(s.kids[p]) :
           g[s.kids[p][k]] = g[p] + Ahead(s, p, k)
  BY DEF Stepping
<1>3. \A p \in Lists : Len(s.kids[p]) \in Nat
  <2> SUFFICES ASSUME NEW p \in Lists PROVE Len(s.kids[p]) \in Nat
    OBVIOUS
  <2>1. s.kids[p] \in Seq(Items)
    BY <1>1
  <2>2. QED
    BY <2>1
<1>4. \A p \in Lists : SizeOf(s, p) \in Nat
  <2> SUFFICES ASSUME NEW p \in Lists PROVE SizeOf(s, p) \in Nat
    OBVIOUS
  <2>1. Advancing(s, p)
    BY AheadIs
  <2> DEFINE n == Len(s.kids[p])
             last == n + 1
  <2>2. last \in 1 .. last
    <3>1. n \in Nat
      BY <1>3
    <3> HIDE DEF n
    <3>2. QED
      BY <3>1
  <2>3. /\ \A k \in 1 .. last : Ahead(s, p, k) \in Nat
        /\ SizeOf(s, p) = Ahead(s, p, last)
    BY <2>1 DEF Advancing
  <2> HIDE DEF last
  <2>4. QED
    BY <2>2, <2>3
<1>5. end \in [Lists -> Nat] /\ \A i \in Lists : end[i] = g[i] + SizeOf(s, i)
  <2>1. \A i \in Lists : g[i] + SizeOf(s, i) \in Nat
    <3> SUFFICES ASSUME NEW i \in Lists PROVE g[i] + SizeOf(s, i) \in Nat
      OBVIOUS
    <3>1. g[i] \in Nat /\ SizeOf(s, i) \in Nat
      BY <1>2, <1>4
    <3>2. QED
      BY <3>1
  <2>2. QED
    BY <2>1
<1> HIDE DEF end
<1>6. \A i \in Items : u.position[i] = g[i]
  OBVIOUS
<1>7. \A i \in Items : u.kind[i] # "free" => u.position[i] \in Nat
  BY <1>2, <1>6 DEF Lists
<1>8. ASSUME NEW p \in Live(u)
      PROVE  Row(u.kids[p], u.position, end, Inner(u, p), end[p])
  <2> DEFINE list == s.kids[p]
             n == Len(list)
             from == Inner(u, p)
             pos == u.position
             start == g[p]
  <2>1. p \in Lists /\ n \in Nat
    BY <1>1, <1>3, <1>8
  <2>2. Advancing(s, p)
    BY <2>1, AheadIs
  <2>3. /\ Ahead(s, p, 1) = Len(Header(s)[p])
        /\ \A k \in 1 .. n : Ahead(s, p, k + 1) = Ahead(s, p, k) + SizeOf(s, list[k])
        /\ \A k \in 1 .. n : Ahead(s, p, k) \in Nat /\ SizeOf(s, list[k]) \in Nat
        /\ SizeOf(s, p) = Ahead(s, p, n + 1)
    <3>1. \A k \in 1 .. n : k \in 1 .. n + 1
      <4> HIDE DEF n
      <4>1. QED
        BY <2>1
    <3>2. \A k \in 1 .. n + 1 : Ahead(s, p, k) \in Nat
      BY <2>2 DEF Advancing
    <3>3. QED
      BY <2>2, <3>1, <3>2 DEF Advancing
  <2>4. \A k \in 1 .. n : /\ list[k] \in Items /\ list[k] \in Lists
                          /\ g[list[k]] = start + Ahead(s, p, k)
    <3>1. \A k \in 1 .. n : list[k] \in Items /\ list[k] \in Lists
      BY <2>1, KidsAlive
    <3>2. QED
      BY <1>2, <2>1, <3>1
  <2>5. from = start + Ahead(s, p, 1)
    <3>1. Inner(s, p) = Start(s, p) + Len(Header(s)[p])
      BY <1>1, <2>1, HeaderIs
    <3>2. \A i \in Lists : i # Root => Header(s)[i] = s.own[i]
      BY <1>1, HeaderIs
    <3>3. CASE p = Root
      <4> DEFINE none == <<>>
      <4>1. Len(none) = 0
        OBVIOUS
      <4>2. Header(s)[p] = none
        BY <3>3 DEF Header
      <4> HIDE DEF none
      <4>3. QED
        BY <1>2, <2>3, <3>3, <4>1, <4>2 DEF Inner
    <3>4. CASE p # Root
      <4>1. p \in Items
        BY <2>1, <3>4 DEF Lists
      <4>2. u.position[p] = g[p]
        BY <1>6, <4>1
      <4>3. Header(s)[p] = s.own[p]
        BY <2>1, <3>2, <3>4
      <4>4. QED
        BY <2>3, <3>4, <4>2, <4>3 DEF Inner
    <3>5. QED
      BY <3>3, <3>4
  <2>6. start \in Nat
    BY <1>2, <2>1
  <2> HIDE DEF list, n, from, start
  <2>7. ASSUME NEW k \in 1 .. n + 1
        PROVE  Mark(list, end, from, k) = start + Ahead(s, p, k)
    <3>1. CASE k = 1
      BY <2>5, <3>1 DEF Mark
    <3>2. CASE k # 1
      <4> DEFINE j == k - 1
                 b == list[j]
      <4>1. j \in 1 .. n /\ j + 1 = k
        BY <2>1, <3>2
      <4>2. Mark(list, end, from, k) = end[b]
        BY <3>2 DEF Mark
      <4> HIDE DEF j
      <4>3. /\ b \in Lists /\ g[b] = start + Ahead(s, p, j)
            /\ Ahead(s, p, k) = Ahead(s, p, j) + SizeOf(s, b)
            /\ Ahead(s, p, j) \in Nat /\ SizeOf(s, b) \in Nat
        BY <2>3, <2>4, <4>1
      <4>4. end[b] = g[b] + SizeOf(s, b)
        BY <1>5, <4>3
      <4> HIDE DEF b
      <4>5. QED
        BY <2>6, <4>2, <4>3, <4>4
    <3>3. QED
      BY <3>1, <3>2
  <2>8. ASSUME NEW k \in 1 .. n PROVE pos[list[k]] = Mark(list, end, from, k)
    <3>1. k \in 1 .. n + 1
      BY <2>1
    <3>2. pos[list[k]] = g[list[k]]
      BY <1>6, <2>4
    <3> HIDE DEF pos
    <3>3. QED
      BY <2>4, <2>7, <3>1, <3>2
  <2>9. end[p] = Mark(list, end, from, n + 1)
    <3>1. n + 1 \in 1 .. n + 1
      BY <2>1
    <3>2. Mark(list, end, from, n + 1) = start + Ahead(s, p, n + 1)
      BY <2>7, <3>1
    <3>3. end[p] = start + SizeOf(s, p)
      BY <1>5, <2>1 DEF start
    <3>4. QED
      BY <2>3, <3>2, <3>3
  <2> HIDE DEF pos
  <2>10. Row(list, pos, end, from, end[p])
    BY <2>8, <2>9 DEF Row, n
  <2>11. QED
    BY <2>10 DEF list, pos, from
<1>9. Ordered(u, end)
  BY <1>5, <1>7, <1>8 DEF Ordered
<1>10. QED
  BY <1>9

(* Context::Fixup puts the items one behind the other.                       *)
LEMMA FixupOrdered ==
  ASSUME Whole(t, {}), NEW depth, Layered(t, depth), Fixup
  PROVE  Layered(t', depth) /\ \E end : Ordered(t', end)
<1> DEFINE at == FixedPositions(t)
<1>1. t' = [t EXCEPT !.pmap = <<>>, !.position = at] /\ Fields \subseteq DOMAIN t
  BY DEF Fixup, Whole, Shaped
<1>2. PICK pos : Fixing(pos, t) /\ at = [i \in Items |-> pos[i]]
  BY FixedPositionsIs
<1> HIDE DEF at
<1>3. /\ t'.kids = t.kids /\ t'.kind = t.kind /\ t'.own = t.own
      /\ t'.position = at
  BY <1>1 DEF Fields
<1>4. Stepping(pos, t)
  BY <1>2, FixingSteps
<1>5. \E end : Ordered(t', end)
  BY <1>2, <1>3, <1>4, SteppingOrdered
<1>6. Layered(t', depth)
  BY <1>3, SameLayered
<1>7. QED
  BY <1>5, <1>6

-----------------------------------------------------------------------------
(* The order of a dump *)

(* A row behind a row is one.                                                *)
LEMMA RowJoined ==
  ASSUME NEW T, NEW a \in Seq(T), NEW b \in Seq(T), NEW P, NEW E,
         NEW from, NEW mid, NEW to, Row(a, P, E, from, mid), Row(b, P, E, mid, to)
  PROVE  Row(a \o b, P, E, from, to)
<1> DEFINE c == a \o b
           n == Len(a)
           m == Len(b)
<1>1. /\ n \in Nat /\ m \in Nat /\ Len(c) = n + m
      /\ \A k \in 1 .. n : c[k] = a[k]
  OBVIOUS
<1>2. \A j \in 1 .. m : c[n + j] = b[j]
  OBVIOUS
<1>3. /\ \A k \in 1 .. n : P[a[k]] = Mark(a, E, from, k)
      /\ mid = Mark(a, E, from, n + 1)
  BY DEF Row
<1>4. /\ \A j \in 1 .. m : P[b[j]] = Mark(b, E, mid, j)
      /\ to = Mark(b, E, mid, m + 1)
  BY DEF Row
<1> HIDE DEF c, n, m
<1>5. ASSUME NEW k \in 1 .. n + 1
      PROVE  Mark(c, E, from, k) = Mark(a, E, from, k)
  <2>1. CASE k = 1
    BY <2>1 DEF Mark
  <2>2. CASE k # 1
    <3>1. k - 1 \in 1 .. n
      BY <1>1, <2>2
    <3>2. c[k - 1] = a[k - 1]
      BY <1>1, <3>1
    <3>3. QED
      BY <2>2, <3>2 DEF Mark
  <2>3. QED
    BY <2>1, <2>2
<1>6. ASSUME NEW j \in 1 .. m + 1
      PROVE  Mark(c, E, from, n + j) = Mark(b, E, mid, j)
  <2>1. CASE j = 1
    <3>1. n + 1 \in 1 .. n + 1
      BY <1>1
    <3>2. Mark(c, E, from, n + 1) = mid
      BY <1>3, <1>5, <3>1
    <3>3. Mark(b, E, mid, j) = mid
      BY <2>1 DEF Mark
    <3>4. QED
      BY <2>1, <3>2, <3>3
  <2>2. CASE j # 1
    <3> DEFINE i == j - 1
               x == n + j
    <3>1. i \in 1 .. m /\ x - 1 = n + i /\ x # 1 /\ j - 1 = i
      BY <1>1, <2>2
    <3>2. c[n + i] = b[i]
      <4> HIDE DEF i
      <4>1. QED
        BY <1>2, <3>1
    <3> HIDE DEF i, x
    <3>3. Mark(c, E, from, x) = E[c[n + i]]
      BY <3>1 DEF Mark
    <3>4. Mark(b, E, mid, j) = E[b[i]]
      BY <2>2, <3>1 DEF Mark
    <3>5. QED
      BY <3>2, <3>3, <3>4 DEF x
  <2>3. QED
    BY <2>1, <2>2
<1>7. ASSUME NEW k \in 1 .. n + m PROVE P[c[k]] = Mark(c, E, from, k)
  <2>1. CASE k <= n
    <3>1. k \in 1 .. n /\ k \in 1 .. n + 1
      BY <1>1, <2>1
    <3>2. QED
      BY <1>1, <1>3, <1>5, <3>1
  <2>2. CASE ~ (k <= n)
    <3> DEFINE j == k - n
    <3>1. j \in 1 .. m /\ j \in 1 .. m + 1 /\ n + j = k
      BY <1>1, <2>2
    <3> HIDE DEF j
    <3>2. c[n + j] = b[j] /\ Mark(c, E, from, n + j) = Mark(b, E, mid, j)
      BY <1>2, <1>6, <3>1
    <3>3. QED
      BY <1>4, <3>1, <3>2
  <2>3. QED
    BY <2>1, <2>2
<1>8. to = Mark(c, E, from, (n + m) + 1)
  <2> DEFINE j == m + 1
  <2>1. j \in 1 .. m + 1 /\ n + j = (n + m) + 1
    BY <1>1
  <2>2. to = Mark(b, E, mid, j)
    BY <1>4
  <2> HIDE DEF j
  <2>3. QED
    BY <1>6, <2>1, <2>2
<1>9. Row(c, P, E, from, to)
  <2> DEFINE l == n + m
  <2>1. Len(c) = l
    BY <1>1
  <2> HIDE DEF l
  <2>2. QED
    BY <1>7, <1>8, <2>1 DEF Row, l
<1>10. QED
  BY <1>9 DEF c

(* The items of a list are where those that are put together for them are.   *)
Running(list, first, all, P, E, S, I) ==
  /\ Len(list) \in Nat /\ first \in Seq(Items)
  /\ \A k \in 1 .. Len(list) :
       /\ all[list[k]] \in Seq(Items)
       /\ Row(all[list[k]], S, I, P[list[k]], E[list[k]])

(* Then so is the list.                                                      *)
LEMMA RowGathered ==
  ASSUME NEW list, NEW first, NEW all, NEW P, NEW E, NEW S, NEW I,
         Running(list, first, all, P, E, S, I),
         NEW start, NEW from, NEW to,
         Row(first, S, I, start, from), Row(list, P, E, from, to)
  PROVE  Row(Gathered(list, first, all)[Len(list)], S, I, start, to)
<1> DEFINE a == Gathered(list, first, all)
           n == Len(list)
           Failed == {k \in 0 .. n :
                        ~ Row(a[k], S, I, start, Mark(list, E, from, k + 1))}
<1>0. /\ Len(list) \in Nat /\ first \in Seq(Items)
      /\ \A k \in 1 .. Len(list) : all[list[k]] \in Seq(Items)
  BY DEF Running
<1>a. Grows(a, list, first, all)
  BY <1>0, GatheredIs
<1>b. \A k \in 0 .. n : a[k] \in Seq(Items)
  BY <1>0, GatheredTyped
<1> HIDE DEF a
<1>1. a[0] = first /\ \A k \in 1 .. n : a[k] = a[k - 1] \o all[list[k]]
  BY <1>a DEF Grows
<1>2. /\ n \in Nat
      /\ \A k \in 1 .. n :
           /\ all[list[k]] \in Seq(Items)
           /\ Row(all[list[k]], S, I, P[list[k]], E[list[k]])
  BY DEF Running
<1>3. /\ \A k \in 1 .. n : P[list[k]] = Mark(list, E, from, k)
      /\ to = Mark(list, E, from, n + 1)
  <2>1. Row(list, P, E, from, to)
    OBVIOUS
  <2>2. QED
    BY <2>1 DEF Row
<1> HIDE DEF n
<1>4. ASSUME Failed # {} PROVE FALSE
  <2>1. Failed \subseteq Nat
    BY <1>2
  <2>2. PICK k \in Failed : \A j \in Failed : k <= j
    <3> HIDE DEF Failed
    <3>1. Min(Failed) \in Failed /\ \A j \in Failed : Min(Failed) <= j
      BY <1>4, <2>1, Least
    <3>2. QED
      BY <3>1
  <2>3. k \in 0 .. n /\ ~ Row(a[k], S, I, start, Mark(list, E, from, k + 1))
    BY <2>2
  <2>4. CASE k = 0
    <3>1. Mark(list, E, from, k + 1) = from
      BY <2>4 DEF Mark
    <3>2. QED
      BY <1>1, <2>3, <2>4, <3>1
  <2>5. CASE k # 0
    <3> DEFINE j == k - 1
               x == a[j]
               y == all[list[k]]
    <3>1. k \in 1 .. n /\ j \in 0 .. n /\ ~ (k <= j) /\ j + 1 = k
      BY <1>2, <2>3, <2>5
    <3>2. Row(a[j], S, I, start, Mark(list, E, from, j + 1))
      <4> HIDE DEF j
      <4>1. QED
        BY <2>2, <3>1
    <3>3. x \in Seq(Items) /\ y \in Seq(Items) /\ a[k] = x \o y
      <4> HIDE DEF Failed
      <4>1. QED
        BY <1>b, <1>1, <1>2, <3>1
    <3>4. Row(x, S, I, start, P[list[k]])
      <4> HIDE DEF j, Failed
      <4>1. QED
        BY <1>3, <3>1, <3>2
    <3>5. Row(y, S, I, P[list[k]], E[list[k]])
      <4> HIDE DEF j, Failed
      <4>1. QED
        BY <1>2, <3>1
    <3>6. Mark(list, E, from, k + 1) = E[list[k]]
      <4>1. k + 1 # 1 /\ (k + 1) - 1 = k
        BY <3>1
      <4>2. QED
        BY <4>1 DEF Mark
    <3> HIDE DEF x, y, Failed
    <3>7. Row(x \o y, S, I, start, E[list[k]])
      BY <3>3, <3>4, <3>5, RowJoined
    <3>8. QED
      BY <2>3, <3>3, <3>6, <3>7
  <2>6. QED
    BY <2>4, <2>5
<1>5. n \in 0 .. n
  BY <1>2
<1>6. Row(a[n], S, I, start, to)
  BY <1>3, <1>4, <1>5
<1>7. QED
  BY <1>6 DEF a, n

(* x is one of the sequence. *)
Among(x, seq) == \E k \in 1 .. Len(seq) : seq[k] = x

(* What is among two sequences is among what they are joined to.             *)
LEMMA AmongJoined ==
  ASSUME NEW T, NEW a \in Seq(T), NEW b \in Seq(T), NEW x
  PROVE  Among(x, a \o b) <=> Among(x, a) \/ Among(x, b)
<1> DEFINE c == a \o b
           n == Len(a)
           m == Len(b)
<1>1. /\ n \in Nat /\ m \in Nat /\ Len(c) = n + m
      /\ \A k \in 1 .. n : c[k] = a[k]
  OBVIOUS
<1>2. \A j \in 1 .. m : c[n + j] = b[j]
  OBVIOUS
<1>a. /\ Among(x, c) <=> \E k \in 1 .. n + m : c[k] = x
      /\ Among(x, a) <=> \E k \in 1 .. n : a[k] = x
      /\ Among(x, b) <=> \E k \in 1 .. m : b[k] = x
  <2> DEFINE l == n + m
  <2>1. Len(c) = l /\ Len(a) = n /\ Len(b) = m
    BY <1>1
  <2> HIDE DEF l, c, n, m
  <2>2. QED
    BY <2>1 DEF Among, l
<1> HIDE DEF c, n, m
<1>3. ASSUME NEW k \in 1 .. n + m, c[k] = x PROVE Among(x, a) \/ Among(x, b)
  <2>1. CASE k <= n
    <3>1. k \in 1 .. n
      BY <1>1, <2>1
    <3>2. QED
      BY <1>1, <1>3, <1>a, <3>1
  <2>2. CASE ~ (k <= n)
    <3> DEFINE j == k - n
    <3>1. j \in 1 .. m /\ n + j = k
      BY <1>1, <2>2
    <3> HIDE DEF j
    <3>2. QED
      BY <1>2, <1>3, <1>a, <3>1
  <2>3. QED
    BY <2>1, <2>2
<1>4. ASSUME NEW k \in 1 .. n, a[k] = x PROVE Among(x, c)
  <2>1. k \in 1 .. n + m
    BY <1>1
  <2>2. QED
    BY <1>1, <1>4, <1>a, <2>1
<1>5. ASSUME NEW j \in 1 .. m, b[j] = x PROVE Among(x, c)
  <2> DEFINE k == n + j
  <2>1. k \in 1 .. n + m /\ c[k] = x
    BY <1>1, <1>2, <1>5
  <2> HIDE DEF k
  <2>2. QED
    BY <1>a, <2>1
<1>6. QED
  BY <1>3, <1>4, <1>5, <1>a DEF c

(* What is put together for a list is sequences. *)
Sequenced(T, list, first, all) ==
  /\ Len(list) \in Nat /\ first \in Seq(T)
  /\ \A k \in 1 .. Len(list) : all[list[k]] \in Seq(T)

(* x is in one of them. *)
AmongThem(x, list, first, all) ==
  \/ Among(x, first)
  \/ \E k \in 1 .. Len(list) : Among(x, all[list[k]])

(* So it is with what is put together for a list.                            *)
LEMMA AmongGathered ==
  ASSUME NEW T, NEW list, NEW first, NEW all, Sequenced(T, list, first, all),
         NEW x
  PROVE  Among(x, Gathered(list, first, all)[Len(list)]) <=>
           AmongThem(x, list, first, all)
<1> DEFINE a == Gathered(list, first, all)
           n == Len(list)
           Within(m) == \/ Among(x, first)
                        \/ \E k \in 1 .. m : Among(x, all[list[k]])
           Failed == {m \in 0 .. n : ~ (Among(x, a[m]) <=> Within(m))}
<1>0. /\ Len(list) \in Nat /\ first \in Seq(T)
      /\ \A k \in 1 .. Len(list) : all[list[k]] \in Seq(T)
  BY DEF Sequenced
<1>a. Grows(a, list, first, all)
  BY <1>0, GatheredIs
<1>b. \A k \in 0 .. n : a[k] \in Seq(T)
  BY <1>0, GatheredTyped
<1> HIDE DEF a
<1>1. a[0] = first /\ \A k \in 1 .. n : a[k] = a[k - 1] \o all[list[k]]
  BY <1>a DEF Grows
<1>2. n \in Nat /\ \A k \in 1 .. n : all[list[k]] \in Seq(T)
  BY <1>0
<1> HIDE DEF n
<1>3. ASSUME Failed # {} PROVE FALSE
  <2>1. Failed \subseteq Nat
    BY <1>2
  <2>2. PICK k \in Failed : \A j \in Failed : k <= j
    <3> HIDE DEF Failed
    <3>1. Min(Failed) \in Failed /\ \A j \in Failed : Min(Failed) <= j
      BY <1>3, <2>1, Least
    <3>2. QED
      BY <3>1
  <2>3. k \in 0 .. n /\ ~ (Among(x, a[k]) <=> Within(k))
    BY <2>2
  <2>4. CASE k = 0
    <3>1. 1 .. k = {}
      BY <2>4
    <3>2. Within(k) <=> Among(x, first)
      BY <3>1
    <3> HIDE DEF Within
    <3>3. QED
      BY <1>1, <2>3, <2>4, <3>2
  <2>5. CASE k # 0
    <3> DEFINE j == k - 1
               p == a[j]
               q == all[list[k]]
    <3>1. k \in 1 .. n /\ j \in 0 .. n /\ ~ (k <= j) /\ j + 1 = k
      BY <1>2, <2>3, <2>5
    <3>2. Among(x, a[j]) <=> Within(j)
      <4> HIDE DEF j, Within
      <4>1. QED
        BY <2>2, <3>1
    <3>3. p \in Seq(T) /\ q \in Seq(T) /\ a[k] = p \o q
      <4> HIDE DEF Failed
      <4>1. QED
        BY <1>b, <1>1, <1>2, <3>1
    <3>4. 1 .. k = 1 .. j \union {k}
      BY <3>1
    <3>5. Within(k) <=> Within(j) \/ Among(x, q)
      <4> HIDE DEF j
      <4>1. QED
        BY <3>4
    <3> HIDE DEF Failed, Within, p, q, j
    <3>6. Among(x, p \o q) <=> Among(x, p) \/ Among(x, q)
      BY <3>3, AmongJoined
    <3>7. QED
      BY <2>3, <3>2, <3>3, <3>5, <3>6 DEF p
  <2>6. QED
    BY <2>4, <2>5
<1>4. n \in 0 .. n
  BY <1>2
<1>5. Among(x, a[n]) <=> Within(n)
  <2> HIDE DEF Within
  <2>1. QED
    BY <1>3, <1>4
<1>6. QED
  BY <1>5 DEF a, n, AmongThem

Associating(S) == \A u, v, w \in S : (u \o v) \o w = u \o (v \o w)

(* Three sequences.                                                          *)
LEMMA Rebracketed ==
  ASSUME NEW T
  PROVE  Associating(Seq(T))
<1>1. \A u, v, w \in Seq(T) : (u \o v) \o w = u \o (v \o w)
  OBVIOUS
<1>2. QED
  BY <1>1, Zenon DEF Associating

(* A sequence that is put in front of the first is in front of it all.       *)
LEMMA GatheredBehind ==
  ASSUME NEW T, NEW list, Len(list) \in Nat, NEW x \in Seq(T),
         NEW y \in Seq(T), NEW all,
         \A k \in 1 .. Len(list) : all[list[k]] \in Seq(T)
  PROVE  Gathered(list, x \o y, all)[Len(list)]
           = x \o Gathered(list, y, all)[Len(list)]
<1> DEFINE a == Gathered(list, x \o y, all)
           b == Gathered(list, y, all)
           n == Len(list)
           Failed == {k \in 0 .. n : a[k] # x \o b[k]}
<1>a. Grows(a, list, x \o y, all) /\ Grows(b, list, y, all)
  BY GatheredIs
<1>b. \A k \in 0 .. n : b[k] \in Seq(T)
  BY GatheredTyped
<1> HIDE DEF a, b
<1>1. a[0] = x \o y /\ \A k \in 1 .. n : a[k] = a[k - 1] \o all[list[k]]
  BY <1>a DEF Grows
<1>2. b[0] = y /\ \A k \in 1 .. n : b[k] = b[k - 1] \o all[list[k]]
  BY <1>a DEF Grows
<1>3. n \in Nat /\ \A k \in 1 .. n : all[list[k]] \in Seq(T)
  OBVIOUS
<1> HIDE DEF n
<1>4. ASSUME Failed # {} PROVE FALSE
  <2>1. Failed \subseteq Nat
    BY <1>3
  <2>2. PICK k \in Failed : \A j \in Failed : k <= j
    <3> HIDE DEF Failed
    <3>1. Min(Failed) \in Failed /\ \A j \in Failed : Min(Failed) <= j
      BY <1>4, <2>1, Least
    <3>2. QED
      BY <3>1
  <2>3. k \in 0 .. n /\ a[k] # x \o b[k]
    BY <2>2
  <2>4. k # 0
    BY <1>1, <1>2, <2>3
  <2>5. k \in 1 .. n /\ k - 1 \in 0 .. n /\ ~ (k <= k - 1)
    BY <1>3, <2>3, <2>4
  <2>6. a[k - 1] = x \o b[k - 1]
    BY <2>2, <2>5
  <2> HIDE DEF Failed
  <2> DEFINE p == b[k - 1]
             q == all[list[k]]
  <2>7. p \in Seq(T) /\ q \in Seq(T) /\ b[k] = p \o q
    BY <1>2, <1>3, <1>b, <2>5
  <2>8. a[k] = (x \o p) \o q
    BY <1>1, <2>5, <2>6
  <2> HIDE DEF p, q
  <2>9. (x \o p) \o q = x \o (p \o q)
    <3> DEFINE X == Seq(T)
    <3>1. Associating(X)
      BY Rebracketed
    <3>2. p \in X /\ q \in X /\ x \in X
      BY <2>7
    <3> HIDE DEF X
    <3>3. QED
      BY <3>1, <3>2, Zenon DEF Associating
  <2>10. QED
    BY <2>3, <2>7, <2>8, <2>9
<1>5. n \in 0 .. n
  BY <1>3
<1>6. QED
  BY <1>4, <1>5 DEF a, b, n

(* What is behind the first of a sequence.                                   *)
LEMMA TailOfJoined ==
  ASSUME NEW T, NEW c \in T, NEW q \in Seq(T)
  PROVE  Tail(<<c>> \o q) = q /\ <<c>> \o <<>> = <<c>>
<1>1. Tail(<<c>> \o q) = q
  OBVIOUS
<1>2. <<c>> \o <<>> = <<c>>
  OBVIOUS
<1>3. QED
  BY <1>1, <1>2

(* The items themselves, with the Context and without it. *)
Itself == [i \in {Root} \union Items |-> <<i>>]
ItsItem == [i \in {Root} \union Items |-> IF i = Root THEN <<>> ELSE <<i>>]

(* The items in the order of a dump.                                         *)
InOrder(s) == Preorder(s, ItsItem)

(* What the items themselves are.                                            *)
LEMMA ItemsThemselves ==
  /\ \A i \in Lists : Itself[i] \in Seq(Lists) /\ ItsItem[i] \in Seq(Lists)
                      /\ ItsItem[i] \in Seq(Items)
  /\ \A i \in Items : i # Root /\ Itself[i] = <<i>> /\ ItsItem[i] = <<i>>
  /\ Root \in Lists /\ Itself[Root] = <<Root>> /\ ItsItem[Root] = <<>>
<1>1. Itself = [i \in Lists |-> <<i>>]
      /\ ItsItem = [i \in Lists |-> IF i = Root THEN <<>> ELSE <<i>>]
  BY Zenon DEF Itself, ItsItem, Lists
<1>2. Root \in Lists /\ \A i \in Items : i # Root /\ i \in Lists
  BY DEF Lists, Items, Root
<1>3. ASSUME NEW i \in Items PROVE <<i>> \in Seq(Items)
  OBVIOUS
<1>4. ASSUME NEW i \in Lists PROVE <<i>> \in Seq(Lists)
  OBVIOUS
<1>5. <<>> \in Seq(Items) /\ <<>> \in Seq(Lists)
  OBVIOUS
<1>6. Itself[Root] = <<Root>> /\ ItsItem[Root] = <<>>
  BY <1>1, <1>2
<1>7. \A i \in Items : Itself[i] = <<i>> /\ ItsItem[i] = <<i>>
  BY <1>1, <1>2
<1>8. ASSUME NEW i \in Lists
      PROVE  /\ Itself[i] \in Seq(Lists) /\ ItsItem[i] \in Seq(Lists)
             /\ ItsItem[i] \in Seq(Items)
  <2>1. CASE i = Root
    BY <1>2, <1>4, <1>5, <1>6, <2>1
  <2>2. CASE i # Root
    <3>1. i \in Items
      BY <2>2 DEF Lists
    <3>2. QED
      BY <1>3, <1>4, <1>7, <3>1
  <2>3. QED
    BY <2>1, <2>2
<1>9. QED
  BY <1>2, <1>6, <1>7, <1>8

(* The order of a dump is that of the items without the Context.             *)
LEMMA OrderIs ==
  ASSUME NEW s, s.kids \in [Lists -> Seq(Items)],
         NEW depth, Layered(s, depth)
  PROVE  /\ Tail(Preorder(s, Itself)[Root]) = InOrder(s)[Root]
         /\ \A i \in Lists : InOrder(s)[i] \in Seq(Items)
<1> DEFINE all == Preorder(s, Itself)
           each == Preorder(s, ItsItem)
           B == {i \in Items : all[i] # each[i]}
<1>1. \A i \in Lists : each[i] \in Seq(Items) /\ each[i] \in Seq(Lists)
  <2>1. \A i \in Lists : each[i] \in Seq(Items)
    BY ItemsThemselves, PreorderTyped
  <2>2. \A i \in Lists : each[i] \in Seq(Lists)
    BY ItemsThemselves, PreorderTyped
  <2>3. QED
    BY <2>1, <2>2
<1>2. ASSUME NEW i \in Lists
      PROVE  /\ all[i] = Gathered(s.kids[i], Itself[i], all)[Len(s.kids[i])]
             /\ each[i] = Gathered(s.kids[i], ItsItem[i], each)[Len(s.kids[i])]
  <2>1. all[i] = Gathered(s.kids[i], Itself[i], all)[Len(s.kids[i])]
    BY PreorderIs
  <2>2. each[i] = Gathered(s.kids[i], ItsItem[i], each)[Len(s.kids[i])]
    BY PreorderIs
  <2>3. QED
    BY <2>1, <2>2
<1> HIDE DEF all, each
<1>3. ASSUME NEW i \in Lists
      PROVE  Len(s.kids[i]) \in Nat
             /\ \A k \in 1 .. Len(s.kids[i]) : s.kids[i][k] \in Items
  <2>1. s.kids[i] \in Seq(Items)
    OBVIOUS
  <2>2. QED
    BY <2>1
<1>4. ASSUME B # {} PROVE FALSE
  <2>1. B \subseteq Lists
    BY DEF Lists
  <2>2. PICK i \in B : \A k \in 1 .. Len(s.kids[i]) : s.kids[i][k] \notin B
    <3> HIDE DEF B
    <3>1. QED
      BY <1>4, <2>1, Deepest
  <2>3. i \in Items /\ i \in Lists /\ all[i] # each[i]
    BY <2>2 DEF Lists
  <2>4. \A k \in 1 .. Len(s.kids[i]) : all[s.kids[i][k]] = each[s.kids[i][k]]
    BY <1>3, <2>2, <2>3
  <2> DEFINE list == s.kids[i]
             first == Itself[i]
  <2>5. Agreeing(list, all, each) /\ Len(list) \in Nat
    BY <1>3, <2>3, <2>4 DEF Agreeing
  <2>6. all[i] = Gathered(list, first, all)[Len(list)]
        /\ each[i] = Gathered(list, first, each)[Len(list)]
    <3>1. Itself[i] = ItsItem[i]
      BY <2>3, ItemsThemselves
    <3>2. QED
      BY <1>2, <2>3, <3>1
  <2> HIDE DEF list, first, B
  <2>7. Gathered(list, first, all)[Len(list)]
          = Gathered(list, first, each)[Len(list)]
    BY <2>5, GatheredSame
  <2>8. QED
    BY <2>3, <2>6, <2>7
<1>5. Root \in Lists /\ Itself[Root] = <<Root>> /\ ItsItem[Root] = <<>>
  BY ItemsThemselves
<1> DEFINE list == s.kids[Root]
           one == <<Root>>
           none == <<>>
<1>6. Agreeing(list, all, each) /\ Len(list) \in Nat
      /\ \A k \in 1 .. Len(list) : each[list[k]] \in Seq(Lists)
  <2>1. \A k \in 1 .. Len(list) :
          all[list[k]] = each[list[k]] /\ each[list[k]] \in Seq(Lists)
    BY <1>1, <1>3, <1>4, <1>5 DEF Lists
  <2>2. QED
    BY <1>3, <1>5, <2>1 DEF Agreeing
<1>7. all[Root] = Gathered(list, one, all)[Len(list)]
      /\ each[Root] = Gathered(list, none, each)[Len(list)]
  BY <1>2, <1>5
<1>8. one \in Seq(Lists) /\ none \in Seq(Lists) /\ one \o none = one
      /\ Tail(one \o each[Root]) = each[Root]
  <2>1. one \in Seq(Lists) /\ none \in Seq(Lists) /\ one \o none = one
    BY <1>5
  <2>2. each[Root] \in Seq(Lists)
    BY <1>1, <1>5
  <2>3. Tail(one \o each[Root]) = each[Root]
    BY <1>5, <2>2, TailOfJoined
  <2>4. QED
    BY <2>1, <2>3
<1> HIDE DEF list, one, none
<1>9. Gathered(list, one, all)[Len(list)] = Gathered(list, one, each)[Len(list)]
  BY <1>6, GatheredSame
<1>10. Gathered(list, one \o none, each)[Len(list)]
         = one \o Gathered(list, none, each)[Len(list)]
  <2>1. Len(list) \in Nat
    BY <1>6
  <2>2. \A k \in 1 .. Len(list) : each[list[k]] \in Seq(Lists)
    BY <1>6
  <2>3. one \in Seq(Lists) /\ none \in Seq(Lists)
    BY <1>8
  <2>4. QED
    BY <2>1, <2>2, <2>3, GatheredBehind
<1>11. all[Root] = one \o each[Root]
  BY <1>7, <1>8, <1>9, <1>10
<1>12. QED
  BY <1>1, <1>8, <1>11 DEF all, each, InOrder

(* Where what an item has itself ends. *)
Inners(s) == [i \in Lists |-> Inner(s, i)]

(* In the order of a dump, an item starts where what the item before it has  *)
(* itself ends.                                                              *)
LEMMA OrderRow ==
  ASSUME NEW s, Whole(s, {}), NEW depth, Layered(s, depth),
         NEW end, Ordered(s, end)
  PROVE  \A i \in Live(s) :
           Row(InOrder(s)[i], s.position, Inners(s), Start(s, i), end[i])
<1> DEFINE each == InOrder(s)
           I == Inners(s)
           B == {i \in Live(s) :
                   ~ Row(each[i], s.position, I, Start(s, i), end[i])}
<1>1. s.kids \in [Lists -> Seq(Items)] /\ Live(s) \subseteq Lists
  BY DEF Whole, Shaped, Live, Lists
<1>2. \A i \in Lists : each[i] \in Seq(Items)
  BY <1>1, OrderIs
<1>3. \A p \in Live(s) : Row(s.kids[p], s.position, end, Inner(s, p), end[p])
  BY DEF Ordered
<1>4. \A i \in Lists : I[i] = Inner(s, i)
  BY DEF Inners
<1>5. ASSUME NEW i \in Lists
      PROVE  each[i] = Gathered(s.kids[i], ItsItem[i], each)[Len(s.kids[i])]
  <2>1. Preorder(s, ItsItem)[i] =
          Gathered(s.kids[i], ItsItem[i], Preorder(s, ItsItem))[Len(s.kids[i])]
    BY <1>1, PreorderIs
  <2>2. QED
    BY <2>1 DEF InOrder
<1> HIDE DEF each, I
<1>6. ASSUME B # {} PROVE FALSE
  <2>1. B \subseteq Lists
    BY <1>1
  <2>2. PICK i \in B : \A k \in 1 .. Len(s.kids[i]) : s.kids[i][k] \notin B
    <3> HIDE DEF B
    <3>1. QED
      BY <1>6, <2>1, Deepest
  <2>3. /\ i \in Live(s) /\ i \in Lists
        /\ ~ Row(each[i], s.position, I, Start(s, i), end[i])
    BY <1>1, <2>2
  <2> DEFINE list == s.kids[i]
             first == ItsItem[i]
             start == Start(s, i)
             from == Inner(s, i)
  <2>4. Len(list) \in Nat /\ first \in Seq(Items)
    <3>1. list \in Seq(Items)
      BY <1>1, <2>3
    <3>2. first \in Seq(Items)
      BY <2>3, ItemsThemselves
    <3>3. QED
      BY <3>1, <3>2
  <2>5. ASSUME NEW k \in 1 .. Len(list)
        PROVE  /\ each[list[k]] \in Seq(Items)
               /\ Row(each[list[k]], s.position, I, s.position[list[k]],
                      end[list[k]])
    <3> DEFINE c == list[k]
    <3>1. c \in Items /\ c \in Lists /\ c \in Live(s)
      BY <2>3, KidsAlive
    <3>2. c \notin B
      BY <2>2
    <3>3. Row(each[c], s.position, I, Start(s, c), end[c])
      BY <3>1, <3>2
    <3> HIDE DEF c
    <3>4. Start(s, c) = s.position[c]
      BY <3>1 DEF Start, Items, Root
    <3>5. QED
      BY <1>2, <3>1, <3>3, <3>4 DEF c
  <2>6. Row(first, s.position, I, start, from)
    <3>1. CASE i = Root
      <4>1. start = from
        BY <3>1 DEF Start, Inner
      <4>2. Row(<<>>, s.position, I, from, from)
        BY RowOfNone
      <4>3. first = <<>>
        BY <3>1, ItemsThemselves
      <4>4. QED
        BY <4>1, <4>2, <4>3
    <3>2. CASE i # Root
      <4>1. i \in Items /\ start = s.position[i] /\ I[i] = from
        BY <1>4, <2>3, <3>2 DEF Start, Lists
      <4>2. first = <<i>>
        BY <4>1, ItemsThemselves
      <4> HIDE DEF start, from
      <4>3. Row(<<i>>, s.position, I, start, from)
        BY <4>1, RowOfOne
      <4>4. QED
        BY <4>2, <4>3
    <3>3. QED
      BY <3>1, <3>2
  <2>7. Row(list, s.position, end, from, end[i])
    BY <1>3, <2>3
  <2>8. each[i] = Gathered(list, first, each)[Len(list)]
    BY <1>5, <2>3
  <2> HIDE DEF list, first, start, from, B
  <2>9. Running(list, first, each, s.position, end, s.position, I)
    BY <2>4, <2>5 DEF Running
  <2>10. Row(Gathered(list, first, each)[Len(list)], s.position, I, start,
             end[i])
    BY <2>6, <2>7, <2>9, RowGathered
  <2>11. QED
    BY <2>3, <2>8, <2>10 DEF start
<1>7. QED
  BY <1>6 DEF each, I

(* The children of what is in the sequence are in it, too. *)
KidsAmong(s, seq) ==
  \A x \in Items : Among(x, seq) =>
    \A k \in 1 .. Len(s.kids[x]) : Among(s.kids[x][k], seq)

(* What is written for an item has its children, and theirs.                 *)
LEMMA OrderClosed ==
  ASSUME NEW s, s.kids \in [Lists -> Seq(Items)],
         NEW depth, Layered(s, depth)
  PROVE  \A i \in Lists :
           /\ KidsAmong(s, InOrder(s)[i])
           /\ \A x : Among(x, InOrder(s)[i]) <=>
                \/ i # Root /\ x = i
                \/ \E k \in 1 .. Len(s.kids[i]) :
                     Among(x, InOrder(s)[s.kids[i][k]])
<1> DEFINE each == InOrder(s)
           B == {i \in Lists : ~ KidsAmong(s, each[i])}
<1>1. \A i \in Lists : each[i] \in Seq(Items)
  BY OrderIs
<1>2. ASSUME NEW i \in Lists
      PROVE  each[i] = Gathered(s.kids[i], ItsItem[i], each)[Len(s.kids[i])]
  <2>1. Preorder(s, ItsItem)[i] =
          Gathered(s.kids[i], ItsItem[i], Preorder(s, ItsItem))[Len(s.kids[i])]
    BY PreorderIs
  <2>2. QED
    BY <2>1 DEF InOrder
<1> HIDE DEF each
<1>3. ASSUME NEW i \in Lists
      PROVE  Len(s.kids[i]) \in Nat
             /\ \A k \in 1 .. Len(s.kids[i]) :
                  s.kids[i][k] \in Items /\ s.kids[i][k] \in Lists
  <2>1. s.kids[i] \in Seq(Items)
    OBVIOUS
  <2>2. \A k \in 1 .. Len(s.kids[i]) : s.kids[i][k] \in Items
    BY <2>1
  <2>3. QED
    BY <2>1, <2>2 DEF Lists
<1>4. ASSUME NEW i \in Lists, NEW x
      PROVE  Among(x, ItsItem[i]) <=> i # Root /\ x = i
  <2> DEFINE none == <<>>
             one == <<i>>
  <2>1. Len(none) = 0 /\ Len(one) = 1 /\ one[1] = i
    OBVIOUS
  <2>2. IF i = Root THEN ItsItem[i] = none ELSE ItsItem[i] = one
    BY ItemsThemselves DEF Lists
  <2> HIDE DEF none, one
  <2>3. ~ Among(x, none) /\ (Among(x, one) <=> x = i)
    BY <2>1 DEF Among
  <2>4. QED
    BY <2>2, <2>3
<1>5. ASSUME NEW i \in Lists, NEW x
      PROVE  Among(x, each[i]) <=>
               \/ i # Root /\ x = i
               \/ \E k \in 1 .. Len(s.kids[i]) : Among(x, each[s.kids[i][k]])
  <2> DEFINE list == s.kids[i]
             first == ItsItem[i]
  <2>1. Len(list) \in Nat
    BY <1>3
  <2>2. \A k \in 1 .. Len(list) : each[list[k]] \in Seq(Items)
    BY <1>1, <1>3
  <2>3. first \in Seq(Items)
    BY ItemsThemselves
  <2>4. each[i] = Gathered(list, first, each)[Len(list)]
    BY <1>2
  <2>5. Among(x, first) <=> i # Root /\ x = i
    BY <1>4
  <2> HIDE DEF list, first
  <2>6. Among(x, Gathered(list, first, each)[Len(list)]) <=>
          AmongThem(x, list, first, each)
    <3>1. Sequenced(Items, list, first, each)
      BY <2>1, <2>2, <2>3 DEF Sequenced
    <3>2. QED
      BY <3>1, AmongGathered
  <2>7. QED
    BY <2>4, <2>5, <2>6 DEF list, AmongThem
<1>6. ASSUME B # {} PROVE FALSE
  <2>1. B \subseteq Lists
    OBVIOUS
  <2>2. PICK i \in B : \A k \in 1 .. Len(s.kids[i]) : s.kids[i][k] \notin B
    <3> HIDE DEF B
    <3>1. QED
      BY <1>6, <2>1, Deepest
  <2>3. i \in Lists /\ ~ KidsAmong(s, each[i])
    BY <2>2
  <2>4. PICK x \in Items : Among(x, each[i])
          /\ \E k \in 1 .. Len(s.kids[x]) : ~ Among(s.kids[x][k], each[i])
    BY <2>3 DEF KidsAmong
  <2>5. PICK k \in 1 .. Len(s.kids[x]) : ~ Among(s.kids[x][k], each[i])
    BY <2>4
  <2> DEFINE c == s.kids[x][k]
  <2>6. c \in Items /\ c \in Lists /\ c # Root /\ ~ Among(c, each[i])
    <3>1. x \in Lists
      BY DEF Lists
    <3>2. QED
      BY <1>3, <2>5, <3>1 DEF Items, Root
  <2>7. Among(c, each[c])
    <3> HIDE DEF c
    <3>1. QED
      BY <1>5, <2>6
  <2>8. CASE x = i
    <3>1. Among(c, each[i])
      BY <1>5, <2>3, <2>7, <2>8
    <3>2. QED
      BY <2>6, <3>1
  <2>9. CASE x # i
    <3>1. PICK j \in 1 .. Len(s.kids[i]) : Among(x, each[s.kids[i][j]])
      BY <1>5, <2>3, <2>4, <2>9
    <3> DEFINE d == s.kids[i][j]
    <3>2. d \in Lists /\ d \notin B
      BY <1>3, <2>2, <2>3
    <3>3. KidsAmong(s, each[d])
      BY <3>2
    <3>4. Among(c, each[d])
      <4> HIDE DEF B
      <4>1. QED
        BY <3>1, <3>3 DEF KidsAmong
    <3>5. Among(c, each[i])
      <4> HIDE DEF B, c
      <4>1. QED
        BY <1>5, <2>3, <3>4
    <3>6. QED
      BY <2>6, <3>5
  <2>10. QED
    BY <2>8, <2>9
<1>7. QED
  BY <1>5, <1>6 DEF each

(* A dump writes every item that is alive.                                   *)
LEMMA OrderHolds ==
  ASSUME NEW s, Whole(s, {}), NEW depth, Layered(s, depth),
         NEW x \in Items, s.kind[x] # "free"
  PROVE  Among(x, InOrder(s)[Root])
<1> DEFINE each == InOrder(s)
           B == {i \in Items : s.kind[i] # "free" /\ ~ Among(i, each[Root])}
<1>1. /\ s.kids \in [Lists -> Seq(Items)]
      /\ \A i \in Items : Listed(s.kids, i) <=> s.kind[i] # "free"
  BY DEF Whole, Shaped, Owned
<1>2. \A i \in Lists :
        /\ KidsAmong(s, each[i])
        /\ \A y : Among(y, each[i]) <=>
             \/ i # Root /\ y = i
             \/ \E k \in 1 .. Len(s.kids[i]) : Among(y, each[s.kids[i][k]])
  BY <1>1, OrderClosed
<1> HIDE DEF each
<1>3. Root \in Lists /\ \A i \in Items : i # Root /\ i \in Lists
  BY DEF Lists, Items, Root
<1>4. ASSUME B # {} PROVE FALSE
  <2>1. B \subseteq Lists
    BY <1>3
  <2>2. PICK i \in B : Foremost(s, B, i)
    <3> HIDE DEF B
    <3>1. QED
      BY <1>4, <2>1, Shallowest
  <2>3. i \in Items /\ s.kind[i] # "free" /\ ~ Among(i, each[Root])
    BY <2>2
  <2>4. PICK p \in Lists : \E k \in 1 .. Len(s.kids[p]) : s.kids[p][k] = i
    BY <1>1, <2>3 DEF Listed
  <2>5. PICK k \in 1 .. Len(s.kids[p]) : s.kids[p][k] = i
    BY <2>4
  <2>6. CASE p = Root
    <3>1. Among(i, each[i])
      BY <1>2, <1>3, <2>3
    <3>2. Among(i, each[Root])
      BY <1>2, <1>3, <2>5, <2>6, <3>1
    <3>3. QED
      BY <2>3, <3>2
  <2>7. CASE p # Root
    <3>1. p \in Items /\ s.kind[p] # "free"
      <4>1. p \in Live(s)
        BY KidsAlive
      <4>2. QED
        BY <2>7, <4>1 DEF Live
    <3>2. p \notin B
      <4> HIDE DEF B
      <4>1. QED
        BY <2>2, <2>5 DEF Foremost
    <3>3. Among(p, each[Root])
      BY <3>1, <3>2
    <3>4. Among(i, each[Root])
      BY <1>2, <1>3, <2>5, <3>1, <3>3 DEF KidsAmong
    <3>5. QED
      BY <2>3, <3>4
  <2>8. QED
    BY <2>6, <2>7
<1>5. QED
  BY <1>4 DEF each

(* Where what is written up to each item of the order ends. *)
Ends(order, own) ==
  LET end[k \in 0 .. Len(order)] ==
        IF k = 0 THEN 0 ELSE end[k - 1] + Len(own[order[k]])
  IN end

(* They are what a row of these items says.                                  *)
LEMMA EndsAre ==
  ASSUME NEW order, Len(order) \in Nat, NEW own, NEW P, NEW I,
         NEW to, Row(order, P, I, 0, to),
         \A k \in 1 .. Len(order) :
           I[order[k]] = P[order[k]] + Len(own[order[k]])
  PROVE  \A k \in 0 .. Len(order) : Ends(order, own)[k] = Mark(order, I, 0, k + 1)
<1> DEFINE n == Len(order)
           row == [k \in 0 .. n |-> Mark(order, I, 0, k + 1)]
           end == CHOOSE end : end = [k \in 0 .. Len(order) |->
                     IF k = 0 THEN 0 ELSE end[k - 1] + Len(own[order[k]])]
           Failed == {k \in 0 .. n : end[k] # row[k]}
<1>1. /\ n \in Nat
      /\ \A k \in 1 .. n : I[order[k]] = P[order[k]] + Len(own[order[k]])
      /\ \A k \in 1 .. n : P[order[k]] = Mark(order, I, 0, k)
  BY DEF Row
<1>2. row[0] = 0
  <2>1. 0 \in 0 .. n /\ 0 + 1 = 1
    BY <1>1
  <2>2. row[0] = Mark(order, I, 0, 0 + 1)
    BY <2>1
  <2>3. QED
    BY <2>1, <2>2 DEF Mark
<1>3. ASSUME NEW k \in 1 .. n
      PROVE  row[k] = row[k - 1] + Len(own[order[k]])
  <2> DEFINE j == k - 1
             l == k + 1
  <2>1. j \in 0 .. n /\ k \in 0 .. n /\ j + 1 = k /\ l # 1 /\ l - 1 = k
    BY <1>1
  <2> HIDE DEF j, l
  <2>2. row[j] = Mark(order, I, 0, k) /\ row[k] = Mark(order, I, 0, l)
    BY <2>1 DEF l
  <2>3. Mark(order, I, 0, l) = I[order[k]]
    BY <2>1 DEF Mark
  <2> HIDE DEF row
  <2>4. row[k] = row[j] + Len(own[order[k]])
    BY <1>1, <2>2, <2>3
  <2>5. QED
    BY <2>4 DEF j
<1>4. row = [k \in 0 .. n |-> row[k]]
  OBVIOUS
<1>a. n = Len(order)
  OBVIOUS
<1> HIDE DEF row, n
<1>5. \E g : g = [k \in 0 .. Len(order) |->
                   IF k = 0 THEN 0 ELSE g[k - 1] + Len(own[order[k]])]
  <2>1. \A k \in 0 .. n :
          row[k] = IF k = 0 THEN 0 ELSE row[k - 1] + Len(own[order[k]])
    <3>1. \A k \in 0 .. n : k = 0 \/ k \in 1 .. n
      BY <1>1
    <3>2. QED
      BY <1>2, <1>3, <3>1
  <2>2. row = [k \in 0 .. n |->
                 IF k = 0 THEN 0 ELSE row[k - 1] + Len(own[order[k]])]
    BY <1>4, <2>1
  <2>3. QED
    BY <1>a, <2>2
<1>6. end = [k \in 0 .. Len(order) |->
               IF k = 0 THEN 0 ELSE end[k - 1] + Len(own[order[k]])]
  BY <1>5, ZenonT(30)
<1>7. Ends(order, own) = end
  BY Zenon DEF Ends
<1> HIDE DEF end
<1>8. \A k \in 0 .. n :
        end[k] = IF k = 0 THEN 0 ELSE end[k - 1] + Len(own[order[k]])
  <2>1. end = [k \in 0 .. n |->
                 IF k = 0 THEN 0 ELSE end[k - 1] + Len(own[order[k]])]
    BY <1>6, <1>a
  <2>2. QED
    BY <2>1
<1>9. ASSUME Failed # {} PROVE FALSE
  <2>1. Failed \subseteq Nat
    BY <1>1
  <2>2. PICK k \in Failed : \A j \in Failed : k <= j
    <3> HIDE DEF Failed
    <3>1. Min(Failed) \in Failed /\ \A j \in Failed : Min(Failed) <= j
      BY <1>9, <2>1, Least
    <3>2. QED
      BY <3>1
  <2>3. k \in 0 .. n /\ end[k] # row[k]
    BY <2>2
  <2>4. k # 0
    BY <1>2, <1>8, <2>3
  <2>5. k \in 1 .. n /\ k - 1 \in 0 .. n /\ ~ (k <= k - 1)
    BY <1>1, <2>3, <2>4
  <2>6. end[k - 1] = row[k - 1]
    BY <2>2, <2>5
  <2> HIDE DEF Failed
  <2>7. end[k] = end[k - 1] + Len(own[order[k]])
    BY <1>8, <2>3, <2>4
  <2>8. row[k] = row[k - 1] + Len(own[order[k]])
    BY <1>3, <2>5
  <2>9. QED
    BY <2>3, <2>6, <2>7, <2>8
<1>10. ASSUME NEW k \in 0 .. n PROVE end[k] = Mark(order, I, 0, k + 1)
  <2>1. end[k] = row[k]
    BY <1>9
  <2>2. row[k] = Mark(order, I, 0, k + 1)
    BY DEF row
  <2>3. QED
    BY <2>1, <2>2
<1>11. QED
  BY <1>7, <1>10 DEF n

(* What is put together in the order of a dump, for lists of children. *)
PreorderOf(kids, has) ==
  LET all[i \in {Root} \union Items] ==
        LET upto[k \in 0..Len(kids[i])] ==
              IF k = 0 THEN has[i] ELSE upto[k - 1] \o all[kids[i][k]]
        IN upto[Len(kids[i])]
  IN all

(* It depends on nothing else.                                               *)
LEMMA SamePreorder ==
  ASSUME NEW s, NEW v, v.kids = s.kids, NEW has
  PROVE  Preorder(v, has) = Preorder(s, has)
<1>1. Preorder(v, has) = PreorderOf(v.kids, has)
  BY Zenon DEF Preorder, PreorderOf
<1>2. Preorder(s, has) = PreorderOf(s.kids, has)
  BY Zenon DEF Preorder, PreorderOf
<1>3. QED
  BY <1>1, <1>2

(* What a dump writes for a label is where the label points to, if the items *)
(* are where their bytes are.                                                *)
LEMMA OrderedDumped ==
  ASSUME NEW s, s.kids = t.kids, s.own = t.own, s.label = t.label,
         Whole(s, {}), NEW depth, Layered(s, depth), NEW end, Ordered(s, end),
         NEW n \in Names, s.label[n] # Unset
  PROVE  ToFilePos(s, s.label[n]) = Targets[n]
<1> DEFINE order == InOrder(s)[Root]
           I == Inners(s)
           i == s.label[n].item
           k == IndexIn(order, i)
           j == k - 1
<1>1. /\ s.kids \in [Lists -> Seq(Items)] /\ Root \in Lists /\ Root \in Live(s)
      /\ i \in Items /\ s.kind[i] # "free"
  BY DEF Whole, Shaped, Owned, Pointers, Live, Lists
<1>2. order \in Seq(Items)
  BY <1>1, OrderIs
<1>3. DumpOrder = order
  <2>1. Tail(Preorder(s, Itself)[Root]) = order
    BY <1>1, OrderIs
  <2>2. DumpOrder = Tail(Preorder(t, Itself)[Root])
    BY Zenon DEF DumpOrder, Itself
  <2>3. Preorder(t, Itself) = Preorder(s, Itself)
    BY SamePreorder
  <2>4. QED
    BY <2>1, <2>2, <2>3
<1>4. Row(order, s.position, I, 0, end[Root])
  <2>1. Row(order, s.position, I, Start(s, Root), end[Root])
    BY <1>1, OrderRow
  <2>2. QED
    BY <2>1 DEF Start
<1>5. Among(i, order)
  BY <1>1, OrderHolds
<1>6. \A x \in Items : I[x] = s.position[x] + Len(s.own[x])
  BY DEF Inners, Inner, Lists, Items, Root
<1> HIDE DEF order, I
<1>7. Len(order) \in Nat /\ \A m \in 1 .. Len(order) : order[m] \in Items
      /\ DOMAIN order = 1 .. Len(order)
  BY <1>2
<1>8. k \in 1 .. Len(order) /\ order[k] = i
  <2>1. \E m \in DOMAIN order : order[m] = i
    BY <1>5, <1>7 DEF Among
  <2>2. k \in DOMAIN order /\ order[k] = i
    BY <2>1, Zenon DEF IndexIn
  <2>3. QED
    BY <1>7, <2>2
<1>9. \A m \in 1 .. Len(order) :
        I[order[m]] = s.position[order[m]] + Len(s.own[order[m]])
  BY <1>6, <1>7
<1>10. \A m \in 0 .. Len(order) :
         Ends(order, s.own)[m] = Mark(order, I, 0, m + 1)
  BY <1>4, <1>7, <1>9, EndsAre
<1>11. Targets[n] = Ends(order, s.own)[j] + s.label[n].offset
  <2>1. Targets = TargetsIn(order)
    <3>1. {TargetsIn(o) : o \in {DumpOrder}} = {TargetsIn(order)}
      BY <1>3
    <3>2. QED
      BY <3>1 DEF Targets
  <2>2. TargetsIn(order) =
          [m \in Names |-> IF t.label[m] = Unset THEN Unset
             ELSE Ends(order, t.own)[IndexIn(order, t.label[m].item) - 1]
                    + t.label[m].offset]
    BY Zenon DEF TargetsIn, Ends
  <2>3. QED
    BY <2>1, <2>2
<1> HIDE DEF k, i
<1>12. j \in 0 .. Len(order) /\ j + 1 = k
  BY <1>7, <1>8
<1> HIDE DEF j
<1>13. Ends(order, s.own)[j] = Mark(order, I, 0, k)
  BY <1>10, <1>12
<1>14. s.position[i] = Mark(order, I, 0, k)
  BY <1>4, <1>8 DEF Row
<1>15. ToFilePos(s, s.label[n]) = s.position[i] + s.label[n].offset
  BY DEF ToFilePos, i
<1>16. QED
  BY <1>11, <1>13, <1>14, <1>15

-----------------------------------------------------------------------------
(* Units *)

(* A row of numbers that does not fall.                                      *)
LEMMA Climbs ==
  ASSUME NEW n \in Nat, NEW g \in [0 .. n -> Nat],
         \A k \in 1 .. n : g[k - 1] <= g[k]
  PROVE  \A a, b \in 0 .. n : a <= b => g[a] <= g[b]
<1> SUFFICES ASSUME NEW a \in 0 .. n
             PROVE  \A b \in 0 .. n : a <= b => g[a] <= g[b]
  OBVIOUS
<1> DEFINE Failed == {b \in 0 .. n : a <= b /\ ~ (g[a] <= g[b])}
<1>1. ASSUME Failed # {} PROVE FALSE
  <2>1. Failed \subseteq Nat
    OBVIOUS
  <2>2. PICK b \in Failed : \A j \in Failed : b <= j
    <3> HIDE DEF Failed
    <3>1. Min(Failed) \in Failed /\ \A j \in Failed : Min(Failed) <= j
      BY <1>1, <2>1, Least
    <3>2. QED
      BY <3>1
  <2>3. b \in 0 .. n /\ a <= b /\ ~ (g[a] <= g[b])
    BY <2>2
  <2>4. a # b
    BY <2>3
  <2> DEFINE c == b - 1
  <2>5. c \in 0 .. n /\ a <= c /\ ~ (b <= c) /\ b \in 1 .. n
    BY <2>3, <2>4
  <2>6. g[c] <= g[b]
    BY <2>5
  <2> HIDE DEF c
  <2>7. g[a] <= g[c]
    BY <2>2, <2>5
  <2> HIDE DEF Failed
  <2> DEFINE u == g[a]
             v == g[c]
             w == g[b]
  <2>8. u \in Nat /\ v \in Nat /\ w \in Nat
    BY <2>3, <2>5
  <2>9. ~ (u <= w) /\ v <= w /\ u <= v
    BY <2>3, <2>6, <2>7
  <2> HIDE DEF u, v, w
  <2>10. QED
    BY <2>8, <2>9
<1>2. QED
  BY <1>1

(* It passes every number between its first and its last.                    *)
LEMMA Passes ==
  ASSUME NEW n \in Nat, NEW g \in [0 .. n -> Nat],
         NEW x \in Nat, g[0] <= x, x < g[n]
  PROVE  \E k \in 1 .. n : g[k - 1] <= x /\ x < g[k]
<1> DEFINE Above == {b \in 0 .. n : x < g[b]}
<1>1. Above \subseteq Nat /\ Above # {}
  OBVIOUS
<1>2. PICK b \in Above : \A j \in Above : b <= j
  <2> HIDE DEF Above
  <2>1. Min(Above) \in Above /\ \A j \in Above : Min(Above) <= j
    BY <1>1, Least
  <2>2. QED
    BY <2>1
<1>3. b \in 0 .. n /\ x < g[b]
  BY <1>2
<1>4. b # 0
  <2>1. g[0] \in Nat
    OBVIOUS
  <2>2. QED
    BY <1>3, <2>1
<1> DEFINE c == b - 1
<1>5. c \in 0 .. n /\ ~ (b <= c) /\ b \in 1 .. n
  BY <1>3, <1>4
<1> HIDE DEF c
<1>6. ~ (x < g[c])
  BY <1>2, <1>5
<1>7. g[c] <= x
  <2>1. g[c] \in Nat
    BY <1>5
  <2>2. QED
    BY <1>6, <2>1
<1>8. QED
  BY <1>3, <1>5, <1>7 DEF c

(* The items of the list end behind where they start. *)
Rising(list, P, E, from) ==
  /\ from \in Nat
  /\ \A k \in 1 .. Len(list) :
       P[list[k]] \in Nat /\ E[list[k]] \in Nat /\ P[list[k]] <= E[list[k]]

(* In a row of them, one is behind the other, and every place between its    *)
(* ends is inside one of them.                                               *)
LEMMA RowRises ==
  ASSUME NEW list, Len(list) \in Nat, NEW P, NEW E, NEW from, NEW to,
         Row(list, P, E, from, to), Rising(list, P, E, from)
  PROVE  /\ to \in Nat /\ from <= to
         /\ \A k, m \in 1 .. Len(list) : k < m => E[list[k]] <= P[list[m]]
         /\ \A k \in 1 .. Len(list) : from <= P[list[k]] /\ E[list[k]] <= to
         /\ \A x \in Nat : from <= x /\ x < to =>
              \E k \in 1 .. Len(list) : P[list[k]] <= x /\ x < E[list[k]]
<1> DEFINE n == Len(list)
           g == [k \in 0 .. n |-> IF k = 0 THEN from ELSE E[list[k]]]
<1>1. n \in Nat
  OBVIOUS
<1>2. /\ from \in Nat
      /\ \A k \in 1 .. n :
           P[list[k]] \in Nat /\ E[list[k]] \in Nat /\ P[list[k]] <= E[list[k]]
  BY DEF Rising
<1>3. /\ \A k \in 1 .. n : P[list[k]] = Mark(list, E, from, k)
      /\ to = Mark(list, E, from, n + 1)
  BY DEF Row
<1> HIDE DEF n
<1>4. /\ g[0] = from /\ 0 \in 0 .. n /\ n \in 0 .. n
      /\ \A k \in 1 .. n : g[k] = E[list[k]] /\ k \in 0 .. n
  BY <1>1
<1>5. g \in [0 .. n -> Nat]
  <2>1. \A k \in 0 .. n : k = 0 \/ k \in 1 .. n
    BY <1>1
  <2>2. QED
    BY <1>2, <2>1
<1> HIDE DEF g
<1>6. ASSUME NEW k \in 1 .. n + 1
      PROVE  k - 1 \in 0 .. n /\ Mark(list, E, from, k) = g[k - 1]
  <2> DEFINE j == k - 1
  <2>1. j \in 0 .. n /\ (k = 1 <=> j = 0) /\ (k # 1 => j \in 1 .. n)
    BY <1>1
  <2>2. Mark(list, E, from, k) = IF k = 1 THEN from ELSE E[list[j]]
    BY DEF Mark
  <2> HIDE DEF j
  <2>3. Mark(list, E, from, k) = g[j]
    BY <1>4, <2>1, <2>2
  <2>4. QED
    BY <2>1, <2>3 DEF j
<1>7. \A k \in 1 .. n : P[list[k]] = g[k - 1] /\ k - 1 \in 0 .. n
  <2>1. \A k \in 1 .. n : k \in 1 .. n + 1
    BY <1>1
  <2>2. QED
    BY <1>3, <1>6, <2>1
<1>8. to = g[n]
  <2>1. n + 1 \in 1 .. n + 1 /\ (n + 1) - 1 = n
    BY <1>1
  <2>2. Mark(list, E, from, n + 1) = g[(n + 1) - 1]
    BY <1>6, <2>1
  <2>3. QED
    BY <1>3, <2>1, <2>2
<1>9. \A k \in 1 .. n : g[k - 1] <= g[k]
  BY <1>2, <1>4, <1>7
<1>10. \A a, b \in 0 .. n : a <= b => g[a] <= g[b]
  BY <1>1, <1>5, <1>9, Climbs
<1>11. to \in Nat /\ from <= to
  <2>1. 0 <= n
    BY <1>1
  <2>2. QED
    BY <1>4, <1>5, <1>8, <1>10, <2>1
<1>12. ASSUME NEW k \in 1 .. n, NEW m \in 1 .. n, k < m
       PROVE  E[list[k]] <= P[list[m]]
  <2> DEFINE j == m - 1
  <2>1. j \in 0 .. n /\ k \in 0 .. n /\ k <= j
    BY <1>1, <1>12
  <2>2. P[list[m]] = g[j] /\ E[list[k]] = g[k]
    BY <1>4, <1>7
  <2> HIDE DEF j
  <2>3. QED
    BY <1>10, <2>1, <2>2
<1>13. ASSUME NEW k \in 1 .. n
       PROVE  from <= P[list[k]] /\ E[list[k]] <= to
  <2> DEFINE j == k - 1
  <2>1. j \in 0 .. n /\ k \in 0 .. n /\ 0 <= j /\ k <= n
    BY <1>1
  <2>2. P[list[k]] = g[j] /\ E[list[k]] = g[k]
    BY <1>4, <1>7
  <2> HIDE DEF j
  <2>3. QED
    BY <1>4, <1>8, <1>10, <2>1, <2>2
<1>14. ASSUME NEW x \in Nat, from <= x, x < to
       PROVE  \E k \in 1 .. n : P[list[k]] <= x /\ x < E[list[k]]
  <2>1. \E k \in 1 .. n : g[k - 1] <= x /\ x < g[k]
    BY <1>1, <1>4, <1>5, <1>8, <1>14, Passes
  <2>2. QED
    BY <1>4, <1>7, <2>1
<1>15. QED
  BY <1>11, <1>12, <1>13, <1>14 DEF n

(* What is put together for the items of a list shows each where it is. *)
Showing(list, all, P, units) ==
  \A k \in 1 .. Len(list) : Shows(all[list[k]], units, P[list[k]])

(* Then it shows what is there.                                              *)
LEMMA ShowsGathered ==
  ASSUME NEW list, NEW first, NEW all, NEW P, NEW E, NEW start,
         Measured(list, first, all, P, E, start),
         NEW to, Row(list, P, E, start + Len(first), to),
         NEW units, Shows(first, units, start), Showing(list, all, P, units)
  PROVE  Shows(Gathered(list, first, all)[Len(list)], units, start)
<1> DEFINE a == Gathered(list, first, all)
           n == Len(list)
           from == start + Len(first)
           Failed == {k \in 0 .. n : ~ Shows(a[k], units, start)}
<1>0. /\ Len(list) \in Nat /\ first \in Seq(Nat) /\ start \in Nat
      /\ \A k \in 1 .. Len(list) : all[list[k]] \in Seq(Nat)
  BY DEF Measured
<1>a. Grows(a, list, first, all)
  BY <1>0, GatheredIs
<1>b. \A k \in 0 .. n : a[k] \in Seq(Nat)
  BY <1>0, GatheredTyped
<1>c. \A k \in 0 .. n : start + Len(a[k]) = Mark(list, E, from, k + 1)
  <2>1. Reaching(list, first, all, E, start)
    BY RowLength
  <2>2. QED
    BY Zenon, <2>1 DEF Reaching
<1>d. \A k \in 1 .. n : P[list[k]] = Mark(list, E, from, k)
  BY DEF Row
<1>e. \A k \in 1 .. n : Shows(all[list[k]], units, P[list[k]])
  BY DEF Showing
<1> HIDE DEF a
<1>1. a[0] = first /\ \A k \in 1 .. n : a[k] = a[k - 1] \o all[list[k]]
  BY <1>a DEF Grows
<1>2. n \in Nat /\ start \in Nat
  BY <1>0
<1>f. \A k \in 1 .. n : all[list[k]] \in Seq(Nat)
  BY <1>0
<1>g. Shows(first, units, start)
  OBVIOUS
<1> HIDE DEF n, from
<1>4. ASSUME Failed # {} PROVE FALSE
  <2>1. Failed \subseteq Nat
    BY <1>2
  <2>2. PICK k \in Failed : \A j \in Failed : k <= j
    <3> HIDE DEF Failed
    <3>1. Min(Failed) \in Failed /\ \A j \in Failed : Min(Failed) <= j
      BY <1>4, <2>1, Least
    <3>2. QED
      BY <3>1
  <2>3. k \in 0 .. n /\ ~ Shows(a[k], units, start)
    BY <2>2
  <2>4. k # 0
    BY <1>1, <1>g, <2>3
  <2> DEFINE j == k - 1
             x == a[j]
             y == all[list[k]]
  <2>5. k \in 1 .. n /\ j \in 0 .. n /\ ~ (k <= j) /\ j + 1 = k
    BY <1>2, <2>3, <2>4
  <2>6. Shows(x, units, start)
    <3> HIDE DEF j
    <3>1. QED
      BY <2>2, <2>5
  <2> HIDE DEF Failed
  <2>7. x \in Seq(Nat) /\ y \in Seq(Nat) /\ a[k] = x \o y
    BY <1>b, <1>1, <1>f, <2>5
  <2>8. P[list[k]] = start + Len(x)
    <3> HIDE DEF j
    <3>1. QED
      BY <1>c, <1>d, <2>5
  <2>9. Shows(y, units, start + Len(x))
    <3>1. Shows(y, units, P[list[k]])
      BY <1>e, <2>5
    <3>2. QED
      BY <2>8, <3>1
  <2> HIDE DEF x, y
  <2>10. Shows(x \o y, units, start)
    BY <1>2, <2>6, <2>7, <2>9, ShowsJoined
  <2>11. QED
    BY <2>3, <2>7, <2>10
<1>5. n \in 0 .. n
  BY <1>2
<1>6. Shows(a[n], units, start)
  BY <1>4, <1>5
<1>7. QED
  BY <1>6 DEF a, n

(* What the items have is what a dump writes.                                *)
LEMMA DumpedShows ==
  ASSUME NEW s, Whole(s, {}), NEW depth, Layered(s, depth),
         NEW end, Ordered(s, end), NEW units, Holding(s, units)
  PROVE  \A i \in Live(s) : Shows(Dumped(s)[i], units, Start(s, i))
<1> DEFINE all == Dumped(s)
           has == Header(s)
           B == {i \in Live(s) : ~ Shows(all[i], units, Start(s, i))}
<1>1. /\ s.kids \in [Lists -> Seq(Items)] /\ s.own \in [Items -> Seq(Nat)]
      /\ Live(s) \subseteq Lists
  BY DEF Whole, Shaped, Live, Lists
<1>2. all = Preorder(s, has)
  BY Zenon DEF Dumped, Header
<1>3. \A i \in Lists : /\ has[i] \in Seq(Nat)
                       /\ Inner(s, i) = Start(s, i) + Len(has[i])
                       /\ i # Root => has[i] = s.own[i]
  BY <1>1, HeaderIs
<1>a. has[Root] = <<>>
  BY DEF Header
<1>b. \A i \in Live(s) : /\ all[i] \in Seq(Nat)
                         /\ Start(s, i) + Len(all[i]) = end[i]
  BY DumpedLength
<1> HIDE DEF has, all
<1>5. /\ \A i \in Items : s.kind[i] # "free" => s.position[i] \in Nat
      /\ \A p \in Live(s) :
           Row(s.kids[p], s.position, end, Inner(s, p), end[p])
  BY DEF Ordered
<1>6. ASSUME B # {} PROVE FALSE
  <2>1. B \subseteq Lists
    BY <1>1
  <2>2. PICK i \in B : \A k \in 1 .. Len(s.kids[i]) : s.kids[i][k] \notin B
    <3> HIDE DEF B
    <3>1. QED
      BY <1>6, <2>1, Deepest
  <2>3. i \in Live(s) /\ i \in Lists /\ ~ Shows(all[i], units, Start(s, i))
    BY <1>1, <2>2
  <2> DEFINE list == s.kids[i]
             first == has[i]
             start == Start(s, i)
  <2>4. list \in Seq(Items) /\ Len(list) \in Nat /\ first \in Seq(Nat)
    BY <1>1, <1>3, <2>3
  <2>5. start \in Nat
    BY <1>5, <2>3 DEF Start, Live
  <2>6. ASSUME NEW k \in 1 .. Len(list)
        PROVE  /\ all[list[k]] \in Seq(Nat) /\ s.position[list[k]] \in Nat
               /\ end[list[k]] = s.position[list[k]] + Len(all[list[k]])
               /\ Shows(all[list[k]], units, s.position[list[k]])
    <3> DEFINE c == list[k]
    <3>1. c \in Items /\ c \in Lists /\ c \in Live(s) /\ s.kind[c] # "free"
      BY <2>3, KidsAlive
    <3>2. c \notin B
      BY <2>2
    <3>3. /\ Start(s, c) + Len(all[c]) = end[c] /\ all[c] \in Seq(Nat)
          /\ Shows(all[c], units, Start(s, c))
      BY <1>b, <3>1, <3>2
    <3> HIDE DEF c
    <3>4. Start(s, c) = s.position[c]
      BY <3>1 DEF Start, Items, Root
    <3>5. QED
      BY <1>5, <3>1, <3>3, <3>4 DEF c
  <2>7. Row(list, s.position, end, start + Len(first), end[i])
    BY <1>3, <1>5, <2>3
  <2>8. all[i] = Gathered(list, first, all)[Len(list)]
    <3>1. Preorder(s, has)[i] =
            Gathered(s.kids[i], has[i], Preorder(s, has))[Len(s.kids[i])]
      BY <1>1, <2>3, PreorderIs
    <3>2. QED
      BY <1>2, <3>1
  <2>9. Shows(first, units, start)
    <3>1. CASE i = Root
      <4> DEFINE none == <<>>
      <4>1. \A k \in 1 .. Len(none) : none[k] = units[start + (k - 1)]
        OBVIOUS
      <4>2. first = none
        BY <1>a, <3>1
      <4> HIDE DEF none
      <4>3. QED
        BY <4>1, <4>2 DEF Shows
    <3>2. CASE i # Root
      <4>1. i \in Items /\ s.kind[i] # "free" /\ start = s.position[i]
        BY <2>3, <3>2 DEF Live, Start
      <4>2. first = s.own[i]
        BY <1>3, <2>3, <3>2
      <4>3. Shows(s.own[i], units, s.position[i])
        BY <4>1 DEF Holding
      <4>4. QED
        BY <4>1, <4>2, <4>3
    <3>3. QED
      BY <3>1, <3>2
  <2> HIDE DEF list, first, start, B
  <2>10. Measured(list, first, all, s.position, end, start)
    BY <2>4, <2>5, <2>6 DEF Measured
  <2>11. Showing(list, all, s.position, units)
    BY <2>6 DEF Showing
  <2>12. Shows(Gathered(list, first, all)[Len(list)], units, start)
    BY <2>7, <2>9, <2>10, <2>11, ShowsGathered
  <2>13. QED
    BY <2>3, <2>8, <2>12 DEF start
<1>7. QED
  BY <1>6 DEF all

(* Where the item and what is under it are: the bytes between where it       *)
(* starts and where it ends are what those items have themselves.            *)
Spanning(s, end, i) ==
  /\ Start(s, i) \in Nat /\ end[i] \in Nat /\ Start(s, i) <= end[i]
  /\ \A y : Among(y, InOrder(s)[i]) =>
       /\ y \in Items /\ s.kind[y] # "free"
       /\ s.position[y] \in Nat /\ EndOf(s, y) \in Nat
       /\ Start(s, i) <= s.position[y] /\ EndOf(s, y) <= end[i]
  /\ \A x \in Nat : Start(s, i) <= x /\ x < end[i] =>
       \E y \in Items : /\ Among(y, InOrder(s)[i]) /\ s.kind[y] # "free"
                        /\ s.position[y] <= x /\ x < EndOf(s, y)

(* What is under an item that is alive is alive.                             *)
LEMMA OrderAlive ==
  ASSUME NEW s, Whole(s, {}), NEW depth, Layered(s, depth)
  PROVE  \A i \in Live(s) : \A y : Among(y, InOrder(s)[i]) =>
           y \in Items /\ s.kind[y] # "free"
<1> DEFINE each == InOrder(s)
           Alive(i) == \A y : Among(y, each[i]) => y \in Items /\ s.kind[y] # "free"
           B == {i \in Live(s) : ~ Alive(i)}
<1>1. s.kids \in [Lists -> Seq(Items)] /\ Live(s) \subseteq Lists
  BY DEF Whole, Shaped, Live, Lists
<1>2. \A i \in Lists : \A y : Among(y, each[i]) <=>
        \/ i # Root /\ y = i
        \/ \E k \in 1 .. Len(s.kids[i]) : Among(y, each[s.kids[i][k]])
  BY <1>1, OrderClosed
<1> HIDE DEF each
<1>3. ASSUME B # {} PROVE FALSE
  <2>1. B \subseteq Lists
    BY <1>1
  <2>2. PICK i \in B : \A k \in 1 .. Len(s.kids[i]) : s.kids[i][k] \notin B
    <3> HIDE DEF B
    <3>1. QED
      BY <1>3, <2>1, Deepest
  <2>3. i \in Live(s) /\ i \in Lists /\ ~ Alive(i)
    BY <1>1, <2>2
  <2>4. ASSUME NEW k \in 1 .. Len(s.kids[i]) PROVE Alive(s.kids[i][k])
    <3>1. s.kids[i][k] \in Live(s)
      BY <2>3, KidsAlive
    <3> HIDE DEF Alive
    <3>2. QED
      BY <2>2, <3>1
  <2>5. i # Root => i \in Items /\ s.kind[i] # "free"
    BY <2>3 DEF Live
  <2>6. Alive(i)
    <3>1. \A y : Among(y, each[i]) =>
            \/ i # Root /\ y = i
            \/ \E k \in 1 .. Len(s.kids[i]) : Among(y, each[s.kids[i][k]])
      BY <1>2, <2>3
    <3> HIDE DEF B
    <3>2. QED
      BY <2>4, <2>5, <3>1
  <2>7. QED
    BY <2>3, <2>6
<1>4. QED
  BY <1>3 DEF each

(* Item::GetSize, Item::Dump: a dump writes, of what is under an item, all    *)
(* and nothing else where the item is.                                       *)
LEMMA Spans ==
  ASSUME NEW s, Whole(s, {}), NEW depth, Layered(s, depth),
         NEW end, Ordered(s, end), NEW i \in Live(s)
  PROVE  Spanning(s, end, i)
<1> DEFINE order == InOrder(s)[i]
           I == Inners(s)
           from == Start(s, i)
           to == end[i]
<1>1. /\ s.kids \in [Lists -> Seq(Items)] /\ i \in Lists
      /\ s.own \in [Items -> Seq(Nat)]
  BY DEF Whole, Shaped, Live, Lists
<1>2. order \in Seq(Items)
  BY <1>1, OrderIs
<1>3. \A y : Among(y, order) => y \in Items /\ s.kind[y] # "free"
  BY OrderAlive
<1>4. Row(order, s.position, I, from, to)
  BY OrderRow
<1>5. \A y \in Items : s.kind[y] # "free" =>
        /\ s.position[y] \in Nat /\ I[y] = EndOf(s, y) /\ EndOf(s, y) \in Nat
        /\ s.position[y] <= EndOf(s, y)
  <2> SUFFICES ASSUME NEW y \in Items, s.kind[y] # "free"
               PROVE  /\ s.position[y] \in Nat /\ I[y] = EndOf(s, y)
                      /\ EndOf(s, y) \in Nat /\ s.position[y] <= EndOf(s, y)
    OBVIOUS
  <2>1. s.position[y] \in Nat
    BY DEF Ordered
  <2>2. Len(s.own[y]) \in Nat
    BY <1>1
  <2>3. I[y] = EndOf(s, y)
    BY DEF Inners, Inner, EndOf, Lists, Items, Root
  <2>4. QED
    BY <2>1, <2>2, <2>3 DEF EndOf
<1>6. from \in Nat
  BY <1>1 DEF Start, Live, Ordered
<1> HIDE DEF order, I, from, to
<1>7. Len(order) \in Nat /\ \A k \in 1 .. Len(order) :
        order[k] \in Items /\ s.kind[order[k]] # "free"
  <2>1. Len(order) \in Nat
    BY <1>2
  <2>2. QED
    BY <1>3, <2>1 DEF Among
<1>8. Rising(order, s.position, I, from)
  BY <1>5, <1>6, <1>7 DEF Rising
<1>9. /\ to \in Nat /\ from <= to
      /\ \A k \in 1 .. Len(order) : from <= s.position[order[k]]
                                    /\ I[order[k]] <= to
      /\ \A x \in Nat : from <= x /\ x < to =>
           \E k \in 1 .. Len(order) : s.position[order[k]] <= x /\ x < I[order[k]]
  BY <1>4, <1>7, <1>8, RowRises
<1>10. \A y : Among(y, order) =>
         /\ y \in Items /\ s.kind[y] # "free"
         /\ s.position[y] \in Nat /\ EndOf(s, y) \in Nat
         /\ from <= s.position[y] /\ EndOf(s, y) <= to
  BY <1>3, <1>5, <1>9 DEF Among
<1>11. ASSUME NEW x \in Nat, from <= x, x < to
       PROVE  \E y \in Items : /\ Among(y, order) /\ s.kind[y] # "free"
                               /\ s.position[y] <= x /\ x < EndOf(s, y)
  <2>1. PICK k \in 1 .. Len(order) :
          s.position[order[k]] <= x /\ x < I[order[k]]
    BY <1>9, <1>11
  <2>2. order[k] \in Items /\ s.kind[order[k]] # "free" /\ Among(order[k], order)
    BY <1>7 DEF Among
  <2>3. QED
    BY <1>5, <2>1, <2>2
<1>12. QED
  BY <1>6, <1>9, <1>10, <1>11 DEF Spanning, order, from, to

(* No two items have a place. *)
Clear(s) ==
  \A i, j \in Items : s.kind[i] # "free" /\ s.kind[j] # "free" /\ i # j =>
    EndOf(s, i) <= s.position[j] \/ EndOf(s, j) <= s.position[i]

(* What items have themselves does not overlap.                              *)
LEMMA Clears ==
  ASSUME NEW s, Whole(s, {}), NEW depth, Layered(s, depth),
         NEW end, Ordered(s, end)
  PROVE  Clear(s)
<1> DEFINE order == InOrder(s)[Root]
           I == Inners(s)
<1>1. /\ s.kids \in [Lists -> Seq(Items)] /\ Root \in Lists /\ Root \in Live(s)
      /\ s.own \in [Items -> Seq(Nat)]
  BY DEF Whole, Shaped, Live, Lists
<1>2. order \in Seq(Items)
  BY <1>1, OrderIs
<1>3. \A y : Among(y, order) => y \in Items /\ s.kind[y] # "free"
  BY <1>1, OrderAlive
<1>4. Row(order, s.position, I, Start(s, Root), end[Root])
  BY <1>1, OrderRow
<1>5. \A y \in Items : s.kind[y] # "free" =>
        /\ s.position[y] \in Nat /\ I[y] = EndOf(s, y) /\ EndOf(s, y) \in Nat
        /\ s.position[y] <= EndOf(s, y)
  <2> SUFFICES ASSUME NEW y \in Items, s.kind[y] # "free"
               PROVE  /\ s.position[y] \in Nat /\ I[y] = EndOf(s, y)
                      /\ EndOf(s, y) \in Nat /\ s.position[y] <= EndOf(s, y)
    OBVIOUS
  <2>1. s.position[y] \in Nat
    BY DEF Ordered
  <2>2. Len(s.own[y]) \in Nat
    BY <1>1
  <2>3. I[y] = EndOf(s, y)
    BY DEF Inners, Inner, EndOf, Lists, Items, Root
  <2>4. QED
    BY <2>1, <2>2, <2>3 DEF EndOf
<1>6. \A y \in Items : s.kind[y] # "free" => Among(y, order)
  BY OrderHolds
<1> HIDE DEF order, I
<1>7. Len(order) \in Nat /\ \A k \in 1 .. Len(order) :
        order[k] \in Items /\ s.kind[order[k]] # "free"
  <2>1. Len(order) \in Nat
    BY <1>2
  <2>2. QED
    BY <1>3, <2>1 DEF Among
<1>8. Rising(order, s.position, I, Start(s, Root))
  BY <1>5, <1>7 DEF Rising, Start
<1>9. \A k, m \in 1 .. Len(order) :
        k < m => I[order[k]] <= s.position[order[m]]
  BY <1>4, <1>7, <1>8, RowRises
<1>10. ASSUME NEW i \in Items, NEW j \in Items, s.kind[i] # "free",
              s.kind[j] # "free", i # j
       PROVE  EndOf(s, i) <= s.position[j] \/ EndOf(s, j) <= s.position[i]
  <2>1. PICK k \in 1 .. Len(order) : order[k] = i
    BY <1>6, <1>10 DEF Among
  <2>2. PICK m \in 1 .. Len(order) : order[m] = j
    BY <1>6, <1>10 DEF Among
  <2>3. k < m \/ m < k
    BY <1>7, <1>10, <2>1, <2>2
  <2>4. QED
    BY <1>5, <1>9, <1>10, <2>1, <2>2, <2>3
<1>11. QED
  BY <1>10 DEF Clear

(* An item that is not under another is before or behind it.                 *)
LEMMA Outside ==
  ASSUME NEW s, NEW end, NEW i \in Live(s), Spanning(s, end, i), Clear(s),
         NEW x \in Items, s.kind[x] # "free", s.position[x] \in Nat,
         Len(s.own[x]) \in Nat, Len(s.own[x]) > 0,
         x # i, ~ Among(x, InOrder(s)[i]),
         i # Root => s.position[i] \in Nat /\ Len(s.own[i]) \in Nat
  PROVE  EndOf(s, x) <= Start(s, i) \/ end[i] <= s.position[x]
<1> DEFINE from == Start(s, i)
           to == end[i]
           a == s.position[x]
           b == EndOf(s, x)
           u == IF a <= from THEN from ELSE a
<1>1. /\ from \in Nat /\ to \in Nat
      /\ \A v \in Nat : from <= v /\ v < to =>
           \E y \in Items : /\ Among(y, InOrder(s)[i]) /\ s.kind[y] # "free"
                            /\ s.position[y] <= v /\ v < EndOf(s, y)
      /\ \A y : Among(y, InOrder(s)[i]) =>
           s.position[y] \in Nat /\ EndOf(s, y) \in Nat
  BY DEF Spanning
<1>d. ASSUME i # Root PROVE from <= a \/ b <= from
  <2>1. i \in Items /\ s.kind[i] # "free"
    BY <1>d DEF Live
  <2>2. EndOf(s, i) <= a \/ b <= s.position[i]
    BY <2>1 DEF Clear
  <2>3. from = s.position[i]
    BY <1>d DEF Start
  <2>4. from <= EndOf(s, i) /\ EndOf(s, i) \in Nat
    BY <1>d, <2>3 DEF EndOf
  <2> HIDE DEF from, to, a, b
  <2>5. a \in Nat
    BY DEF a
  <2> DEFINE e == EndOf(s, i)
  <2>6. e <= a \/ b <= from
    BY <2>2, <2>3
  <2> HIDE DEF e
  <2>7. from <= a \/ b <= from
    BY <1>1, <2>4, <2>5, <2>6 DEF e
  <2>8. QED
    BY <2>7
<1>e. from <= a \/ b <= from
  <2>1. i = Root => from = 0 /\ a \in Nat
    BY DEF Start
  <2>2. i = Root => from <= a
    BY <2>1
  <2>3. QED
    BY <1>d, <2>2
<1>2. a \in Nat /\ b \in Nat /\ a < b
  BY DEF EndOf
<1>c. \A y \in Items : s.kind[y] # "free" /\ y # x =>
        EndOf(s, y) <= a \/ b <= s.position[y]
  BY DEF Clear
<1> HIDE DEF from, to, a, b
<1>3. ASSUME ~ (b <= from), ~ (to <= a) PROVE FALSE
  <2>1. u \in Nat /\ from <= u /\ a <= u /\ u < b
    BY <1>1, <1>2, <1>3
  <2> HIDE DEF u
  <2>2. CASE u < to
    <3>1. PICK y \in Items : /\ Among(y, InOrder(s)[i]) /\ s.kind[y] # "free"
                             /\ s.position[y] <= u /\ u < EndOf(s, y)
      BY <1>1, <2>1, <2>2
    <3>2. y # x
      BY <3>1
    <3> DEFINE c == s.position[y]
               d == EndOf(s, y)
    <3>3. d <= a \/ b <= c
      BY <1>c, <3>1, <3>2
    <3>4. c <= u /\ u < d /\ c \in Nat /\ d \in Nat
      BY <1>1, <3>1
    <3> HIDE DEF c, d
    <3>5. QED
      BY <1>1, <1>2, <2>1, <3>3, <3>4
  <2>3. CASE ~ (u < to)
    <3>1. from <= a
      BY <1>3, <1>e
    <3>2. u = a
      BY <1>1, <1>2, <3>1 DEF u
    <3>3. QED
      BY <1>1, <1>2, <1>3, <2>3, <3>2
  <2>4. QED
    BY <2>2, <2>3
<1>4. QED
  BY <1>3 DEF from, to, a, b

-----------------------------------------------------------------------------
(* The specification *)

(* The inductive invariant: besides Inv, no item is under itself, and unless *)
(* the file was edited since the last Fixup, an item ends where the next     *)
(* one starts; while it is parsed every item has what the file has there.    *)
Placing ==
  /\ Inv /\ phase \in {"parsing", "edited", "fixed"}
  /\ \E depth : Layered(t, depth)
  /\ phase = "parsing" => Layout(t, Root, Root) /\ Holding(t, Unit)
  /\ phase = "fixed" => \E end : Ordered(t, end)

(* What is set up for the parser.                                            *)
LEMMA InitPlacing ==
  Init => Placing
<1> SUFFICES ASSUME Init PROVE Placing
  OBVIOUS
<1>1. t = Unparsed /\ phase = "parsing" /\ Inv
  BY InitInv DEF Init
<1>2. Layout(t, Root, Root) /\ Holding(t, Unit)
  BY <1>1, UnparsedLayout
<1>3. QED
  BY <1>1, <1>2 DEF Placing, Layout

(* Context::CreateLabelFallback makes the label point to the unit at the     *)
(* offset, and changes nothing else.                                         *)
LEMMA LabelMade ==
  ASSUME Good(t), NEW n \in Names, CreateLabel(n)
  PROVE  /\ t'.kids = t.kids /\ t'.kind = t.kind /\ t'.own = t.own
         /\ t'.position = t.position
         /\ \A m \in Names : m # n => t'.label[m] = t.label[m]
         /\ t'.label[n] # Unset
         /\ \E p \in 0 .. Size : ToFilePos(t', t'.label[n]) = p
<1>1. PICK p \in 0 .. Size : t' = [t EXCEPT !.label[n] = GetPointer(t, p)]
  BY DEF CreateLabel
<1>2. /\ Whole(t, {}) /\ Fields \subseteq DOMAIN t
      /\ t.label \in [Names -> Pointers \union {Unset}]
      /\ DOMAIN t.pmap \subseteq 0 .. Size /\ 0 \in DOMAIN t.pmap
      /\ \A q \in DOMAIN t.pmap :
           t.pmap[q] \in Items /\ t.position[t.pmap[q]] = q
  BY DEF Good, Whole, Shaped, Owned, Regular
<1> DEFINE l == GetPointer(t, p)
<1>3. t' = [t EXCEPT !.label[n] = l]
  BY <1>1
<1>4. PICK key \in DOMAIN t.pmap :
        key <= p /\ l = [item |-> t.pmap[key], offset |-> p - key]
  <2>1. p \in Nat
    OBVIOUS
  <2>2. \E key \in DOMAIN t.pmap :
          /\ key <= p /\ \A q \in DOMAIN t.pmap : q <= p => q <= key
          /\ GetPointer(t, p) = [item |-> t.pmap[key], offset |-> p - key]
    BY <1>2, <2>1, PointerOf
  <2>3. QED
    BY <2>2
<1> HIDE DEF l
<1>5. /\ t'.kids = t.kids /\ t'.kind = t.kind /\ t'.own = t.own
      /\ t'.position = t.position /\ t'.label[n] = l
      /\ \A m \in Names : m # n => t'.label[m] = t.label[m]
  BY <1>2, <1>3 DEF Fields
<1>6. t.position[t.pmap[key]] = key
  BY <1>2, <1>4
<1>7. key \in Nat /\ p \in Nat /\ key + (p - key) = p /\ p - key \in Nat
  BY <1>2, <1>4, ItemTreeAssumption
<1>8. l # Unset
  BY <1>2, <1>4, <1>7, ItemTreeAssumption DEF Items
<1>9. ToFilePos(t', t'.label[n]) = p
  BY <1>4, <1>5, <1>6, <1>7 DEF ToFilePos
<1>10. QED
  BY <1>5, <1>8, <1>9

(* Every operation keeps the invariant, if no item inside the file has no    *)
(* bytes and no string is followed by a row of zeros.                        *)
LEMMA NextPlacing ==
  ASSUME Odd = {}
  PROVE  Placing /\ [Next]_vars => Placing'
<1> SUFFICES ASSUME Placing, [Next]_vars PROVE Placing'
  OBVIOUS
<1>1. Inv' /\ Whole(t, {}) /\ "empty" \notin Odd /\ "padded" \notin Odd
  BY NextInv DEF Placing, Inv
<1>2. PICK depth : Layered(t, depth)
  BY DEF Placing
<1>3. ASSUME phase = "parsing"
      PROVE  /\ Good(t) /\ Parsing(t) /\ Layout(t, Root, Root)
             /\ Holding(t, Unit)
  BY <1>3 DEF Placing, Inv, Parsing
<1>4. ASSUME Layout(t', Root, Root), Holding(t, Unit) => Holding(t', Unit),
             phase' = phase, phase = "parsing"
      PROVE  Placing'
  <2>1. \E d : Layered(t', d)
    BY <1>4 DEF Layout
  <2>2. Holding(t', Unit)
    BY <1>3, <1>4
  <2>3. QED
    BY <1>1, <1>4, <2>1, <2>2 DEF Placing
<1>5. ASSUME Layered(t', depth), phase' = "edited" PROVE Placing'
  BY <1>1, <1>5 DEF Placing
<1>6. ASSUME NEW n \in Names, CreateLabel(n) PROVE Placing'
  <2>1. phase = "parsing" /\ phase' = phase
    BY <1>6 DEF CreateLabel
  <2>2. Layout(t', Root, Root)
    BY <1>3, <1>6, <2>1, CreateLabelLayout
  <2>3. /\ t'.kind = t.kind /\ t'.own = t.own /\ t'.position = t.position
    BY <1>3, <1>6, <2>1, LabelMade
  <2>4. Holding(t, Unit) => Holding(t', Unit)
    BY <2>3 DEF Holding
  <2>5. QED
    BY <1>4, <2>1, <2>2, <2>4
<1>7. CASE CreateLeaf
  <2>1. phase = "parsing" /\ phase' = phase
    BY <1>7 DEF CreateLeaf
  <2>2. Layout(t', Root, Root) /\ Keeping(t, t')
    BY <1>1, <1>3, <1>7, <2>1, CreateLeafLayout
  <2>3. QED
    BY <1>4, <2>1, <2>2 DEF Keeping
<1>8. CASE CreateData
  <2>1. phase = "parsing" /\ phase' = phase
    BY <1>8 DEF CreateData
  <2>2. Layout(t', Root, Root) /\ Keeping(t, t')
    BY <1>1, <1>3, <1>8, <2>1, CreateDataLayout
  <2>3. QED
    BY <1>4, <2>1, <2>2 DEF Keeping
<1>9. CASE CreateExpansions
  <2>1. phase = "parsing" /\ phase' = phase
    BY <1>9 DEF CreateExpansions
  <2>2. Layout(t', Root, Root) /\ RowMarked(t, t')
    BY <1>1, <1>3, <1>9, <2>1, CreateExpansionsLayout
  <2>3. Holding(t, Unit) => Holding(t', Unit)
    BY <2>2 DEF RowMarked, Marked
  <2>4. QED
    BY <1>4, <2>1, <2>2, <2>3
<1>10. CASE ReplaceEof
  <2>1. phase = "parsing" /\ phase' = phase
    BY <1>10 DEF ReplaceEof
  <2>2. Layout(t', Root, Root) /\ Keeping(t, t')
    BY <1>3, <1>10, <2>1, ReplaceEofLayout
  <2>3. QED
    BY <1>4, <2>1, <2>2 DEF Keeping
<1>11. CASE ReadTxt
  <2>1. phase' = "edited"
    BY <1>11 DEF ReadTxt
  <2>2. QED
    BY <1>1, <1>2, <1>5, <1>11, <2>1, ReadTxtLayered
<1>12. CASE Gc
  <2>1. phase' = "edited"
    BY <1>12 DEF Gc
  <2>2. QED
    BY <1>1, <1>2, <1>5, <1>12, <2>1, GcLayered
<1>13. CASE Fixup
  <2>1. phase' = "fixed"
    BY <1>13 DEF Fixup
  <2>2. Layered(t', depth) /\ \E end : Ordered(t', end)
    BY <1>1, <1>2, <1>13, FixupOrdered
  <2>3. QED
    BY <1>1, <2>1, <2>2 DEF Placing
<1>14. CASE UNCHANGED vars
  <2>1. t' = t /\ phase' = phase
    BY <1>14 DEF vars
  <2>2. QED
    BY <1>1, <2>1 DEF Placing
<1>15. QED
  BY <1>6, <1>7, <1>8, <1>9, <1>10, <1>11, <1>12, <1>13, <1>14 DEF Next

(* In every state of every run the items are where the invariant has them.   *)
LEMMA PlacingInvariant ==
  Spec => [](Odd = {} => Placing)
<1>1. Init => (Odd = {} => Placing)
  BY InitPlacing
<1>2. (Odd = {} => Placing) /\ [Next]_vars => (Odd = {} => Placing)'
  BY NextPlacing
<1>3. QED
  BY <1>1, <1>2, PTL DEF Spec

(* Unless the file was edited since the last Fixup, an item ends where the   *)
(* next one starts.                                                          *)
LEMMA PlacingOrdered ==
  Placing /\ phase # "edited" => \E end : Ordered(t, end)
<1> SUFFICES ASSUME Placing, phase # "edited" PROVE \E end : Ordered(t, end)
  OBVIOUS
<1>1. CASE phase = "parsing"
  <2>1. Good(t) /\ Layout(t, Root, Root)
    BY <1>1 DEF Placing, Inv, Parsing
  <2>2. PICK end : LaidOut(t, end)
    BY <2>1 DEF Layout
  <2>3. Ordered(t, end)
    BY <2>1, <2>2, LaidOutOrdered
  <2>4. QED
    BY <2>3
<1>2. CASE phase = "fixed"
  BY <1>2 DEF Placing
<1>3. phase = "parsing" \/ phase = "fixed"
  BY DEF Placing
<1>4. QED
  BY <1>1, <1>2, <1>3

(* PointersInside: every offset a parsed file may contain finds an item that *)
(* has a byte there, or the end of the file, and the keys of the pointer map *)
(* are the positions of its items.                                           *)
THEOREM Inside ==
  ASSUME Odd = {}
  PROVE  Spec => []PointersInside
<1>1. (Odd = {} => Placing) => PointersInside
  <2> SUFFICES ASSUME Placing PROVE PointersInside
    OBVIOUS
  <2>1. CASE phase = "parsing"
    <3>1. Good(t) /\ Layout(t, Root, Root)
      BY <2>1 DEF Placing, Inv, Parsing
    <3>2. QED
      BY <3>1, LayoutInside
  <2>2. CASE phase # "parsing"
    BY <2>2 DEF PointersInside
  <2>3. QED
    BY <2>1, <2>2
<1>2. QED
  BY <1>1, PlacingInvariant, PTL

(* DumpedPointers: unless the file was edited since the last Fixup, the      *)
(* offset written for a label is the offset at which the dump puts the byte  *)
(* the label points to.                                                      *)
THEOREM Dumping ==
  ASSUME Odd = {}
  PROVE  Spec => []DumpedPointers
<1>1. (Odd = {} => Placing) => DumpedPointers
  <2> SUFFICES ASSUME Placing, phase # "edited" PROVE DumpedPointers
    BY DEF DumpedPointers
  <2>1. Whole(t, {})
    BY DEF Placing, Inv
  <2>2. PICK depth : Layered(t, depth)
    BY DEF Placing
  <2>3. PICK end : Ordered(t, end)
    BY PlacingOrdered
  <2>4. ASSUME NEW n \in Names, t.label[n] # Unset
        PROVE  ToFilePos(t, t.label[n]) = Targets[n]
    BY <2>1, <2>2, <2>3, <2>4, OrderedDumped
  <2>5. QED
    BY <2>4 DEF DumpedPointers
<1>2. QED
  BY <1>1, PlacingInvariant, PTL


-----------------------------------------------------------------------------
(* What is parsed is the file *)

(* What the labels point to. *)
Pointed(s) ==
  [n \in Names |-> IF s.label[n] = Unset THEN Unset ELSE ToFilePos(s, s.label[n])]

(* What a dump writes for a label depends on the order of the dump.          *)
LEMMA TargetsOf ==
  /\ Targets = [n \in Names |-> Targets[n]]
  /\ \A n \in Names : t.label[n] = Unset => Targets[n] = Unset
<1> DEFINE at(order) ==
             [n \in Names |-> IF t.label[n] = Unset THEN Unset
                ELSE Ends(order, t.own)[IndexIn(order, t.label[n].item) - 1]
                       + t.label[n].offset]
<1>1. Targets = TargetsIn(DumpOrder)
  BY DEF Targets
<1>2. TargetsIn(DumpOrder) = at(DumpOrder)
  BY Zenon DEF TargetsIn, Ends
<1>3. QED
  BY <1>1, <1>2

(* It is where they point to, unless the file was edited.                    *)
LEMMA TargetsAre ==
  Placing /\ phase # "edited" => Targets = Pointed(t)
<1> SUFFICES ASSUME Placing, phase # "edited" PROVE Targets = Pointed(t)
  OBVIOUS
<1>1. Whole(t, {})
  BY DEF Placing, Inv
<1>2. PICK depth : Layered(t, depth)
  BY DEF Placing
<1>3. PICK end : Ordered(t, end)
  BY PlacingOrdered
<1>4. ASSUME NEW n \in Names
      PROVE  Targets[n] = IF t.label[n] = Unset THEN Unset
                          ELSE ToFilePos(t, t.label[n])
  <2>1. CASE t.label[n] = Unset
    BY <2>1, TargetsOf
  <2>2. CASE t.label[n] # Unset
    BY <1>1, <1>2, <1>3, <2>2, OrderedDumped
  <2>3. QED
    BY <2>1, <2>2
<1>5. QED
  BY <1>4, TargetsOf DEF Pointed

(* While the file is parsed, a dump writes what the file has.                *)
LEMMA UnitsAre ==
  ASSUME NEW s, Good(s), Layout(s, Root, Root), Holding(s, Unit)
  PROVE  Dumped(s)[Root] = [k \in 1 .. Size |-> k - 1]
<1> DEFINE all == Dumped(s)[Root]
<1>1. PICK end : LaidOut(s, end)
  BY DEF Layout
<1>2. PICK depth : Layered(s, depth)
  BY DEF Layout
<1>3. Whole(s, {}) /\ Ordered(s, end) /\ end[Root] = Size
  BY <1>1, LaidOutOrdered DEF Good, LaidOut
<1>4. Root \in Live(s) /\ Start(s, Root) = 0
  BY DEF Live, Start
<1>5. all \in Seq(Nat) /\ 0 + Len(all) = Size
  BY <1>2, <1>3, <1>4, DumpedLength
<1>6. Shows(all, Unit, 0)
  BY <1>2, <1>3, <1>4, DumpedShows
<1> HIDE DEF all
<1>7. Len(all) = Size
  BY <1>5
<1>8. ASSUME NEW k \in 1 .. Size PROVE all[k] = k - 1
  <2>1. 0 + (k - 1) = k - 1 /\ k - 1 \in Nat
    BY ItemTreeAssumption
  <2>2. all[k] = Unit[0 + (k - 1)]
    BY <1>6, <1>7 DEF Shows
  <2>3. QED
    BY <2>1, <2>2 DEF Unit
<1>9. all = [k \in 1 .. Len(all) |-> all[k]]
  BY <1>5
<1>10. QED
  BY <1>7, <1>8, <1>9 DEF all

(* So the content and the targets of LabelledFile are those of the file.     *)
LEMMA FileIs ==
  Placing /\ phase = "parsing" =>
    /\ Dumped(t)[Root] = [k \in 1 .. Size |-> k - 1]
    /\ Targets = Pointed(t)
<1> SUFFICES ASSUME Placing, phase = "parsing"
             PROVE  /\ Dumped(t)[Root] = [k \in 1 .. Size |-> k - 1]
                    /\ Targets = Pointed(t)
  OBVIOUS
<1>1. Good(t) /\ Layout(t, Root, Root) /\ Holding(t, Unit)
  BY DEF Placing, Inv, Parsing
<1>2. Dumped(t)[Root] = [k \in 1 .. Size |-> k - 1]
  BY <1>1, UnitsAre
<1>3. QED
  BY <1>2, TargetsAre

(* A step that leaves every label where it points.                           *)
LEMMA PointingPointed ==
  ASSUME NEW s, NEW u, Pointing(s, u)
  PROVE  Pointed(u) = Pointed(s)
<1>1. ASSUME NEW n \in Names
      PROVE  (IF u.label[n] = Unset THEN Unset ELSE ToFilePos(u, u.label[n])) =
             (IF s.label[n] = Unset THEN Unset ELSE ToFilePos(s, s.label[n]))
  BY DEF Pointing
<1>2. QED
  BY <1>1 DEF Pointed

(* Context::CreateLabelFallback: one label is set.                           *)
LEMMA LabelPointed ==
  ASSUME Good(t), NEW n \in Names, CreateLabel(n)
  PROVE  \E p \in 0 .. Size : Pointed(t') = [Pointed(t) EXCEPT ![n] = p]
<1>1. /\ t'.position = t.position
      /\ \A m \in Names : m # n => t'.label[m] = t.label[m]
      /\ t'.label[n] # Unset
  BY LabelMade
<1>2. PICK p \in 0 .. Size : ToFilePos(t', t'.label[n]) = p
  BY LabelMade
<1>3. ASSUME NEW m \in Names
      PROVE  (IF t'.label[m] = Unset THEN Unset ELSE ToFilePos(t', t'.label[m])) =
             IF m = n THEN p
             ELSE IF t.label[m] = Unset THEN Unset ELSE ToFilePos(t, t.label[m])
  BY <1>1, <1>2 DEF ToFilePos
<1>4. QED
  BY <1>3 DEF Pointed

(* ExpansionsItem::CreateAndInsert: a row of labels is set.                  *)
LEMMA RowPointed ==
  ASSUME NEW s, NEW u, RowMarked(s, u)
  PROVE  LET new == {n \in Names : Pointed(u)[n] # Pointed(s)[n]} IN
         /\ \A n \in new : Pointed(s)[n] = Unset
         /\ \E p \in 0 .. Size :
              {Pointed(u)[n] : n \in new} = p .. p + Cardinality(new) - 1
<1> DEFINE new == {n \in Names : Pointed(u)[n] # Pointed(s)[n]}
<1>1. PICK N \in SUBSET {n \in Names : s.label[n] = Unset}, p \in 0 .. Size :
        N # {} /\ Marked(s, u, SetToSeq(N), Cardinality(N), p)
  BY DEF RowMarked
<1> DEFINE K == Cardinality(N)
           order == SetToSeq(N)
<1>2. /\ K \in Nat /\ N = {order[k] : k \in 1 .. K} /\ N \in SUBSET Names
      /\ p \in Nat
  <2>1. N \in SUBSET Names
    OBVIOUS
  <2>2. QED
    BY <2>1, OrderOf, ItemTreeAssumption
<1>3. Marked(s, u, order, K, p)
  BY <1>1
<1> HIDE DEF order, K
<1>4. ASSUME NEW n \in Names, n \notin N
      PROVE  Pointed(u)[n] = Pointed(s)[n]
  <2>1. \A j \in 1 .. K : order[j] # n
    BY <1>2, <1>4
  <2>2. /\ u.label[n] = Unset <=> s.label[n] = Unset
        /\ s.label[n] # Unset =>
             ToFilePos(u, u.label[n]) = ToFilePos(s, s.label[n])
    BY <1>3, <2>1 DEF Marked
  <2>3. QED
    BY <2>2 DEF Pointed
<1>5. ASSUME NEW j \in 1 .. K
      PROVE  Pointed(u)[order[j]] = p + (j - 1) /\ order[j] \in N
  <2>1. order[j] \in N /\ order[j] \in Names
    BY <1>2
  <2>2. Named(u, order[j], p + (j - 1))
    BY <1>3 DEF Marked
  <2>3. QED
    BY <2>1, <2>2 DEF Named, Pointed
<1>6. ASSUME NEW n \in N PROVE Pointed(s)[n] = Unset /\ Pointed(u)[n] # Unset
  <2>1. PICK j \in 1 .. K : n = order[j]
    BY <1>2
  <2>2. Pointed(u)[n] = p + (j - 1)
    BY <1>5, <2>1
  <2>3. p + (j - 1) \in Nat
    BY <1>2
  <2>4. Pointed(s)[n] = Unset
    BY DEF Pointed
  <2>5. QED
    BY <2>2, <2>3, <2>4, ItemTreeAssumption
<1> HIDE DEF new
<1>7. new = N
  BY <1>2, <1>4, <1>6 DEF new
<1>8. {Pointed(u)[n] : n \in N} = p .. p + K - 1
  <2>1. ASSUME NEW n \in N PROVE Pointed(u)[n] \in p .. p + K - 1
    <3>1. PICK j \in 1 .. K : n = order[j]
      BY <1>2
    <3>2. Pointed(u)[n] = p + (j - 1)
      BY <1>5, <3>1
    <3>3. p + (j - 1) \in p .. p + K - 1
      BY <1>2
    <3>4. QED
      BY <3>2, <3>3
  <2>2. ASSUME NEW q \in p .. p + K - 1
        PROVE  \E n \in N : q = Pointed(u)[n]
    <3> DEFINE j == (q - p) + 1
    <3>1. j \in 1 .. K /\ p + (j - 1) = q
      BY <1>2
    <3> HIDE DEF j
    <3>2. QED
      BY <1>5, <3>1
  <2>3. QED
    BY <2>1, <2>2
<1>9. /\ \A n \in new : Pointed(s)[n] = Unset
      /\ {Pointed(u)[n] : n \in new} = p .. p + Cardinality(new) - 1
  BY <1>6, <1>7, <1>8 DEF K
<1>10. QED
  BY <1>9 DEF new

(* Nothing is set and all is there before anything is parsed.                *)
LEMMA FileInit ==
  Init /\ Placing => File!Init
<1> SUFFICES ASSUME Init, Placing PROVE File!Init
  OBVIOUS
<1>1. t = Unparsed /\ phase = "parsing"
  BY DEF Init
<1>2. Dumped(t)[Root] = [k \in 1 .. Size |-> k - 1] /\ Targets = Pointed(t)
  BY <1>1, FileIs
<1>3. \A n \in Names : t.label[n] = Unset
  BY <1>1, UnparsedLayout
<1>4. Pointed(t) = [n \in Names |-> Unset]
  BY <1>3 DEF Pointed
<1>5. QED
  BY <1>2, <1>4 DEF File!Init, File!FileUnits

(* A step of the parser moves no unit, and sets a label, a row of labels or  *)
(* none.                                                                     *)
LEMMA ParsingStep ==
  ASSUME Odd = {}, Placing, Placing', Next,
         phase = "parsing", phase' = "parsing"
  PROVE  [File!Next]_(File!vars)
<1> DEFINE content == Dumped(t)[Root]
           target == Targets
<1>1. /\ Good(t) /\ Parsing(t) /\ Layout(t, Root, Root) /\ Whole(t, {})
      /\ "empty" \notin Odd /\ "padded" \notin Odd
  BY DEF Placing, Inv, Parsing
<1>2. content = [k \in 1 .. Size |-> k - 1] /\ target = Pointed(t)
  BY FileIs
<1>3. content' = [k \in 1 .. Size |-> k - 1] /\ target' = Pointed(t')
  <2>1. (Placing /\ phase = "parsing" =>
           /\ Dumped(t)[Root] = [k \in 1 .. Size |-> k - 1]
           /\ Targets = Pointed(t))'
    BY FileIs, PTL
  <2>2. Pointed(t)' = Pointed(t')
    BY DEF Pointed, ToFilePos
  <2>3. QED
    BY <2>1, <2>2
<1>4. Len(content) = Size
  BY <1>2, ItemTreeAssumption
<1> HIDE DEF content, target
<1>5. ASSUME Pointed(t') = Pointed(t) PROVE [File!Next]_(File!vars)
  BY <1>2, <1>3, <1>5 DEF content, target, File!vars
<1>6. ASSUME NEW n \in Names, CreateLabel(n) PROVE [File!Next]_(File!vars)
  <2>1. PICK p \in 0 .. Size : Pointed(t') = [Pointed(t) EXCEPT ![n] = p]
    BY <1>1, <1>6, LabelPointed
  <2>2. target' = [target EXCEPT ![n] = p] /\ target'[n] = p
    BY <1>2, <1>3, <2>1 DEF Pointed
  <2>3. content' = content
    BY <1>2, <1>3
  <2>4. File!Label
    BY <1>4, <2>2, <2>3 DEF File!Label, content, target
  <2>5. CASE target' = target
    BY <2>3, <2>5 DEF content, target, File!vars
  <2>6. CASE target' # target
    BY <2>4, <2>6 DEF File!Next, target
  <2>7. QED
    BY <2>5, <2>6
<1>7. ASSUME CreateLeaf \/ CreateData \/ ReplaceEof
      PROVE  [File!Next]_(File!vars)
  <2>1. Keeping(t, t')
    <3>1. CASE CreateLeaf
      BY <1>1, <3>1, CreateLeafLayout
    <3>2. CASE CreateData
      BY <1>1, <3>2, CreateDataLayout
    <3>3. CASE ReplaceEof
      BY <1>1, <3>3, ReplaceEofLayout
    <3>4. QED
      BY <1>7, <3>1, <3>2, <3>3
  <2>2. QED
    BY <1>5, <2>1, PointingPointed DEF Keeping
<1>8. ASSUME CreateExpansions PROVE [File!Next]_(File!vars)
  <2> DEFINE new == {n \in Names : Pointed(t')[n] # Pointed(t)[n]}
             row == {n \in Names : target'[n] # target[n]}
  <2>1. RowMarked(t, t')
    BY <1>1, <1>8, CreateExpansionsLayout
  <2>2. /\ \A n \in new : Pointed(t)[n] = Unset
        /\ \E p \in 0 .. Size :
             {Pointed(t')[n] : n \in new} = p .. p + Cardinality(new) - 1
    <3> DEFINE u == t'
    <3>1. RowMarked(t, u)
      BY <2>1
    <3> HIDE DEF u
    <3>2. LET now == {n \in Names : Pointed(u)[n] # Pointed(t)[n]} IN
          /\ \A n \in now : Pointed(t)[n] = Unset
          /\ \E p \in 0 .. Size :
               {Pointed(u)[n] : n \in now} = p .. p + Cardinality(now) - 1
      BY <3>1, RowPointed
    <3>3. QED
      BY <3>2 DEF u
  <2>3. row = new
    BY <1>2, <1>3
  <2>4. /\ \A n \in row : target[n] = Unset
        /\ \E p \in 0 .. Len(content) :
             {target'[n] : n \in row} = p .. p + Cardinality(row) - 1
    <3> HIDE DEF new, row
    <3>1. QED
      BY <1>2, <1>3, <1>4, <2>2, <2>3
  <2>5. content' = content
    BY <1>2, <1>3
  <2>6. File!LabelRow
    <3>1. /\ Dumped(t)[Root]' = Dumped(t)[Root]
          /\ \A n \in {m \in Names : Targets'[m] # Targets[m]} : Targets[n] = Unset
          /\ \E p \in 0 .. Len(Dumped(t)[Root]) :
               {Targets'[n] : n \in {m \in Names : Targets'[m] # Targets[m]}} =
               p .. p + Cardinality({m \in Names : Targets'[m] # Targets[m]}) - 1
      BY <2>4, <2>5, Zenon DEF content, target
    <3>2. \A S : File!Cardinality(S) = Cardinality(S)
      BY Zenon DEF File!Cardinality, Cardinality
    <3>3. QED
      BY <3>1, <3>2, Zenon DEF File!LabelRow
  <2>7. CASE target' = target
    BY <2>5, <2>7 DEF content, target, File!vars
  <2>8. CASE target' # target
    BY <2>6, <2>8 DEF File!Next, target
  <2>9. QED
    BY <2>7, <2>8
<1>9. ~ ReadTxt /\ ~ Gc /\ ~ Fixup
  BY DEF ReadTxt, Gc, Fixup
<1>10. QED
  BY <1>6, <1>7, <1>8, <1>9 DEF Next

(* Context::Fixup changes neither what is written nor in which order.        *)
LEMMA FixupStep ==
  ASSUME Placing, Fixup
  PROVE  UNCHANGED File!vars
<1>1. t' = [t EXCEPT !.pmap = <<>>, !.position = FixedPositions(t)]
  BY DEF Fixup
<1>2. Fields \subseteq DOMAIN t
  BY DEF Placing, Inv, Whole, Shaped
<1> DEFINE none == <<>>
           fixed == FixedPositions(t)
<1>3. t' = [t EXCEPT !.pmap = none, !.position = fixed]
  BY <1>1
<1> HIDE DEF none, fixed
<1>4. t'.kids = t.kids /\ t'.own = t.own /\ t'.label = t.label
  BY <1>2, <1>3 DEF Fields
<1>5. \A has : Preorder(t', has) = Preorder(t, has)
  BY <1>4, SamePreorder
<1>6. Dumped(t') = Dumped(t)
  <2>1. Header(t') = Header(t)
    BY <1>4 DEF Header
  <2>2. Dumped(t) = Preorder(t, Header(t)) /\ Dumped(t') = Preorder(t', Header(t'))
    BY Zenon DEF Dumped, Header
  <2>3. QED
    BY <1>5, <2>1, <2>2
<1>7. DumpOrder' = DumpOrder
  <2>1. DumpOrder = Tail(Preorder(t, Itself)[Root])
    BY Zenon DEF DumpOrder, Itself
  <2>2. DumpOrder' = Tail(Preorder(t', Itself)[Root])
    BY Zenon DEF DumpOrder, Itself
  <2>3. QED
    BY <1>5, <2>1, <2>2
<1>8. Targets' = Targets
  <2> DEFINE at(order) ==
               [n \in Names |-> IF t.label[n] = Unset THEN Unset
                  ELSE Ends(order, t.own)[IndexIn(order, t.label[n].item) - 1]
                         + t.label[n].offset]
             next(order) ==
               [n \in Names |-> IF t'.label[n] = Unset THEN Unset
                  ELSE Ends(order, t'.own)[IndexIn(order, t'.label[n].item) - 1]
                         + t'.label[n].offset]
  <2>1. Targets = TargetsIn(DumpOrder)
    BY DEF Targets
  <2>2. TargetsIn(DumpOrder) = at(DumpOrder)
    BY Zenon DEF TargetsIn, Ends
  <2>3. Targets = at(DumpOrder)
    BY <2>1, <2>2
  <2>4. (Targets = TargetsIn(DumpOrder))'
    BY DEF Targets
  <2>5. Targets' = next(DumpOrder')
    BY <2>4, Zenon DEF TargetsIn, Ends
  <2>6. next(DumpOrder') = at(DumpOrder)
    BY <1>4, <1>7
  <2>7. QED
    BY <2>3, <2>5, <2>6
<1>9. QED
  BY <1>6, <1>8 DEF File!vars

-----------------------------------------------------------------------------
(* Edits *)

(* v is s with its items where a dump puts them: what Fixup would make of s. *)
SameTree(s, v) ==
  /\ v.kids = s.kids /\ v.kind = s.kind /\ v.own = s.own /\ v.label = s.label
  /\ Whole(v, {})

(* An item of no bytes is where the file ends. *)
Closing(v, end) ==
  \A i \in Items : v.kind[i] # "free" /\ v.position[i] = end[i] =>
    v.position[i] = end[Root]

(* If a label of an item is not behind something in it, by the positions of  *)
(* s, it is not by those of v.                                               *)
Tracking(s, v) ==
  \A n \in Names : s.label[n] # Unset =>
    \A x \in Items :
      /\ Among(x, InOrder(s)[s.label[n].item]) /\ x # s.label[n].item
      /\ ToFilePos(s, s.label[n]) <= s.position[x]
      => ToFilePos(v, v.label[n]) <= v.position[x]

(* v is s with its items where a dump puts them, and they end where `end`    *)
(* says.                                                                     *)
Settled(s, v, end) ==
  /\ SameTree(s, v) /\ Ordered(v, end) /\ Held(v, end) /\ Closing(v, end)
  /\ Tracking(s, v)

(* A dump depends on nothing but the lists and what the items have.          *)
LEMMA SameDumped ==
  ASSUME NEW s, NEW v, v.kids = s.kids, v.own = s.own
  PROVE  Dumped(v) = Dumped(s)
<1>1. Header(v) = Header(s)
  BY DEF Header
<1>2. Dumped(s) = Preorder(s, Header(s)) /\ Dumped(v) = Preorder(v, Header(v))
  BY Zenon DEF Dumped, Header
<1>3. Preorder(v, Header(s)) = Preorder(s, Header(s))
  BY SamePreorder
<1>4. QED
  BY <1>1, <1>2, <1>3

(* There is one way to do that.                                              *)
LEMMA OnePlace ==
  ASSUME NEW s, NEW v, SameTree(s, v), Whole(s, {}), NEW depth, Layered(s, depth),
         NEW end, Ordered(s, end), NEW e, Ordered(v, e)
  PROVE  /\ \A i \in Items : s.kind[i] # "free" => s.position[i] = v.position[i]
         /\ \A i \in Live(s) : end[i] = e[i]
<1> DEFINE order == InOrder(s)[Root]
           I == Inners(s)
           J == Inners(v)
<1>1. /\ s.kids \in [Lists -> Seq(Items)] /\ Root \in Lists /\ Root \in Live(s)
      /\ v.kids = s.kids /\ v.kind = s.kind /\ v.own = s.own /\ Whole(v, {})
  BY DEF Whole, Shaped, Live, Lists, SameTree
<1>2. order \in Seq(Items)
  BY <1>1, OrderIs
<1>3. Layered(v, depth) /\ InOrder(v) = InOrder(s) /\ Root \in Live(v)
      /\ Live(v) = Live(s)
  BY <1>1, SameLayered, SamePreorder DEF InOrder, Live
<1>4. /\ Row(order, s.position, I, 0, end[Root])
      /\ Row(order, v.position, J, 0, e[Root])
  <2>1. Row(InOrder(s)[Root], s.position, I, Start(s, Root), end[Root])
    BY <1>1, OrderRow
  <2>2. Row(InOrder(v)[Root], v.position, J, Start(v, Root), e[Root])
    BY <1>1, <1>3, OrderRow
  <2>3. QED
    BY <1>3, <2>1, <2>2 DEF Start
<1>5. \A x \in Items : /\ I[x] = s.position[x] + Len(s.own[x])
                       /\ J[x] = v.position[x] + Len(s.own[x])
  BY <1>1 DEF Inners, Inner, Lists, Items, Root
<1>6. \A x \in Items : s.kind[x] # "free" => Among(x, order)
  BY OrderHolds
<1> HIDE DEF order, I, J
<1>7. Len(order) \in Nat /\ \A k \in 1 .. Len(order) : order[k] \in Items
  BY <1>2
<1>8. /\ \A k \in 0 .. Len(order) : Ends(order, s.own)[k] = Mark(order, I, 0, k + 1)
      /\ \A k \in 0 .. Len(order) : Ends(order, s.own)[k] = Mark(order, J, 0, k + 1)
  <2>1. \A k \in 1 .. Len(order) :
          /\ I[order[k]] = s.position[order[k]] + Len(s.own[order[k]])
          /\ J[order[k]] = v.position[order[k]] + Len(s.own[order[k]])
    BY <1>5, <1>7
  <2>2. \A k \in 0 .. Len(order) : Ends(order, s.own)[k] = Mark(order, I, 0, k + 1)
    BY <1>4, <1>7, <2>1, EndsAre
  <2>3. \A k \in 0 .. Len(order) : Ends(order, s.own)[k] = Mark(order, J, 0, k + 1)
    BY <1>4, <1>7, <2>1, EndsAre
  <2>4. QED
    BY <2>2, <2>3
<1>9. ASSUME NEW i \in Items, s.kind[i] # "free"
      PROVE  s.position[i] = v.position[i]
  <2>1. PICK k \in 1 .. Len(order) : order[k] = i
    BY <1>6, <1>9 DEF Among
  <2>2. s.position[i] = Mark(order, I, 0, k) /\ v.position[i] = Mark(order, J, 0, k)
    BY <1>4, <2>1 DEF Row
  <2> DEFINE j == k - 1
  <2>3. j \in 0 .. Len(order) /\ j + 1 = k
    BY <1>7
  <2> HIDE DEF j
  <2>4. Mark(order, I, 0, k) = Mark(order, J, 0, k)
    BY <1>8, <2>3
  <2>5. QED
    BY <2>2, <2>4
<1>10. ASSUME NEW i \in Live(s) PROVE end[i] = e[i]
  <2>1. Dumped(v) = Dumped(s)
    BY <1>1, SameDumped
  <2>2. /\ Dumped(s)[i] \in Seq(Nat) /\ Start(s, i) + Len(Dumped(s)[i]) = end[i]
        /\ Start(v, i) + Len(Dumped(v)[i]) = e[i]
    BY <1>1, <1>3, DumpedLength
  <2>3. Start(s, i) = Start(v, i)
    BY <1>9 DEF Start, Live
  <2>4. QED
    BY <2>1, <2>2, <2>3
<1>11. QED
  BY <1>9, <1>10

(* What a label points to is alive.                                          *)
LEMMA LabelAlive ==
  ASSUME NEW s, Whole(s, {}), NEW n \in Names, s.label[n] # Unset
  PROVE  /\ s.label[n].item \in Items /\ s.kind[s.label[n].item] # "free"
         /\ s.label[n].item \in Live(s) /\ s.label[n].item # Root
         /\ s.label[n].offset \in Nat
<1>1. s.label[n] \in Pointers
  BY DEF Whole, Shaped
<1>2. s.label[n].item \in Items /\ s.label[n].offset \in Nat
  BY <1>1 DEF Pointers
<1>3. s.kind[s.label[n].item] # "free"
  BY <1>2 DEF Whole, Owned
<1>4. QED
  BY <1>2, <1>3 DEF Live, Items, Root

(* While the file is parsed, the items are where they belong.                *)
LEMMA ParsingSettled ==
  ASSUME NEW s, Good(s), Layout(s, Root, Root)
  PROVE  \E end : Settled(s, s, end)
<1>1. PICK end : LaidOut(s, end) /\ Bulky(s, end, Root) /\ Held(s, end)
  BY DEF Layout
<1>2. SameTree(s, s) /\ Ordered(s, end)
  BY <1>1, LaidOutOrdered DEF SameTree, Good
<1>3. Closing(s, end)
  <2> SUFFICES ASSUME NEW i \in Items, s.kind[i] # "free", s.position[i] = end[i]
               PROVE  s.position[i] = end[Root]
    BY DEF Closing
  <2>1. i # Root /\ end[Root] = Size
    BY <1>1 DEF LaidOut, Items, Root
  <2>2. s.position[i] < end[i] \/ s.position[i] = Size
    BY <1>1, <2>1 DEF Bulky
  <2>3. s.position[i] \in Nat
    BY DEF Good, Regular
  <2>4. QED
    BY <2>1, <2>2, <2>3
<1>4. Tracking(s, s)
  BY DEF Tracking
<1>5. QED
  BY <1>1, <1>2, <1>3, <1>4 DEF Settled

(* After Fixup they are, too, wherever they were before.                     *)
LEMMA FixedSettled ==
  ASSUME NEW s, NEW v, NEW end, Settled(s, v, end),
         NEW u, SameTree(s, u), NEW depth, Layered(u, depth), NEW e, Ordered(u, e)
  PROVE  Settled(u, u, e)
<1>1. /\ SameTree(s, v) /\ Ordered(v, end) /\ Held(v, end) /\ Closing(v, end)
      /\ Whole(u, {}) /\ SameTree(u, u) /\ SameTree(u, v)
  BY DEF Settled, SameTree
<1>2. /\ \A i \in Items : u.kind[i] # "free" => u.position[i] = v.position[i]
      /\ \A i \in Live(u) : e[i] = end[i]
  BY <1>1, OnePlace
<1>3. v.kind = u.kind /\ v.label = u.label
  BY <1>1 DEF SameTree
<1>4. Held(u, e)
  <2> SUFFICES ASSUME NEW n \in Names, u.label[n] # Unset, u.label[n].offset # 0
               PROVE  ToFilePos(u, u.label[n]) < e[u.label[n].item]
    BY DEF Held
  <2>1. u.label[n].item \in Items /\ u.kind[u.label[n].item] # "free"
        /\ u.label[n].item \in Live(u)
    BY <1>1, LabelAlive
  <2>2. ToFilePos(v, v.label[n]) < end[v.label[n].item]
    BY <1>1, <1>3 DEF Held
  <2>3. QED
    BY <1>2, <1>3, <2>1, <2>2 DEF ToFilePos
<1>5. Closing(u, e)
  <2>1. Root \in Live(u) /\ \A i \in Items : u.kind[i] # "free" => i \in Live(u)
    BY DEF Live
  <2>2. QED
    BY <1>1, <1>2, <1>3, <2>1 DEF Closing
<1>6. Tracking(u, u)
  BY DEF Tracking
<1>7. QED
  BY <1>1, <1>4, <1>5, <1>6 DEF Settled

(* There are units that the items show where they are.                       *)
LEMMA UnitsExist ==
  ASSUME NEW s, Whole(s, {}), NEW depth, Layered(s, depth),
         NEW end, Ordered(s, end)
  PROVE  \E units : Holding(s, units)
<1> DEFINE Has(i, q) == /\ s.kind[i] # "free" /\ s.position[i] <= q
                        /\ q < EndOf(s, i)
           There(q) == CHOOSE i \in Items : Has(i, q)
           units == [q \in Nat |-> s.own[There(q)][(q - s.position[There(q)]) + 1]]
<1>1. Clear(s)
  BY Clears
<1>2. s.own \in [Items -> Seq(Nat)]
      /\ \A i \in Items : s.kind[i] # "free" => s.position[i] \in Nat
  BY DEF Whole, Shaped, Ordered
<1>3. ASSUME NEW i \in Items, s.kind[i] # "free", NEW k \in 1 .. Len(s.own[i])
      PROVE  s.own[i][k] = units[s.position[i] + (k - 1)]
  <2> DEFINE a == s.position[i]
             n == Len(s.own[i])
             q == a + (k - 1)
             j == There(q)
  <2>1. a \in Nat /\ n \in Nat /\ EndOf(s, i) = a + n
    BY <1>2, <1>3 DEF EndOf
  <2> HIDE DEF a, n
  <2>2. k \in 1 .. n
    BY DEF n
  <2>3. q \in Nat /\ a <= q /\ q < a + n /\ (q - a) + 1 = k
    BY <2>1, <2>2
  <2> HIDE DEF q
  <2>4. Has(i, q)
    BY <1>3, <2>1, <2>3 DEF a
  <2> HIDE DEF Has
  <2>5. j \in Items /\ Has(j, q)
    BY <2>4
  <2> HIDE DEF j
  <2>6. j = i
    <3> SUFFICES ASSUME j # i PROVE FALSE
      OBVIOUS
    <3> USE DEF Has
    <3>1. s.kind[j] # "free" /\ s.position[j] <= q /\ q < EndOf(s, j)
          /\ s.position[i] <= q /\ q < EndOf(s, i)
      BY <2>4, <2>5
    <3> HIDE DEF Has
    <3>2. EndOf(s, i) <= s.position[j] \/ EndOf(s, j) <= s.position[i]
      BY <1>1, <1>3, <2>5, <3>1 DEF Clear
    <3>3. s.position[j] \in Nat /\ Len(s.own[j]) \in Nat /\ s.position[i] \in Nat
      BY <1>2, <1>3, <2>5, <3>1
    <3>4. EndOf(s, j) \in Nat /\ EndOf(s, i) \in Nat
      BY <2>1, <3>3 DEF EndOf
    <3>5. QED
      BY <2>3, <3>1, <3>2, <3>3, <3>4
  <2>7. units[q] = s.own[i][(q - a) + 1]
    BY <2>3, <2>6 DEF j, a
  <2>8. units[q] = s.own[i][k]
    BY <2>3, <2>7
  <2>9. QED
    BY <2>8 DEF q, a
<1> HIDE DEF units
<1>4. Holding(s, units)
  BY <1>3, Zenon DEF Holding, Shows
<1>5. QED
  BY <1>4

(* P2 and E2 are P and E, renumbered.                                        *)
Renumbered(list, P, E, P2, E2, h) ==
  \A k \in 1 .. Len(list) :
    P2[list[k]] = h[P[list[k]]] /\ E2[list[k]] = h[E[list[k]]]

(* A row whose places are renumbered.                                        *)
LEMMA RowMapped ==
  ASSUME NEW list, Len(list) \in Nat, NEW P, NEW E, NEW from, NEW to,
         Row(list, P, E, from, to), NEW P2, NEW E2, NEW h,
         Renumbered(list, P, E, P2, E2, h)
  PROVE  Row(list, P2, E2, h[from], h[to])
<1> DEFINE n == Len(list)
<1>1. /\ \A k \in 1 .. n : P[list[k]] = Mark(list, E, from, k)
      /\ to = Mark(list, E, from, n + 1)
  BY DEF Row
<1>2. \A k \in 1 .. n : P2[list[k]] = h[P[list[k]]] /\ E2[list[k]] = h[E[list[k]]]
  BY DEF Renumbered
<1>3. n \in Nat
  OBVIOUS
<1> HIDE DEF n
<1>4. ASSUME NEW k \in 1 .. n + 1
      PROVE  Mark(list, E2, h[from], k) = h[Mark(list, E, from, k)]
  <2>1. CASE k = 1
    BY <2>1 DEF Mark
  <2>2. CASE k # 1
    <3> DEFINE j == k - 1
    <3>1. j \in 1 .. n
      BY <1>3, <2>2
    <3> HIDE DEF j
    <3>2. E2[list[j]] = h[E[list[j]]]
      BY <1>2, <3>1
    <3>3. QED
      BY <2>2, <3>2 DEF Mark, j
  <2>3. QED
    BY <2>1, <2>2
<1>5. n + 1 \in 1 .. n + 1 /\ \A k \in 1 .. n : k \in 1 .. n + 1
  BY <1>3
<1> DEFINE l == n + 1
<1> HIDE DEF l
<1>6. \A k \in 1 .. n : P2[list[k]] = Mark(list, E2, h[from], k)
  BY <1>1, <1>2, <1>4, <1>5
<1>7. h[to] = Mark(list, E2, h[from], n + 1)
  BY <1>1, <1>4, <1>5
<1>8. QED
  BY <1>6, <1>7 DEF Row, n

(* What i has itself is inside p, behind it or before it. *)
BesideIt(s, end, i, p) ==
  \/ /\ Among(i, InOrder(s)[p])
     /\ Start(s, p) <= s.position[i] /\ EndOf(s, i) <= end[p]
  \/ end[p] <= s.position[i]
  \/ EndOf(s, i) <= Start(s, p)

(* Nothing is in between.                                                    *)
LEMMA Sides ==
  ASSUME NEW s, Whole(s, {}), NEW depth, Layered(s, depth),
         NEW end, Ordered(s, end),
         NEW i \in Items, s.kind[i] # "free", Len(s.own[i]) > 0
  PROVE  \A p \in Live(s) : /\ BesideIt(s, end, i, p)
                            /\ Start(s, p) \in Nat /\ end[p] \in Nat
                            /\ Start(s, p) <= end[p]
<1> SUFFICES ASSUME NEW p \in Live(s)
             PROVE  /\ BesideIt(s, end, i, p)
                    /\ Start(s, p) \in Nat /\ end[p] \in Nat
                    /\ Start(s, p) <= end[p]
  OBVIOUS
<1>1. /\ s.kids \in [Lists -> Seq(Items)] /\ p \in Lists
      /\ s.own \in [Items -> Seq(Nat)]
      /\ \A x \in Items : s.kind[x] # "free" => s.position[x] \in Nat
  BY DEF Whole, Shaped, Live, Lists, Ordered
<1>2. Spanning(s, end, p)
  BY Spans
<1>3. Start(s, p) \in Nat /\ end[p] \in Nat /\ Start(s, p) <= end[p]
  BY <1>2 DEF Spanning
<1>4. CASE Among(i, InOrder(s)[p])
  <2>1. Start(s, p) <= s.position[i] /\ EndOf(s, i) <= end[p]
    BY <1>2, <1>4 DEF Spanning
  <2>2. QED
    BY <1>3, <1>4, <2>1 DEF BesideIt
<1>5. CASE ~ Among(i, InOrder(s)[p])
  <2>1. i # p
    <3>1. p # Root => Among(p, InOrder(s)[p])
      BY <1>1, OrderClosed
    <3>2. i # Root
      BY DEF Items, Root
    <3>3. QED
      BY <1>5, <3>1, <3>2
  <2>2. p # Root => p \in Items /\ s.kind[p] # "free"
    BY DEF Live
  <2>3. Clear(s)
    BY Clears
  <2>4. s.position[i] \in Nat /\ Len(s.own[i]) \in Nat
        /\ (p # Root => s.position[p] \in Nat /\ Len(s.own[p]) \in Nat)
    BY <1>1, <2>2
  <2>5. EndOf(s, i) <= Start(s, p) \/ end[p] <= s.position[i]
    BY <1>2, <1>5, <2>1, <2>3, <2>4, Outside
  <2>6. QED
    BY <1>3, <2>5 DEF BesideIt
<1>6. QED
  BY <1>4, <1>5

(* Under is what has a place in the order of a dump. *)
LEMMA OrderUnder ==
  ASSUME NEW s, s.kids \in [Lists -> Seq(Items)],
         NEW depth, Layered(s, depth)
  PROVE  \A j \in Items : \A x \in Items :
           Among(x, InOrder(s)[j]) => x \in Under(s, j)
<1> DEFINE under == CHOOSE under : under = [j \in Items |->
                      {j} \union UNION {under[c] : c \in Range(s.kids[j])}]
           Fine(j) == \A x \in Items : Among(x, InOrder(s)[j]) => x \in under[j]
           B == {j \in Items : ~ Fine(j)}
<1>1. under = [j \in Items |->
                 {j} \union UNION {under[c] : c \in Range(s.kids[j])}]
  BY ZenonT(30), UnderEquation
<1>2. \A j : Under(s, j) = under[j]
  BY DEF Under
<1> HIDE DEF under
<1>3. \A j \in Items :
        under[j] = {j} \union UNION {under[c] : c \in Range(s.kids[j])}
  BY <1>1
<1>4. ASSUME B # {} PROVE FALSE
  <2>1. B \subseteq Lists
    BY DEF Lists
  <2>2. PICK j \in B : \A k \in 1 .. Len(s.kids[j]) : s.kids[j][k] \notin B
    <3> HIDE DEF B
    <3>1. QED
      BY <1>4, <2>1, Deepest
  <2>3. j \in Items /\ j \in Lists /\ ~ Fine(j) /\ s.kids[j] \in Seq(Items)
    BY <2>1, <2>2
  <2>4. ASSUME NEW x \in Items, Among(x, InOrder(s)[j]) PROVE x \in under[j]
    <3>1. x = j \/ \E k \in 1 .. Len(s.kids[j]) :
                     Among(x, InOrder(s)[s.kids[j][k]])
      BY <2>3, <2>4, OrderClosed
    <3>2. CASE x = j
      BY <1>3, <2>3, <3>2
    <3>3. ASSUME NEW k \in 1 .. Len(s.kids[j]),
                 Among(x, InOrder(s)[s.kids[j][k]])
          PROVE  x \in under[j]
      <4> DEFINE c == s.kids[j][k]
      <4>1. c \in Items /\ c \in Range(s.kids[j])
        BY <2>3 DEF Range
      <4>2. c \notin B
        BY <2>2
      <4> HIDE DEF c
      <4>3. Fine(c)
        BY <4>1, <4>2
      <4>4. x \in under[c]
        BY <3>3, <4>3 DEF c
      <4>5. QED
        BY <1>3, <2>3, <4>1, <4>4
    <3>4. QED
      BY <3>1, <3>2, <3>3
  <2>5. QED
    BY <2>3, <2>4
<1>5. QED
  BY <1>2, <1>4

-----------------------------------------------------------------------------
(* Another text of a string *)

(* Places behind the m units from a on, when there are n in their place. *)
Bump(h, a, m, n) ==
  /\ a \in Nat /\ m \in Nat /\ n \in Nat /\ m > 0 /\ n > 0
  /\ h \in [Nat -> Nat]
  /\ \A q \in Nat : h[q] = IF q < a + m THEN q ELSE (q - m) + n

(* u is s with the text of string i replaced by one of n units; labels of i   *)
(* point into the text, those of what i is in to something before.           *)
Writing(s, u, i, n) ==
  /\ u.kids = s.kids /\ u.kind = s.kind /\ u.label = s.label
  /\ u.position = s.position
  /\ i \in Items /\ s.kind[i] = "leaf" /\ Len(s.own[i]) > 0
  /\ n \in Nat /\ n > 0 /\ Len(u.own[i]) = n
  /\ u.own \in [Items -> Seq(Nat)]
  /\ \A x \in Items : x # i => u.own[x] = s.own[x]
  /\ \A k \in 1 .. n : u.own[i][k] = Edited
  /\ \A l \in Names : s.label[l] # Unset =>
       /\ s.label[l].item = i => s.label[l].offset < n
       /\ s.label[l].item # i /\ Among(i, InOrder(s)[s.label[l].item]) =>
            ToFilePos(s, s.label[l]) <= s.position[i]

(* ReadTxt_                                                                  *)
LEMMA ReadTxtWrites ==
  ASSUME Whole(t, {}), NEW depth, Layered(t, depth), ReadTxt
  PROVE  \E i, n : Writing(t, t', i, n)
<1>1. PICK i \in Items, n \in Texts :
        /\ t.kind[i] = "leaf" /\ SizeOf(t, i) > 0 /\ LabelsFit(i, n)
        /\ t' = [t EXCEPT !.own[i] = [k \in 1 .. n |-> Edited]]
  BY DEF ReadTxt
<1> DEFINE text == [k \in 1 .. n |-> Edited]
<1>2. /\ t.kids \in [Lists -> Seq(Items)] /\ t.own \in [Items -> Seq(Nat)]
      /\ Fields \subseteq DOMAIN t /\ i \in Lists
      /\ t.kids[i] = <<>>
  BY <1>1 DEF Whole, Shaped, Owned, Childless, Lists
<1>3. n \in Nat /\ n > 0 /\ text \in Seq(Nat) /\ Len(text) = n
      /\ \A k \in 1 .. n : text[k] = Edited
  BY ItemTreeAssumption DEF Edited
<1>4. t' = [t EXCEPT !.own[i] = text]
  BY <1>1
<1> HIDE DEF text
<1>5. /\ t'.kids = t.kids /\ t'.kind = t.kind /\ t'.label = t.label
      /\ t'.position = t.position /\ t'.own = [t.own EXCEPT ![i] = text]
  BY <1>2, <1>4 DEF Fields
<1>6. Len(t.own[i]) > 0
  <2>1. Dumped(t) = Preorder(t, Header(t))
    BY Zenon DEF Dumped, Header
  <2>2. Preorder(t, Header(t))[i] =
          Gathered(t.kids[i], Header(t)[i], Preorder(t, Header(t)))[Len(t.kids[i])]
    BY <1>2, PreorderIs
  <2> DEFINE none == <<>>
             all == Preorder(t, Header(t))
             first == Header(t)[i]
  <2>3. Header(t)[i] = t.own[i] /\ Header(t)[i] \in Seq(Nat)
    BY <1>2, HeaderIs DEF Items, Root
  <2>4. none \in Seq(Items) /\ Len(none) = 0 /\ t.kids[i] = none
        /\ \A k \in 1 .. Len(none) : all[none[k]] \in Seq(Nat)
    BY <1>2
  <2> HIDE DEF none, all, first
  <2>5. Grows(Gathered(none, first, all), none, first, all)
    BY <2>3, <2>4, GatheredIs DEF first
  <2>6. Gathered(none, first, all)[0] = first
    BY <2>5 DEF Grows
  <2>7. Dumped(t)[i] = t.own[i]
    BY <2>1, <2>2, <2>3, <2>4, <2>6 DEF all, first
  <2>8. QED
    BY <1>1, <2>7 DEF SizeOf
<1>7. ASSUME NEW l \in Names, t.label[l] # Unset
      PROVE  /\ t.label[l].item = i => t.label[l].offset < n
             /\ t.label[l].item # i /\ Among(i, InOrder(t)[t.label[l].item]) =>
                  ToFilePos(t, t.label[l]) <= t.position[i]
  <2> DEFINE j == t.label[l].item
  <2>1. l \in LabelsOf(t, j) /\ j \in Items
    BY <1>7, LabelAlive DEF LabelsOf
  <2>2. j = i => t.label[l].offset < n
    BY <1>1, <2>1 DEF LabelsFit
  <2>3. ASSUME j # i, Among(i, InOrder(t)[j])
        PROVE  ToFilePos(t, t.label[l]) <= t.position[i]
    <3>1. i \in Under(t, j)
      BY <1>2, <2>1, <2>3, OrderUnder
    <3> HIDE DEF j
    <3>2. QED
      BY <1>1, <2>1, <2>3, <3>1 DEF LabelsFit
  <2>4. QED
    BY <2>2, <2>3
<1>8. /\ t'.own \in [Items -> Seq(Nat)] /\ t'.own[i] = text
      /\ \A x \in Items : x # i => t'.own[x] = t.own[x]
  BY <1>2, <1>3, <1>5
<1>9. Writing(t, t', i, n)
  BY <1>1, <1>3, <1>5, <1>6, <1>7, <1>8 DEF Writing
<1>10. QED
  BY <1>9

(* The places of w are those of v, renumbered. *)
Mapped(v, end, w, e, h) ==
  /\ \A x \in Items : w.kind[x] # "free" =>
       v.kind[x] # "free" /\ w.position[x] = h[v.position[x]]
  /\ e = [p \in Lists |-> h[end[p]]]

(* w is u with its items where they go. *)
Written(s, u, v, w, i, n, end, e, h) ==
  /\ Whole(s, {}) /\ Settled(s, v, end) /\ Writing(s, u, i, n)
  /\ SameTree(u, w) /\ Mapped(v, end, w, e, h)
  /\ Bump(h, v.position[i], Len(s.own[i]), n)

(* What v and w are.                                                         *)
LEMMA WrittenTrees ==
  ASSUME NEW s, NEW u, NEW v, NEW w, NEW i, NEW n, NEW end, NEW e, NEW h,
         Written(s, u, v, w, i, n, end, e, h), NEW depth, Layered(s, depth)
  PROVE  /\ Whole(v, {}) /\ Layered(v, depth) /\ Ordered(v, end)
         /\ Whole(w, {}) /\ Layered(w, depth)
         /\ v.kids = s.kids /\ w.kids = s.kids /\ u.kids = s.kids
         /\ v.kind = s.kind /\ w.kind = s.kind /\ u.kind = s.kind
         /\ v.label = s.label /\ w.label = s.label /\ u.label = s.label
         /\ v.own = s.own /\ w.own = u.own
         /\ InOrder(v) = InOrder(s) /\ InOrder(w) = InOrder(s)
         /\ InOrder(u) = InOrder(s)
         /\ Live(v) = Live(s) /\ Live(w) = Live(s)
         /\ i \in Items /\ v.kind[i] # "free" /\ Len(v.own[i]) > 0
         /\ i \in Live(v) /\ s.kids[i] = <<>>
<1>1. /\ Whole(s, {}) /\ SameTree(s, v) /\ Ordered(v, end) /\ SameTree(u, w)
  BY DEF Written, Settled
<1>2. /\ v.kids = s.kids /\ v.kind = s.kind /\ v.label = s.label
      /\ v.own = s.own /\ Whole(v, {})
      /\ w.kids = u.kids /\ w.kind = u.kind /\ w.label = u.label
      /\ w.own = u.own /\ Whole(w, {})
  BY <1>1 DEF SameTree
<1>3. /\ u.kids = s.kids /\ u.kind = s.kind /\ u.label = s.label
      /\ i \in Items /\ s.kind[i] = "leaf" /\ Len(s.own[i]) > 0
  BY DEF Written, Writing
<1>4. /\ InOrder(v) = InOrder(s) /\ InOrder(w) = InOrder(s)
      /\ InOrder(u) = InOrder(s)
  BY <1>2, <1>3, SamePreorder DEF InOrder
<1>5. Layered(v, depth) /\ Layered(w, depth)
  BY <1>2, <1>3, SameLayered
<1>6. Live(v) = Live(s) /\ Live(w) = Live(s) /\ i \in Live(v)
  BY <1>2, <1>3 DEF Live
<1>7. s.kids[i] = <<>>
  BY <1>1, <1>3 DEF Whole, Owned, Childless
<1>8. QED
  BY <1>1, <1>2, <1>3, <1>4, <1>5, <1>6, <1>7

(* Where an item of v is: around the string, before it or behind it.         *)
LEMMA WrittenSides ==
  ASSUME NEW s, NEW u, NEW v, NEW w, NEW i, NEW n, NEW end, NEW e, NEW h,
         Written(s, u, v, w, i, n, end, e, h), NEW depth, Layered(s, depth)
  PROVE  LET a == v.position[i]
             m == Len(s.own[i]) IN
         /\ a \in Nat /\ m \in Nat /\ EndOf(v, i) = a + m
         /\ end[i] = a + m
         /\ \A p \in Live(v) :
              /\ Start(v, p) \in Nat /\ end[p] \in Nat /\ Start(v, p) <= end[p]
              /\ \/ Among(i, InOrder(v)[p]) /\ Start(v, p) <= a /\ a + m <= end[p]
                 \/ end[p] <= a
                 \/ a + m <= Start(v, p)
<1> DEFINE a == v.position[i]
           m == Len(s.own[i])
<1>1. /\ Whole(v, {}) /\ Layered(v, depth) /\ Ordered(v, end)
      /\ i \in Items /\ v.kind[i] # "free" /\ Len(v.own[i]) > 0
      /\ v.own = s.own /\ v.kids = s.kids /\ s.kids[i] = <<>> /\ i \in Live(v)
  BY WrittenTrees
<1>2. a \in Nat /\ m \in Nat /\ EndOf(v, i) = a + m
  BY <1>1 DEF Ordered, Whole, Shaped, EndOf
<1>3. \A p \in Live(v) : /\ BesideIt(v, end, i, p)
                         /\ Start(v, p) \in Nat /\ end[p] \in Nat
                         /\ Start(v, p) <= end[p]
  BY <1>1, Sides
<1>4. end[i] = a + m
  <2>1. Row(v.kids[i], v.position, end, Inner(v, i), end[i])
    BY <1>1 DEF Ordered
  <2>2. end[i] = Mark(v.kids[i], end, Inner(v, i), Len(v.kids[i]) + 1)
    BY <2>1 DEF Row
  <2>3. Len(v.kids[i]) + 1 = 1
    BY <1>1
  <2>4. end[i] = Inner(v, i)
    BY <2>2, <2>3 DEF Mark
  <2>5. Inner(v, i) = a + m
    BY <1>1 DEF Inner, Items, Root
  <2>6. QED
    BY <2>4, <2>5
<1>5. ASSUME NEW p \in Live(v)
      PROVE  /\ Start(v, p) \in Nat /\ end[p] \in Nat /\ Start(v, p) <= end[p]
             /\ \/ Among(i, InOrder(v)[p]) /\ Start(v, p) <= a /\ a + m <= end[p]
                \/ end[p] <= a
                \/ a + m <= Start(v, p)
  <2>1. /\ BesideIt(v, end, i, p)
        /\ Start(v, p) \in Nat /\ end[p] \in Nat /\ Start(v, p) <= end[p]
    BY <1>3
  <2>2. QED
    BY <1>2, <2>1 DEF BesideIt
<1>6. QED
  BY <1>2, <1>4, <1>5

(* w is in order.                                                            *)
LEMMA WrittenOrdered ==
  ASSUME NEW s, NEW u, NEW v, NEW w, NEW i, NEW n, NEW end, NEW e, NEW h,
         Written(s, u, v, w, i, n, end, e, h), NEW depth, Layered(s, depth)
  PROVE  Ordered(w, e)
<1> DEFINE a == v.position[i]
           m == Len(s.own[i])
<1>1. /\ Whole(v, {}) /\ Ordered(v, end) /\ Whole(w, {})
      /\ v.kids = s.kids /\ w.kids = s.kids /\ v.kind = s.kind /\ w.kind = s.kind
      /\ v.own = s.own /\ w.own = u.own /\ Live(v) = Live(s) /\ Live(w) = Live(s)
      /\ i \in Items /\ v.kind[i] # "free"
  BY WrittenTrees
<1>2. /\ a \in Nat /\ m \in Nat /\ EndOf(v, i) = a + m
      /\ \A p \in Live(v) : Start(v, p) \in Nat /\ end[p] \in Nat
  BY WrittenSides
<1>3. /\ h \in [Nat -> Nat] /\ m > 0 /\ n \in Nat /\ n > 0
      /\ \A q \in Nat : h[q] = IF q < a + m THEN q ELSE (q - m) + n
  BY DEF Written, Bump
<1>4. /\ \A x \in Items : w.kind[x] # "free" =>
           v.kind[x] # "free" /\ w.position[x] = h[v.position[x]]
      /\ e = [p \in Lists |-> h[end[p]]]
  BY DEF Written, Mapped
<1>5. /\ \A x \in Items : x # i => u.own[x] = s.own[x]
      /\ Len(u.own[i]) = n
  BY DEF Written, Writing
<1>6. Clear(v)
  <2>1. Layered(v, depth)
    BY WrittenTrees
  <2>2. QED
    BY <1>1, <2>1, Clears
<1>7. /\ v.kids \in [Lists -> Seq(Items)] /\ v.own \in [Items -> Seq(Nat)]
      /\ end \in [Lists -> Nat]
      /\ \A x \in Items : v.kind[x] # "free" => v.position[x] \in Nat
      /\ \A p \in Live(v) : Row(v.kids[p], v.position, end, Inner(v, p), end[p])
  BY <1>1 DEF Whole, Shaped, Ordered
<1>8. e \in [Lists -> Nat]
  BY <1>3, <1>4, <1>7
<1>9. \A x \in Items : w.kind[x] # "free" => w.position[x] \in Nat
  BY <1>3, <1>4, <1>7
<1>10. ASSUME NEW p \in Live(v)
       PROVE  h[Inner(v, p)] = Inner(w, p)
  <2>1. CASE p = Root
    <3>1. Inner(v, p) = 0 /\ Inner(w, p) = 0
      BY <2>1 DEF Inner
    <3> HIDE DEF a, m
    <3>2. h[0] = 0
      BY <1>2, <1>3
    <3>3. QED
      BY <3>1, <3>2
  <2>2. CASE p = i
    <3>1. Inner(v, p) = a + m /\ Inner(w, p) = h[a] + n
      BY <1>1, <1>4, <1>5, <2>2 DEF Inner, Items, Root
    <3> HIDE DEF a, m
    <3>2. QED
      BY <1>2, <1>3, <3>1
  <2>3. CASE p # Root /\ p # i
    <3> DEFINE b == v.position[p]
               k == Len(s.own[p])
    <3>1. p \in Items /\ v.kind[p] # "free"
      BY <2>3 DEF Live
    <3>2. b \in Nat /\ k \in Nat
      BY <1>1, <1>7, <3>1
    <3>3. b + k <= a \/ a + m <= b
      BY <1>1, <1>2, <1>6, <2>3, <3>1 DEF Clear, EndOf
    <3>4. Inner(v, p) = b + k /\ Inner(w, p) = h[b] + k
      BY <1>1, <1>4, <1>5, <2>3, <3>1 DEF Inner
    <3> HIDE DEF a, m, b, k
    <3>5. QED
      BY <1>2, <1>3, <3>2, <3>3, <3>4
  <2>4. QED
    BY <2>1, <2>2, <2>3
<1>11. ASSUME NEW p \in Live(w)
       PROVE  Row(w.kids[p], w.position, e, Inner(w, p), e[p])
  <2>1. p \in Live(v) /\ p \in Lists
    BY <1>1, <1>11 DEF Live, Lists
  <2>2. Row(w.kids[p], v.position, end, Inner(v, p), end[p])
    BY <1>1, <1>7, <2>1
  <2>3. Renumbered(w.kids[p], v.position, end, w.position, e, h)
    BY <1>1, <1>4, <2>1, KidsAlive DEF Renumbered
  <2>4. Len(w.kids[p]) \in Nat
    BY <1>1, <1>7, <2>1
  <2>5. Row(w.kids[p], w.position, e, h[Inner(v, p)], h[end[p]])
    BY <2>2, <2>3, <2>4, RowMapped
  <2>6. e[p] = h[end[p]]
    BY <1>4, <2>1
  <2>7. QED
    BY <1>10, <2>1, <2>5, <2>6
<1>12. QED
  BY <1>8, <1>9, <1>11 DEF Ordered

(* A label `off` behind b, of an item from b to c, and the string.           *)
Apartness(a, m, n, b, c, off, i, j) ==
  /\ b \in Nat /\ c \in Nat /\ off \in Nat /\ b <= c
  /\ off # 0 => b + off < c
  /\ \/ j = i /\ b = a /\ c = a + m /\ off < n
     \/ b + off <= a /\ a + m <= c
     \/ c <= a
     \/ a + m <= b

(* The label is moved like the units.                                        *)
LEMMA BumpedLabel ==
  ASSUME NEW h, NEW a, NEW m, NEW n, Bump(h, a, m, n),
         NEW b, NEW c, NEW off, NEW i, NEW j, Apartness(a, m, n, b, c, off, i, j)
  PROVE  /\ h[b] + off = h[b + off]
         /\ off # 0 => h[b] + off < h[c]
         /\ a < b + off /\ b + off < a + m => b + off <= a + n
         /\ b + off <= a \/ a + m <= b + off \/ j = i
<1>1. /\ a \in Nat /\ m \in Nat /\ n \in Nat /\ m > 0 /\ n > 0
      /\ b \in Nat /\ c \in Nat /\ off \in Nat /\ b <= c
      /\ off # 0 => b + off < c
  BY DEF Bump, Apartness
<1>2. /\ h[b] = IF b < a + m THEN b ELSE (b - m) + n
      /\ h[c] = IF c < a + m THEN c ELSE (c - m) + n
      /\ h[b + off] = IF b + off < a + m THEN b + off ELSE ((b + off) - m) + n
  BY <1>1 DEF Bump
<1>3. \/ j = i /\ b = a /\ c = a + m /\ off < n
      \/ b + off <= a /\ a + m <= c
      \/ c <= a
      \/ a + m <= b
  BY DEF Apartness
<1>4. CASE j = i /\ b = a /\ c = a + m /\ off < n
  BY <1>1, <1>2, <1>4
<1>5. CASE b + off <= a /\ a + m <= c
  BY <1>1, <1>2, <1>5
<1>6. CASE c <= a
  BY <1>1, <1>2, <1>6
<1>7. CASE a + m <= b
  BY <1>1, <1>2, <1>7
<1>8. QED
  BY <1>3, <1>4, <1>5, <1>6, <1>7

(* Every label is so.                                                        *)
LEMMA WrittenApart ==
  ASSUME NEW s, NEW u, NEW v, NEW w, NEW i, NEW n, NEW end, NEW e, NEW h,
         Written(s, u, v, w, i, n, end, e, h), NEW depth, Layered(s, depth),
         NEW l \in Names, v.label[l] # Unset
  PROVE  /\ Apartness(v.position[i], Len(s.own[i]), n,
                      v.position[v.label[l].item], end[v.label[l].item],
                      v.label[l].offset, i, v.label[l].item)
         /\ v.label[l].item \in Items /\ v.kind[v.label[l].item] # "free"
         /\ v.label[l].item \in Live(v)
<1> DEFINE a == v.position[i]
           m == Len(s.own[i])
           j == v.label[l].item
           off == v.label[l].offset
           b == v.position[j]
           c == end[j]
<1>1. /\ Whole(v, {}) /\ v.label = s.label /\ InOrder(v) = InOrder(s)
      /\ i \in Items /\ i \in Live(v)
  BY WrittenTrees
<1>2. j \in Items /\ v.kind[j] # "free" /\ j \in Live(v) /\ j # Root /\ off \in Nat
  BY <1>1, LabelAlive
<1>3. /\ a \in Nat /\ m \in Nat /\ end[i] = a + m
      /\ Start(v, j) \in Nat /\ c \in Nat /\ Start(v, j) <= c
      /\ \/ Among(i, InOrder(v)[j]) /\ Start(v, j) <= a /\ a + m <= c
         \/ c <= a
         \/ a + m <= Start(v, j)
  BY <1>2, WrittenSides
<1>4. Start(v, j) = b
  BY <1>2 DEF Start
<1>5. off # 0 => b + off < c
  BY <1>1 DEF Written, Settled, Held, ToFilePos
<1>6. j = i => off < n
  BY <1>1 DEF Written, Writing
<1>7. ASSUME j # i, Among(i, InOrder(v)[j]) PROVE b + off <= a
  <2>1. ToFilePos(s, s.label[l]) <= s.position[i]
    BY <1>1, <1>7 DEF Written, Writing
  <2>2. ToFilePos(v, v.label[l]) <= v.position[i]
    BY <1>1, <1>7, <2>1 DEF Written, Settled, Tracking
  <2>3. QED
    BY <2>2 DEF ToFilePos
<1>8. \/ j = i /\ b = a /\ c = a + m /\ off < n
      \/ b + off <= a /\ a + m <= c
      \/ c <= a
      \/ a + m <= b
  <2>1. CASE j = i
    BY <1>3, <1>6, <2>1
  <2>2. CASE j # i
    BY <1>3, <1>4, <1>7, <2>2
  <2>3. QED
    BY <2>1, <2>2
<1> HIDE DEF a, m, b, c, off, j
<1>9. Apartness(a, m, n, b, c, off, i, j)
  BY <1>2, <1>3, <1>4, <1>5, <1>8 DEF Apartness
<1>10. QED
  BY <1>2, <1>9 DEF a, m, b, c, off, j

(* Where the labels of w point to.                                           *)
LEMMA WrittenLabels ==
  ASSUME NEW s, NEW u, NEW v, NEW w, NEW i, NEW n, NEW end, NEW e, NEW h,
         Written(s, u, v, w, i, n, end, e, h), NEW depth, Layered(s, depth),
         NEW l \in Names, v.label[l] # Unset
  PROVE  LET a == v.position[i]
             m == Len(s.own[i])
             T == ToFilePos(v, v.label[l]) IN
         /\ T \in Nat /\ w.label[l] = v.label[l]
         /\ ToFilePos(w, w.label[l]) = h[T]
         /\ w.label[l].offset # 0 =>
              ToFilePos(w, w.label[l]) < e[w.label[l].item]
         /\ a < T /\ T < a + m => T <= a + n
         /\ T <= a \/ a + m <= T \/ w.label[l].item = i
<1> DEFINE a == v.position[i]
           m == Len(s.own[i])
           T == ToFilePos(v, v.label[l])
           j == v.label[l].item
           off == v.label[l].offset
           b == v.position[j]
           c == end[j]
<1>1. /\ w.label = v.label /\ w.kind = v.kind /\ Live(w) = Live(v)
      /\ i \in Items /\ v.kind[i] # "free"
  BY WrittenTrees
<1>2. Apartness(a, m, n, b, c, off, i, j) /\ j \in Items /\ v.kind[j] # "free"
      /\ j \in Live(v)
  BY WrittenApart
<1>3. Bump(h, a, m, n)
  BY DEF Written
<1>4. w.position[j] = h[b] /\ e[j] = h[c]
  <2>1. j \in Lists
    BY <1>2 DEF Lists
  <2>2. QED
    BY <1>1, <1>2, <2>1 DEF Written, Mapped
<1>5. T = b + off /\ w.label[l] = v.label[l] /\ ToFilePos(w, w.label[l]) = h[b] + off
  BY <1>1, <1>4 DEF ToFilePos
<1> HIDE DEF j, off, b, c, a, m, T
<1>7. /\ h[b] + off = h[b + off]
      /\ off # 0 => h[b] + off < h[c]
      /\ a < b + off /\ b + off < a + m => b + off <= a + n
      /\ b + off <= a \/ a + m <= b + off \/ j = i
  BY <1>2, <1>3, BumpedLabel
<1>8. T \in Nat
  BY <1>2, <1>5 DEF Apartness
<1>9. QED
  BY <1>4, <1>5, <1>7, <1>8 DEF j, off, a, m, T

(* w is settled.                                                             *)
LEMMA WrittenSettled ==
  ASSUME NEW s, NEW u, NEW v, NEW w, NEW i, NEW n, NEW end, NEW e, NEW h,
         Written(s, u, v, w, i, n, end, e, h), NEW depth, Layered(s, depth)
  PROVE  Settled(u, w, e)
<1> DEFINE a == v.position[i]
           m == Len(s.own[i])
<1>1. /\ Whole(w, {}) /\ w.label = v.label /\ w.kind = v.kind /\ Live(w) = Live(v)
      /\ w.label = u.label /\ u.label = s.label
      /\ InOrder(u) = InOrder(s) /\ v.kind = s.kind
      /\ s.kids[i] = <<>> /\ i \in Items /\ v.kids = s.kids /\ Whole(v, {})
      /\ Layered(v, depth) /\ InOrder(v) = InOrder(s)
  BY WrittenTrees
<1>2. SameTree(u, w) /\ Mapped(v, end, w, e, h) /\ Bump(h, a, m, n)
      /\ u.position = s.position /\ Closing(v, end) /\ Tracking(s, v)
  BY DEF Written, Writing, Settled
<1>3. Ordered(w, e)
  BY WrittenOrdered
<1>4. /\ a \in Nat /\ m \in Nat
      /\ \A p \in Live(v) :
           /\ Start(v, p) \in Nat /\ end[p] \in Nat /\ Start(v, p) <= end[p]
           /\ \/ Among(i, InOrder(v)[p]) /\ Start(v, p) <= a /\ a + m <= end[p]
              \/ end[p] <= a
              \/ a + m <= Start(v, p)
  BY WrittenSides
<1>5. ASSUME NEW l \in Names, v.label[l] # Unset
      PROVE  /\ ToFilePos(v, v.label[l]) \in Nat
             /\ ToFilePos(w, w.label[l]) = h[ToFilePos(v, v.label[l])]
             /\ w.label[l].offset # 0 =>
                  ToFilePos(w, w.label[l]) < e[w.label[l].item]
             /\ \/ ToFilePos(v, v.label[l]) <= a
                \/ a + m <= ToFilePos(v, v.label[l])
                \/ w.label[l].item = i
  BY <1>5, WrittenLabels
<1> HIDE DEF a, m
<1>6. Held(w, e)
  BY <1>1, <1>5 DEF Held
<1>7. Closing(w, e)
  <2> SUFFICES ASSUME NEW x \in Items, w.kind[x] # "free", w.position[x] = e[x]
               PROVE  w.position[x] = e[Root]
    BY DEF Closing
  <2> DEFINE b == v.position[x]
             c == end[x]
  <2>1. /\ v.kind[x] # "free" /\ w.position[x] = h[b]
        /\ e[x] = h[c] /\ e[Root] = h[end[Root]]
    BY <1>2 DEF Mapped, Lists
  <2>2. x \in Live(v) /\ Start(v, x) = b
    BY <2>1 DEF Live, Start, Items, Root
  <2>3. /\ b \in Nat /\ c \in Nat /\ b <= c
        /\ (b <= a /\ a + m <= c) \/ c <= a \/ a + m <= b
    BY <1>4, <2>2
  <2>4. b = c => b = end[Root]
    BY <1>2, <2>1 DEF Closing
  <2> HIDE DEF b, c
  <2>5. /\ h[b] = IF b < a + m THEN b ELSE (b - m) + n
        /\ h[c] = IF c < a + m THEN c ELSE (c - m) + n
        /\ n \in Nat /\ n > 0 /\ m > 0
    BY <1>2, <2>3 DEF Bump
  <2>6. h[b] = h[c]
    BY <2>1
  <2>7. b = c
    BY <1>4, <2>3, <2>5, <2>6
  <2>8. QED
    BY <2>1, <2>4, <2>7
<1>8. Tracking(u, w)
  <2> SUFFICES ASSUME NEW l \in Names, u.label[l] # Unset, NEW x \in Items,
                      Among(x, InOrder(u)[u.label[l].item]), x # u.label[l].item,
                      ToFilePos(u, u.label[l]) <= u.position[x]
               PROVE  ToFilePos(w, w.label[l]) <= w.position[x]
    BY DEF Tracking
  <2> DEFINE j == v.label[l].item
             T == ToFilePos(v, v.label[l])
             b == v.position[x]
  <2>1. /\ v.label[l] # Unset /\ u.label[l] = v.label[l] /\ w.label[l] = v.label[l]
        /\ s.label[l] = v.label[l]
    BY <1>1
  <2>2. j \in Items /\ j \in Live(v)
    BY <1>1, <2>1, LabelAlive
  <2>3. Among(x, InOrder(v)[j]) /\ x # j
    BY <1>1, <2>1
  <2>4. v.kind[x] # "free"
    BY <1>1, <2>2, <2>3, OrderAlive
  <2>5. T <= b
    <3>1. ToFilePos(s, s.label[l]) <= s.position[x]
      BY <1>1, <1>2, <2>1 DEF ToFilePos
    <3>2. QED
      BY <1>1, <1>2, <2>1, <2>3, <3>1 DEF Tracking
  <2>6. j # i
    <3>1. j = i => x = i \/ \E k \in 1 .. Len(v.kids[i]) :
                              Among(x, InOrder(v)[v.kids[i][k]])
      <4>1. v.kids \in [Lists -> Seq(Items)] /\ i \in Lists
        BY <1>1 DEF Whole, Shaped, Lists
      <4>2. QED
        BY <1>1, <2>3, <4>1, OrderClosed
    <3>2. 1 .. Len(v.kids[i]) = {}
      BY <1>1
    <3>3. QED
      BY <2>3, <3>1, <3>2
  <2>7. T \in Nat /\ ToFilePos(w, w.label[l]) = h[T] /\ (T <= a \/ a + m <= T)
    BY <1>5, <2>1, <2>6
  <2>8. w.position[x] = h[b] /\ b \in Nat
    <3>1. x \in Live(v) /\ Start(v, x) = b
      BY <2>4 DEF Live, Start, Items, Root
    <3>2. QED
      BY <1>1, <1>2, <1>4, <2>4, <3>1 DEF Mapped
  <2> HIDE DEF j, T, b
  <2>9. /\ h[b] = IF b < a + m THEN b ELSE (b - m) + n
        /\ h[T] = IF T < a + m THEN T ELSE (T - m) + n
        /\ n \in Nat /\ n > 0 /\ m > 0
    BY <1>2, <2>7, <2>8 DEF Bump
  <2>10. h[T] <= h[b]
    BY <1>4, <2>5, <2>7, <2>8, <2>9
  <2>11. QED
    BY <2>7, <2>8, <2>10
<1>9. QED
  BY <1>2, <1>3, <1>6, <1>7, <1>8 DEF Settled

(* There are such trees and numbers.                                         *)
LEMMA WrittenExists ==
  ASSUME NEW s, NEW u, NEW v, NEW i, NEW n, NEW end,
         Whole(s, {}), Whole(u, {}), Settled(s, v, end), Writing(s, u, i, n)
  PROVE  \E w, e, h : Written(s, u, v, w, i, n, end, e, h)
<1> DEFINE a == v.position[i]
           m == Len(s.own[i])
           h == [q \in Nat |-> IF q < a + m THEN q ELSE (q - m) + n]
           at == [x \in Items |-> h[v.position[x]]]
           none == <<>>
           e == [p \in Lists |-> h[end[p]]]
           w == [u EXCEPT !.position = at, !.pmap = none]
<1>1. SameTree(s, v) /\ Ordered(v, end)
  BY DEF Settled
<1>2. /\ i \in Items /\ s.kind[i] = "leaf" /\ m > 0 /\ n \in Nat /\ n > 0
      /\ u.kind = s.kind
  BY DEF Writing
<1>3. a \in Nat /\ m \in Nat
  <2>1. v.kind[i] # "free"
    BY <1>1, <1>2 DEF SameTree
  <2>2. s.own \in [Items -> Seq(Nat)]
    BY DEF Whole, Shaped
  <2>3. QED
    BY <1>1, <1>2, <2>1, <2>2 DEF Ordered
<1> HIDE DEF a, m
<1>4. Bump(h, a, m, n)
  <2>1. ASSUME NEW q \in Nat
        PROVE  (IF q < a + m THEN q ELSE (q - m) + n) \in Nat
    BY <1>2, <1>3
  <2>2. h \in [Nat -> Nat]
    BY <2>1
  <2>3. \A q \in Nat : h[q] = IF q < a + m THEN q ELSE (q - m) + n
    OBVIOUS
  <2> HIDE DEF h
  <2>4. QED
    BY <1>2, <1>3, <2>2, <2>3 DEF Bump
<1> HIDE DEF h
<1>5. Fields \subseteq DOMAIN u
  BY DEF Whole, Shaped
<1>6. /\ DOMAIN none = {} /\ DOMAIN at = Items
      /\ \A x \in Items : at[x] = h[v.position[x]]
  OBVIOUS
<1> HIDE DEF none, at
<1>7. /\ w.kids = u.kids /\ w.kind = u.kind /\ w.own = u.own /\ w.label = u.label
      /\ w.position = at /\ w.pmap = none /\ DOMAIN w = DOMAIN u
  BY <1>5 DEF Fields
<1> HIDE DEF w
<1>8. SameTree(u, w)
  <2>0. DOMAIN w.position = Items /\ DOMAIN w.pmap = {}
        /\ w.kids = u.kids /\ w.kind = u.kind /\ w.own = u.own
        /\ w.label = u.label /\ DOMAIN w = DOMAIN u
    <3>1. w.position = at /\ w.pmap = none /\ DOMAIN at = Items /\ DOMAIN none = {}
      BY <1>6, <1>7
    <3>2. QED
      BY <1>7, <3>1, Zenon
  <2> HIDE DEF e
  <2>1. Shaped(w)
    <3>1. /\ Fields \subseteq DOMAIN u /\ u.kids \in [Lists -> Seq(Items)]
          /\ DOMAIN u.kind = Items /\ u.own \in [Items -> Seq(Nat)]
          /\ u.label \in [Names -> Pointers \union {Unset}]
      BY DEF Whole, Shaped
    <3>2. QED
      BY <2>0, <3>1, Zenon DEF Shaped
  <2>2. Owned(w, {})
    <3>1. Owned(u, {})
      BY DEF Whole
    <3>2. QED
      BY <2>0, <3>1, Zenon DEF Owned
  <2>3. QED
    BY <1>7, <2>1, <2>2 DEF SameTree, Whole
<1>9. Mapped(v, end, w, e, h)
  <2>1. \A x \in Items : w.kind[x] # "free" =>
          v.kind[x] # "free" /\ w.position[x] = h[v.position[x]]
    BY <1>1, <1>2, <1>6, <1>7 DEF SameTree
  <2>2. QED
    BY <2>1 DEF Mapped
<1>10. Written(s, u, v, w, i, n, end, e, h)
  BY <1>4, <1>8, <1>9 DEF Written, a, m
<1>11. QED
  BY <1>10

(* What is shown of w is what was shown of v, but for the string.            *)
LEMMA WrittenUnits ==
  ASSUME NEW s, NEW u, NEW v, NEW w, NEW i, NEW n, NEW end, NEW e, NEW h,
         Written(s, u, v, w, i, n, end, e, h), NEW depth, Layered(s, depth),
         NEW units, Holding(v, units)
  PROVE  LET a == v.position[i]
             m == Len(s.own[i]) IN
         \E next : /\ Holding(w, next)
                   /\ \A q \in Nat : q < a => next[q] = units[q]
                   /\ \A q \in Nat : a + m <= q => next[(q - m) + n] = units[q]
<1> DEFINE a == v.position[i]
           m == Len(s.own[i])
           next == [q \in Nat |-> IF q < a THEN units[q]
                                 ELSE IF q < a + n THEN Edited
                                 ELSE units[(q - n) + m]]
<1>1. /\ Whole(v, {}) /\ v.kind = s.kind /\ w.kind = s.kind /\ v.own = s.own
      /\ w.own = u.own /\ i \in Items /\ v.kind[i] # "free"
      /\ Layered(v, depth) /\ Ordered(v, end)
  BY WrittenTrees
<1>2. a \in Nat /\ m \in Nat /\ EndOf(v, i) = a + m
  BY WrittenSides
<1>3. /\ Bump(h, a, m, n) /\ Mapped(v, end, w, e, h)
      /\ \A x \in Items : x # i => u.own[x] = s.own[x]
      /\ Len(u.own[i]) = n /\ \A k \in 1 .. n : u.own[i][k] = Edited
  BY DEF Written, Writing
<1>4. Clear(v) /\ v.own \in [Items -> Seq(Nat)]
      /\ \A x \in Items : v.kind[x] # "free" => v.position[x] \in Nat
  BY <1>1, Clears DEF Whole, Shaped, Ordered
<1>5. /\ n \in Nat /\ n > 0 /\ m > 0
      /\ \A q \in Nat : h[q] = IF q < a + m THEN q ELSE (q - m) + n
  BY <1>3 DEF Bump
<1> HIDE DEF a, m
<1>6. ASSUME NEW q \in Nat, q < a PROVE next[q] = units[q]
  BY <1>6
<1>7. ASSUME NEW q \in Nat, a + m <= q PROVE next[(q - m) + n] = units[q]
  <2> DEFINE r == (q - m) + n
  <2>1. r \in Nat /\ ~ (r < a) /\ ~ (r < a + n) /\ (r - n) + m = q
    BY <1>2, <1>5, <1>7
  <2> HIDE DEF r
  <2>2. next[r] = units[(r - n) + m]
    BY <2>1
  <2>3. QED
    BY <2>1, <2>2 DEF r
<1>8. ASSUME NEW q \in Nat, ~ (q < a), q < a + n PROVE next[q] = Edited
  BY <1>8
<1> HIDE DEF next
<1>9. ASSUME NEW x \in Items, w.kind[x] # "free", NEW k \in 1 .. Len(w.own[x])
      PROVE  w.own[x][k] = next[w.position[x] + (k - 1)]
  <2> DEFINE b == v.position[x]
             y == w.position[x]
  <2>1. v.kind[x] # "free" /\ y = h[b] /\ b \in Nat
    BY <1>3, <1>4, <1>9 DEF Mapped
  <2>2. CASE x = i
    <3>1. y = a /\ k \in 1 .. n /\ w.own[x][k] = Edited
      <4>1. b = a /\ k \in 1 .. n /\ w.own[x][k] = Edited
        BY <1>1, <1>3, <1>9, <2>2 DEF a
      <4> HIDE DEF b, y
      <4>2. h[a] = a
        BY <1>2, <1>5
      <4>3. QED
        BY <2>1, <4>1, <4>2
    <3> DEFINE q == y + (k - 1)
    <3>2. q \in Nat /\ ~ (q < a) /\ q < a + n
      BY <1>2, <1>5, <3>1
    <3> HIDE DEF q
    <3>3. next[q] = Edited
      BY <1>8, <3>2
    <3>4. QED
      BY <3>1, <3>3 DEF q
  <2>3. CASE x # i
    <3> DEFINE c == Len(v.own[x])
               q == b + (k - 1)
    <3>1. w.own[x] = v.own[x] /\ c \in Nat /\ k \in 1 .. c
      BY <1>1, <1>3, <1>4, <1>9, <2>3
    <3>2. b + c <= a \/ a + m <= b
      BY <1>1, <1>2, <1>4, <2>1, <2>3 DEF Clear, EndOf, a
    <3>3. v.own[x][k] = units[q]
      BY <2>1, <3>1 DEF Holding, Shows
    <3> HIDE DEF b, y, c
    <3>4. q \in Nat /\ (b + c <= a => q < a) /\ (a + m <= b => a + m <= q)
      <4>1. a \in Nat /\ m \in Nat /\ b \in Nat /\ c \in Nat /\ k \in 1 .. c
        BY <1>2, <2>1, <3>1
      <4>2. QED
        BY <4>1
    <3>5. CASE b + c <= a
      <4>1. h[b] = b
        BY <1>2, <1>5, <2>1, <3>1, <3>5
      <4>2. y + (k - 1) = q
        BY <2>1, <4>1
      <4>3. next[q] = units[q]
        BY <1>6, <3>4, <3>5
      <4>4. QED
        BY <3>1, <3>3, <4>2, <4>3 DEF y
    <3>6. CASE a + m <= b
      <4>1. h[b] = (b - m) + n
        BY <1>2, <1>5, <2>1, <3>6
      <4>2. y + (k - 1) = (q - m) + n
        BY <1>2, <1>5, <2>1, <3>1, <4>1
      <4>3. next[(q - m) + n] = units[q]
        BY <1>7, <3>4, <3>6
      <4>4. QED
        BY <3>1, <3>3, <4>2, <4>3 DEF y
    <3>7. QED
      BY <3>2, <3>5, <3>6
  <2>4. QED
    BY <2>2, <2>3
<1>10. Holding(w, next)
  BY <1>9, Zenon DEF Holding, Shows
<1>11. QED
  BY <1>6, <1>7, <1>10 DEF a, m

(* What a dump of the tree writes.                                           *)
LEMMA ContentIs ==
  ASSUME NEW s, Whole(s, {}), NEW depth, Layered(s, depth),
         NEW end, Ordered(s, end), NEW units, Holding(s, units)
  PROVE  /\ Dumped(s)[Root] \in Seq(Nat) /\ Len(Dumped(s)[Root]) = end[Root]
         /\ \A k \in 1 .. end[Root] : Dumped(s)[Root][k] = units[k - 1]
<1> DEFINE all == Dumped(s)[Root]
<1>1. Root \in Live(s) /\ Start(s, Root) = 0
  BY DEF Live, Start
<1>2. all \in Seq(Nat) /\ 0 + Len(all) = end[Root]
  BY <1>1, DumpedLength
<1>3. Shows(all, units, 0)
  BY <1>1, DumpedShows
<1> HIDE DEF all
<1>4. Len(all) \in Nat
  BY <1>2
<1>5. Len(all) = end[Root]
  BY <1>2, <1>4
<1>6. \A k \in 1 .. Len(all) : all[k] = units[0 + (k - 1)]
  BY <1>3 DEF Shows
<1>7. \A k \in 1 .. Len(all) : 0 + (k - 1) = k - 1
  BY <1>4
<1>8. QED
  BY <1>2, <1>5, <1>6, <1>7 DEF all

(* In old, the m units behind the first a make place for n others. *)
Overwritten(old, new, a, m, n) ==
  /\ old \in Seq(Nat) /\ new \in Seq(Nat)
  /\ a + m <= Len(old) /\ Len(new) = (Len(old) - m) + n
  /\ \A k \in 1 .. a : new[k] = old[k]
  /\ \A k \in 1 .. Len(old) : a + m < k => new[(k - m) + n] = old[k]

(* The units of the string, and nothing else, are replaced.                  *)
LEMMA WrittenContent ==
  ASSUME NEW s, NEW u, NEW v, NEW w, NEW i, NEW n, NEW end, NEW e, NEW h,
         Written(s, u, v, w, i, n, end, e, h), NEW depth, Layered(s, depth)
  PROVE  Overwritten(Dumped(s)[Root], Dumped(u)[Root], v.position[i],
                   Len(s.own[i]), n)
<1> DEFINE a == v.position[i]
           m == Len(s.own[i])
           old == Dumped(s)[Root]
           new == Dumped(u)[Root]
           N == end[Root]
           M == e[Root]
<1>1. /\ Whole(v, {}) /\ Layered(v, depth) /\ Ordered(v, end)
      /\ Whole(w, {}) /\ Layered(w, depth)
      /\ v.kids = s.kids /\ v.own = s.own /\ w.kids = u.kids /\ w.own = u.own
      /\ i \in Items /\ v.kind[i] # "free"
  BY WrittenTrees
<1>2. Ordered(w, e)
  BY WrittenOrdered
<1>3. PICK units : Holding(v, units)
  BY <1>1, UnitsExist
<1>4. PICK next : /\ Holding(w, next)
                  /\ \A q \in Nat : q < a => next[q] = units[q]
                  /\ \A q \in Nat : a + m <= q => next[(q - m) + n] = units[q]
  BY <1>3, WrittenUnits
<1>5. Dumped(v) = Dumped(s) /\ Dumped(w) = Dumped(u)
  BY <1>1, SameDumped
<1>6. /\ old \in Seq(Nat) /\ Len(old) = N
      /\ \A k \in 1 .. N : old[k] = units[k - 1]
  BY <1>1, <1>3, <1>5, ContentIs
<1>7. /\ new \in Seq(Nat) /\ Len(new) = M
      /\ \A k \in 1 .. M : new[k] = next[k - 1]
  BY <1>1, <1>2, <1>4, <1>5, ContentIs
<1>8. /\ a \in Nat /\ m \in Nat /\ N \in Nat /\ a + m <= N
  <2>1. Root \in Live(v) /\ Start(v, Root) = 0
    BY DEF Live, Start
  <2>2. a \in Nat /\ m \in Nat /\ N \in Nat
        /\ ((0 <= a /\ a + m <= N) \/ N <= a \/ a + m <= 0)
    BY <2>1, WrittenSides
  <2>3. N <= a => FALSE
    <3>1. EndOf(v, i) <= end[Root]
      <4>1. Spanning(v, end, Root)
        BY <1>1, <2>1, Spans
      <4>2. Among(i, InOrder(v)[Root])
        BY <1>1, OrderHolds
      <4>3. QED
        BY <4>1, <4>2 DEF Spanning
    <3>2. EndOf(v, i) = a + m
      BY WrittenSides
    <3>3. m > 0
      BY DEF Written, Writing
    <3> HIDE DEF N
    <3>4. a + m <= N
      BY <3>1, <3>2 DEF N
    <3>5. QED
      BY <2>2, <3>3, <3>4
  <2>4. m > 0
    BY DEF Written, Writing
  <2> HIDE DEF N
  <2>5. QED
    BY <2>2, <2>3, <2>4
<1>9. /\ n \in Nat /\ n > 0 /\ m > 0
      /\ \A q \in Nat : h[q] = IF q < a + m THEN q ELSE (q - m) + n
  BY DEF Written, Bump
<1>10. M = h[N]
  BY DEF Written, Mapped, Lists
<1> HIDE DEF M, N, a, m, old, new
<1>11. M = (N - m) + n /\ a + n <= M
  BY <1>8, <1>9, <1>10
<1>12. ASSUME NEW k \in 1 .. a PROVE new[k] = old[k]
  <2>1. k \in 1 .. N /\ k \in 1 .. M /\ k - 1 \in Nat /\ k - 1 < a
    BY <1>8, <1>9, <1>11
  <2>2. QED
    BY <1>4, <1>6, <1>7, <2>1
<1>13. ASSUME NEW k \in 1 .. N, a + m < k PROVE new[(k - m) + n] = old[k]
  <2> DEFINE q == k - 1
             r == (k - m) + n
  <2>1. q \in Nat /\ a + m <= q /\ r \in 1 .. M /\ r - 1 = (q - m) + n
    BY <1>8, <1>9, <1>11, <1>13
  <2> HIDE DEF r
  <2>2. old[k] = units[q] /\ new[r] = next[r - 1]
    BY <1>6, <1>7, <2>1
  <2> HIDE DEF q
  <2>3. next[(q - m) + n] = units[q]
    BY <1>4, <2>1
  <2>4. QED
    BY <2>1, <2>2, <2>3 DEF r
<1>14. QED
  <2>1. Overwritten(old, new, a, m, n)
    BY <1>6, <1>7, <1>8, <1>11, <1>12, <1>13 DEF Overwritten
  <2>2. QED
    BY <2>1 DEF a, m, old, new

(* The targets of LabelledFile are where the labels of the settled tree      *)
(* point to.                                                                 *)
Aimed ==
  (\E depth : Layered(t, depth)) =>
    \A v, end : Settled(t, v, end) => Targets = Pointed(v)

(* So it is, by what OrderedDumped says of each label.                       *)
LEMMA SettledTargets == Aimed
<1> SUFFICES ASSUME NEW depth, Layered(t, depth), NEW v, NEW end,
                    Settled(t, v, end)
             PROVE  Targets = Pointed(v)
  BY DEF Aimed
<1>1. /\ v.kids = t.kids /\ v.own = t.own /\ v.label = t.label /\ Whole(v, {})
      /\ Ordered(v, end)
  BY DEF Settled, SameTree
<1>2. Layered(v, depth)
  BY <1>1, SameLayered
<1>3. ASSUME NEW n \in Names
      PROVE  Targets[n] = IF v.label[n] = Unset THEN Unset
                          ELSE ToFilePos(v, v.label[n])
  <2>1. CASE v.label[n] = Unset
    BY <1>1, <2>1, TargetsOf
  <2>2. CASE v.label[n] # Unset
    BY <1>1, <1>2, <2>2, OrderedDumped
  <2>3. QED
    BY <2>1, <2>2
<1>4. QED
  BY <1>3, TargetsOf DEF Pointed

(* What a part of a sequence is.                                             *)
LEMMA PartIs ==
  ASSUME NEW x \in Seq(Nat), NEW from \in Nat, NEW to \in Nat,
         from <= to, to <= Len(x)
  PROVE  /\ SubSeq(x, from + 1, to) \in Seq(Nat)
         /\ Len(SubSeq(x, from + 1, to)) = to - from
         /\ Excerpt(SubSeq(x, from + 1, to), x, from)
<1>1. Excerpt(SubSeq(x, from + 1, to), x, from)
  BY ExcerptIs
<1>2. SubSeq(x, from + 1, to) \in Seq(Nat)
  OBVIOUS
<1>3. Len(SubSeq(x, from + 1, to)) = to - from
  OBVIOUS
<1>4. QED
  BY <1>1, <1>2, <1>3

(* new is old with the units from a on to a + m replaced by those to a + n. *)
PieceSwapped(old, new, a, m, n) ==
  /\ SubSeq(new, 1, (a + 1) - 1) = SubSeq(old, 1, (a + 1) - 1)
  /\ Len(new) - (Len(old) - (a + m)) = a + n
  /\ SubSeq(new, (a + n) + 1, Len(new)) = SubSeq(old, (a + m) + 1, Len(old))

(* One piece of a sequence is replaced by another.                           *)
LEMMA PieceReplaced ==
  ASSUME NEW old, NEW new, NEW a \in Nat, NEW m \in Nat, NEW n \in Nat,
         m > 0, n > 0, Overwritten(old, new, a, m, n)
  PROVE  PieceSwapped(old, new, a, m, n)
<1> DEFINE N == Len(old)
           M == Len(new)
<1>1. /\ old \in Seq(Nat) /\ new \in Seq(Nat)
      /\ N \in Nat /\ M \in Nat /\ a + m <= N /\ M = (N - m) + n
  BY DEF Overwritten
<1>2. /\ \A k \in 1 .. a : new[k] = old[k]
      /\ \A k \in 1 .. N : a + m < k => new[(k - m) + n] = old[k]
  BY DEF Overwritten
<1> HIDE DEF N, M
<1>3. (a + 1) - 1 = a /\ 0 + 1 = 1 /\ a - 0 = a
  OBVIOUS
<1>4. SubSeq(new, 1, a) = SubSeq(old, 1, a)
  <2>1. a <= N /\ a <= M /\ 0 <= a /\ 0 \in Nat
    BY <1>1
  <2> DEFINE x == SubSeq(new, 0 + 1, a)
             y == SubSeq(old, 0 + 1, a)
  <2>2. /\ Excerpt(x, new, 0) /\ x \in Seq(Nat) /\ Len(x) = a - 0
        /\ Excerpt(y, old, 0) /\ y \in Seq(Nat) /\ Len(y) = a - 0
    BY <1>1, <2>1, PartIs DEF N, M
  <2> HIDE DEF x, y
  <2>3. Len(x) = a /\ Len(y) = a
    BY <1>3, <2>2
  <2>4. \A k \in 1 .. a : 0 + k = k
    OBVIOUS
  <2>5. \A k \in 1 .. a : x[k] = y[k]
    BY <1>2, <2>2, <2>3, <2>4 DEF Excerpt
  <2>6. x = y
    BY <2>2, <2>3, <2>5, SameSeq
  <2>7. QED
    BY <1>3, <2>6 DEF x, y
<1>5. M - (N - (a + m)) = a + n
  BY <1>1
<1> DEFINE f == a + n
           g == a + m
           r == N - g
<1>6. /\ r \in Nat /\ M = f + r /\ N = g + r /\ f \in Nat /\ g \in Nat
      /\ f <= M /\ g <= N /\ M - f = r /\ N - g = r
  BY <1>1
<1>7. ASSUME NEW k \in 1 .. r
      PROVE  g + k \in 1 .. N /\ a + m < g + k /\ ((g + k) - m) + n = f + k
  BY <1>1
<1> HIDE DEF f, g, r
<1>8. SubSeq(new, f + 1, M) = SubSeq(old, g + 1, N)
  <2> DEFINE x == SubSeq(new, f + 1, M)
             y == SubSeq(old, g + 1, N)
  <2>0. /\ new \in Seq(Nat) /\ f \in Nat /\ M \in Nat /\ f <= M /\ M <= Len(new)
        /\ old \in Seq(Nat) /\ g \in Nat /\ N \in Nat /\ g <= N /\ N <= Len(old)
    BY <1>1, <1>6 DEF M, N
  <2>1. Excerpt(x, new, f) /\ x \in Seq(Nat) /\ Len(x) = r
    <3>1. Excerpt(x, new, f) /\ x \in Seq(Nat) /\ Len(x) = M - f
      BY <2>0, PartIs
    <3>2. QED
      BY <1>6, <3>1
  <2>2. Excerpt(y, old, g) /\ y \in Seq(Nat) /\ Len(y) = r
    <3>1. Excerpt(y, old, g) /\ y \in Seq(Nat) /\ Len(y) = N - g
      BY <2>0, PartIs
    <3>2. QED
      BY <1>6, <3>1
  <2> HIDE DEF x, y
  <2>3. \A k \in 1 .. r : x[k] = new[f + k] /\ y[k] = old[g + k]
    BY <2>1, <2>2 DEF Excerpt
  <2>4. ASSUME NEW k \in 1 .. r PROVE x[k] = y[k]
    <3> DEFINE q == g + k
    <3>1. q \in 1 .. N /\ a + m < q /\ (q - m) + n = f + k
      BY <1>7
    <3>2. x[k] = new[f + k] /\ y[k] = old[q]
      BY <2>3
    <3> HIDE DEF q
    <3>3. new[(q - m) + n] = old[q]
      BY <1>2, <3>1
    <3>4. QED
      BY <3>1, <3>2, <3>3
  <2>5. x = y
    BY <2>1, <2>2, <2>4, SameSeq
  <2>6. QED
    BY <2>5 DEF x, y
<1>9. QED
  BY <1>3, <1>4, <1>5, <1>8, Zenon DEF PieceSwapped, N, M, f, g

(* After another text was set, the tree can be settled.                      *)
LEMMA ReadTxtSettled ==
  ASSUME Whole(t, {}), NEW depth, Layered(t, depth), Whole(t', {}), ReadTxt,
         NEW v, NEW end, Settled(t, v, end)
  PROVE  \E w, e : Settled(t', w, e)
<1> DEFINE u == t'
<1>1. PICK i, n : Writing(t, u, i, n)
  BY ReadTxtWrites
<1>2. Whole(u, {})
  OBVIOUS
<1> HIDE DEF u
<1>3. PICK w, e, h : Written(t, u, v, w, i, n, end, e, h)
  BY <1>1, <1>2, WrittenExists
<1>4. Settled(u, w, e)
  BY <1>3, WrittenSettled
<1>5. QED
  BY <1>4 DEF u

(* ReadTxt_ replaces the units of a string, and moves the labels behind it.  *)
LEMMA ReadTxtStep ==
  ASSUME Whole(t, {}), NEW depth, Layered(t, depth), Whole(t', {}), ReadTxt,
         NEW v, NEW end, Settled(t, v, end)
  PROVE  [File!Next]_(File!vars)
<1> DEFINE u == t'
<1>1. PICK i, n : Writing(t, u, i, n)
  BY ReadTxtWrites
<1>2. Whole(u, {})
  OBVIOUS
<1>3. Layered(u, depth)
  BY ReadTxtLayered
<1>4. (\E d : Layered(u, d)) =>
        \A w, e : Settled(u, w, e) => Targets' = Pointed(w)
  <2>1. Aimed'
    BY SettledTargets, PTL
  <2>2. QED
    BY <2>1 DEF Aimed
<1>5. Dumped(t)' = Dumped(u)
  BY Zenon DEF Dumped, Preorder
<1> HIDE DEF u
<1>6. PICK w, e, h : Written(t, u, v, w, i, n, end, e, h)
  BY <1>1, <1>2, WrittenExists
<1>7. Settled(u, w, e)
  BY <1>6, WrittenSettled
<1> DEFINE old == Dumped(t)[Root]
           new == Dumped(u)[Root]
           at == Targets
           moved == Targets'
           a == v.position[i]
           m == Len(t.own[i])
<1>8. at = Pointed(v) /\ moved = Pointed(w)
  BY <1>3, <1>4, <1>7, SettledTargets DEF Aimed
<1>9. Overwritten(old, new, a, m, n)
  BY <1>6, WrittenContent
<1>14. old \in Seq(Nat) /\ new \in Seq(Nat)
       /\ a + m <= Len(old) /\ Len(new) = (Len(old) - m) + n
  BY <1>9 DEF Overwritten
<1>10. /\ a \in Nat /\ m \in Nat /\ n \in Nat /\ m > 0 /\ n > 0
       /\ \A q \in Nat : h[q] = IF q < a + m THEN q ELSE (q - m) + n
  BY <1>6 DEF Written, Bump
<1>11. ASSUME NEW l \in Names, v.label[l] # Unset
       PROVE  /\ at[l] \in Nat /\ at[l] # Unset /\ moved[l] = h[at[l]]
              /\ a < at[l] /\ at[l] < a + m => at[l] <= a + n
  <2> DEFINE T == ToFilePos(v, v.label[l])
  <2>1. /\ T \in Nat /\ w.label[l] = v.label[l]
        /\ ToFilePos(w, w.label[l]) = h[T]
        /\ a < T /\ T < a + m => T <= a + n
    BY <1>6, <1>11, WrittenLabels
  <2>2. at[l] = T /\ moved[l] = ToFilePos(w, w.label[l])
    BY <1>8, <1>11, <2>1 DEF Pointed
  <2> HIDE DEF T, at, moved, a, m
  <2>3. T # Unset
    BY <2>1, ItemTreeAssumption
  <2>4. QED
    BY <2>1, <2>2, <2>3
<1>12. ASSUME NEW l \in Names, v.label[l] = Unset
       PROVE  at[l] = Unset /\ moved[l] = Unset
  <2>1. w.label = v.label
    BY <1>6, WrittenTrees
  <2>2. QED
    BY <1>8, <1>12, <2>1 DEF Pointed
<1>13. moved = [l \in Names |-> moved[l]] /\ at = [l \in Names |-> at[l]]
  BY <1>8 DEF Pointed
<1> HIDE DEF old, new, at, moved, a, m
<1>15. CASE new = old
  <2>1. m = n
    BY <1>10, <1>14, <1>15
  <2>2. ASSUME NEW l \in Names PROVE moved[l] = at[l]
    <3>1. CASE v.label[l] = Unset
      BY <1>12, <3>1
    <3>2. CASE v.label[l] # Unset
      <4> DEFINE q == at[l]
      <4>1. q \in Nat /\ moved[l] = h[q]
        BY <1>11, <3>2
      <4> HIDE DEF q
      <4>2. h[q] = q
        BY <1>10, <2>1, <4>1
      <4>3. QED
        BY <4>1, <4>2 DEF q
    <3>3. QED
      BY <3>1, <3>2
  <2>3. moved = at
    BY <1>13, <2>2
  <2>4. QED
    BY <1>5, <1>15, <2>3 DEF old, new, at, moved, File!vars
<1>16. CASE new # old
  <2> DEFINE first == a + 1
             last == a + m
             rest == Len(old) - last
             to == Len(new) - rest
  <2>1. /\ SubSeq(new, 1, first - 1) = SubSeq(old, 1, first - 1)
        /\ to = a + n
        /\ SubSeq(new, (a + n) + 1, Len(new)) = SubSeq(old, last + 1, Len(old))
    <3>1. a \in Nat /\ m \in Nat /\ n \in Nat /\ m > 0 /\ n > 0
      BY <1>10
    <3>2. PieceSwapped(old, new, a, m, n)
      BY <1>9, <3>1, PieceReplaced
    <3>3. QED
      BY <3>2 DEF PieceSwapped
  <2>2. /\ Len(old) \in Nat /\ first \in 1 .. Len(old)
        /\ last \in first .. Len(old) /\ a + n >= first - 1
    BY <1>10, <1>14
  <2>3. \A l \in Names : at[l] \in first .. last - 1 => at[l] <= a + n
    <3> SUFFICES ASSUME NEW l \in Names, at[l] \in first .. last - 1
                 PROVE  at[l] <= a + n
      OBVIOUS
    <3> DEFINE q == at[l]
    <3>1. q \in Nat /\ a < q /\ q < a + m
      BY <1>10
    <3>2. v.label[l] # Unset
      BY <1>12, <3>1, ItemTreeAssumption
    <3> HIDE DEF q
    <3>3. QED
      BY <1>11, <3>1, <3>2 DEF q
  <2>4. moved = [l \in Names |-> IF at[l] = Unset \/ at[l] < last THEN at[l]
                                ELSE at[l] - last + (a + n)]
    <3>1. ASSUME NEW l \in Names
          PROVE  moved[l] = IF at[l] = Unset \/ at[l] < last THEN at[l]
                            ELSE at[l] - last + (a + n)
      <4>1. CASE v.label[l] = Unset
        BY <1>12, <4>1
      <4>2. CASE v.label[l] # Unset
        <5> DEFINE q == at[l]
        <5>1. q \in Nat /\ q # Unset /\ moved[l] = h[q]
          BY <1>11, <4>2
        <5> HIDE DEF q
        <5>2. h[q] = IF q < last THEN q ELSE q - last + (a + n)
          BY <1>10, <5>1
        <5> HIDE DEF last
        <5>3. QED
          BY <5>1, <5>2 DEF q
      <4>3. QED
        BY <4>1, <4>2
    <3> HIDE DEF last
    <3>2. QED
      BY <1>13, <3>1
  <2> HIDE DEF first, last
  <2>5. \E f \in 1 .. Len(old) : \E l \in f .. Len(old) :
          /\ Len(new) - (Len(old) - l) >= f - 1
          /\ SubSeq(new, 1, f - 1) = SubSeq(old, 1, f - 1)
          /\ SubSeq(new, (Len(new) - (Len(old) - l)) + 1, Len(new)) =
               SubSeq(old, l + 1, Len(old))
          /\ \A k \in Names :
               at[k] \in f .. l - 1 => at[k] <= Len(new) - (Len(old) - l)
          /\ moved = [k \in Names |-> IF at[k] = Unset \/ at[k] < l THEN at[k]
               ELSE at[k] - l + (Len(new) - (Len(old) - l))]
    BY <2>1, <2>2, <2>3, <2>4, Zenon
  <2>6. File!Rewrite
    BY <1>5, <2>5, Zenon DEF File!Rewrite, old, new, at, moved
  <2>7. QED
    BY <1>5, <1>16, <2>6 DEF File!Next, old, new
<1>17. QED
  BY <1>15, <1>16

-----------------------------------------------------------------------------
(* Fewer items *)

(* How many of the numbers up to q are in S. *)
Count(S) == [q \in Nat |-> Cardinality(S \intersect (1 .. q))]

(* g counts them. *)
Counting(g, S) ==
  /\ g \in [Nat -> Nat] /\ g[0] = 0
  /\ \A q \in Nat : g[q + 1] = IF q + 1 \in S THEN g[q] + 1 ELSE g[q]

(* So does Count.                                                            *)
LEMMA CountIs ==
  ASSUME NEW S
  PROVE  Counting(Count(S), S)
<1> DEFINE g == Count(S)
           C(q) == S \intersect (1 .. q)
<1>1. \A q \in Nat : g[q] = Cardinality(C(q))
  BY DEF Count
<1>2. ASSUME NEW q \in Nat PROVE IsFiniteSet(C(q)) /\ g[q] \in Nat
  <2>1. IsFiniteSet(1 .. q)
    BY FS_Interval
  <2>2. IsFiniteSet(C(q))
    BY <2>1, FS_Subset
  <2>3. Cardinality(C(q)) \in Nat
    BY <2>2, FS_CardinalityType
  <2>4. QED
    BY <1>1, <2>2, <2>3
<1>3. g[0] = 0
  <2>1. C(0) = {}
    OBVIOUS
  <2>2. QED
    BY <1>1, <2>1, FS_EmptySet
<1>4. ASSUME NEW q \in Nat
      PROVE  g[q + 1] = IF q + 1 \in S THEN g[q] + 1 ELSE g[q]
  <2>1. q + 1 \in Nat
    OBVIOUS
  <2>2. CASE q + 1 \in S
    <3>1. C(q + 1) = C(q) \union {q + 1} /\ q + 1 \notin C(q)
      BY <2>2
    <3>2. Cardinality(C(q) \union {q + 1}) = Cardinality(C(q)) + 1
      BY <1>2, <3>1, FS_AddElement
    <3>3. QED
      BY <1>1, <2>1, <2>2, <3>1, <3>2
  <2>3. CASE q + 1 \notin S
    <3>1. C(q + 1) = C(q)
      BY <2>3
    <3>2. QED
      BY <1>1, <2>1, <2>3, <3>1
  <2>4. QED
    BY <2>2, <2>3
<1>5. g \in [Nat -> Nat]
  <2>1. g = [q \in Nat |-> g[q]]
    BY DEF Count
  <2> HIDE DEF g
  <2>2. QED
    BY <1>2, <2>1
<1>6. QED
  BY <1>3, <1>4, <1>5 DEF Counting

(* The m units from a on are numbered in S, or none of them is. *)
AllOf(S, a, m) == \A q \in Nat : a <= q /\ q < a + m => q + 1 \in S
NoneOf(S, a, m) == \A q \in Nat : a <= q /\ q < a + m => q + 1 \notin S

(* What g does over a piece of which all is in S,                            *)
LEMMA CountAll ==
  ASSUME NEW S, NEW g, Counting(g, S), NEW a \in Nat, NEW m \in Nat,
         AllOf(S, a, m)
  PROVE  g[a + m] = g[a] + m
<1> DEFINE Failed == {k \in Nat : k <= m /\ g[a + k] # g[a] + k}
<1>1. g \in [Nat -> Nat] /\ g[a] \in Nat /\ a + 0 = a /\ g[a] + 0 = g[a]
  BY DEF Counting
<1>2. \A q \in Nat : q + 1 \in S => g[q + 1] = g[q] + 1
  BY DEF Counting
<1>3. ASSUME Failed # {} PROVE FALSE
  <2> DEFINE k == Min(Failed)
  <2>1. k \in Failed /\ \A j \in Failed : k <= j
    <3>1. Failed \subseteq Nat
      OBVIOUS
    <3> HIDE DEF Failed
    <3>2. QED
      BY <1>3, <3>1, Least
  <2> HIDE DEF k
  <2>2. k \in Nat /\ k <= m /\ g[a + k] # g[a] + k
    BY <2>1
  <2>3. k # 0
    BY <1>1, <2>2
  <2> DEFINE j == k - 1
             q == a + j
  <2>4. /\ j \in Nat /\ j <= m /\ ~ (k <= j) /\ q \in Nat /\ a <= q /\ q < a + m
        /\ q + 1 = a + k
    BY <2>2, <2>3
  <2>5. j \notin Failed
    <3> HIDE DEF Failed, j
    <3>1. QED
      BY <2>1, <2>4
  <2> HIDE DEF q
  <2>6. g[q] = g[a] + j
    BY <2>4, <2>5 DEF q
  <2>7. q + 1 \in S
    BY <2>4 DEF AllOf
  <2>8. g[q + 1] = g[q] + 1
    BY <1>2, <2>4, <2>7
  <2>9. (g[a] + j) + 1 = g[a] + k
    BY <1>1, <2>2
  <2>10. QED
    BY <2>2, <2>4, <2>6, <2>8, <2>9
<1>4. m \notin Failed
  BY <1>3
<1>5. QED
  BY <1>4

(* and over one of which nothing is.                                         *)
LEMMA CountNone ==
  ASSUME NEW S, NEW g, Counting(g, S), NEW a \in Nat, NEW m \in Nat,
         NoneOf(S, a, m)
  PROVE  g[a + m] = g[a]
<1> DEFINE Failed == {k \in Nat : k <= m /\ g[a + k] # g[a]}
<1>1. a + 0 = a
  OBVIOUS
<1>2. \A q \in Nat : q + 1 \notin S => g[q + 1] = g[q]
  BY DEF Counting
<1>3. ASSUME Failed # {} PROVE FALSE
  <2> DEFINE k == Min(Failed)
  <2>1. k \in Failed /\ \A j \in Failed : k <= j
    <3>1. Failed \subseteq Nat
      OBVIOUS
    <3> HIDE DEF Failed
    <3>2. QED
      BY <1>3, <3>1, Least
  <2> HIDE DEF k
  <2>2. k \in Nat /\ k <= m /\ g[a + k] # g[a]
    BY <2>1
  <2>3. k # 0
    BY <1>1, <2>2
  <2> DEFINE j == k - 1
             q == a + j
  <2>4. /\ j \in Nat /\ j <= m /\ ~ (k <= j) /\ q \in Nat /\ a <= q /\ q < a + m
        /\ q + 1 = a + k
    BY <2>2, <2>3
  <2>5. j \notin Failed
    <3> HIDE DEF Failed, j
    <3>1. QED
      BY <2>1, <2>4
  <2> HIDE DEF q
  <2>6. g[q] = g[a]
    BY <2>4, <2>5 DEF q
  <2>7. q + 1 \notin S
    BY <2>4 DEF NoneOf
  <2>8. g[q + 1] = g[q]
    BY <1>2, <2>4, <2>7
  <2>9. QED
    BY <2>2, <2>4, <2>6, <2>8
<1>4. m \notin Failed
  BY <1>3
<1>5. QED
  BY <1>4

(* There are as many more as there are numbers, at most.                     *)
LEMMA CountSome ==
  ASSUME NEW S, NEW g, Counting(g, S), NEW a \in Nat, NEW m \in Nat
  PROVE  g[a] <= g[a + m] /\ g[a + m] <= g[a] + m
<1> DEFINE Fits(k) == g[a] <= g[a + k] /\ g[a + k] <= g[a] + k
           Failed == {k \in Nat : ~ Fits(k)}
<1>1. g \in [Nat -> Nat] /\ g[a] \in Nat /\ a + 0 = a /\ g[a] + 0 = g[a]
  BY DEF Counting
<1>2. \A q \in Nat : g[q + 1] = g[q] + 1 \/ g[q + 1] = g[q]
  BY DEF Counting
<1>3. ASSUME Failed # {} PROVE FALSE
  <2> DEFINE k == Min(Failed)
  <2>1. k \in Failed /\ \A j \in Failed : k <= j
    <3>1. Failed \subseteq Nat
      OBVIOUS
    <3> HIDE DEF Failed
    <3>2. QED
      BY <1>3, <3>1, Least
  <2> HIDE DEF k
  <2>2. k \in Nat /\ ~ Fits(k)
    BY <2>1
  <2>3. k # 0
    BY <1>1, <2>2
  <2> DEFINE j == k - 1
             q == a + j
  <2>4. j \in Nat /\ ~ (k <= j) /\ q \in Nat /\ q + 1 = a + k
    BY <2>2, <2>3
  <2>5. j \notin Failed
    <3> HIDE DEF Failed, j
    <3>1. QED
      BY <2>1, <2>4
  <2> HIDE DEF q
  <2>6. g[a] <= g[q] /\ g[q] <= g[a] + j
    BY <2>4, <2>5 DEF q
  <2>7. g[a + k] = g[q] + 1 \/ g[a + k] = g[q]
    BY <1>2, <2>4
  <2>8. g[q] \in Nat /\ g[a + k] \in Nat
    BY <1>1, <2>4, <2>7
  <2> DEFINE x == g[a]
             y == g[q]
             z == g[a + k]
  <2>9. x <= y /\ y <= x + (k - 1) /\ (z = y + 1 \/ z = y) /\ x \in Nat /\ y \in Nat
    BY <1>1, <2>6, <2>7, <2>8
  <2>10. ~ (x <= z /\ z <= x + k)
    BY <2>2
  <2> HIDE DEF x, y, z, Fits, Failed
  <2>11. QED
    BY <2>2, <2>9, <2>10
<1>4. m \notin Failed
  BY <1>3
<1>5. QED
  BY <1>4

(* Where the items of the list that go are, there is nothing. *)
Hollow(list, G, P, E) ==
  \A k \in 1 .. Len(list) : list[k] \in G => P[list[k]] = E[list[k]]

(* What is kept of a row is one.                                             *)
LEMMA SiftedRow ==
  ASSUME NEW top \in Seq(Items), NEW G, NEW kept, Keeps(kept, top, G),
         NEW P, NEW E, NEW from, NEW to, Row(top, P, E, from, to),
         Hollow(top, G, P, E)
  PROVE  Row(kept[Len(top)], P, E, from, to)
<1> DEFINE K == Len(top)
           To(m) == Mark(top, E, from, m + 1)
           Fine(m) == kept[m] \in Seq(Items) /\ Row(kept[m], P, E, from, To(m))
           Failed == {m \in 0 .. K : ~ Fine(m)}
           none == <<>>
<1>1. /\ K \in Nat /\ kept[0] = none
      /\ \A m \in 0 .. K : m # 0 =>
           kept[m] = IF top[m] \in G THEN kept[m - 1]
                     ELSE Append(kept[m - 1], top[m])
  <2>1. K \in Nat
    OBVIOUS
  <2> HIDE DEF Failed, none
  <2>2. kept = [k \in 0 .. K |->
                  IF k = 0 THEN none
                  ELSE IF top[k] \in G THEN kept[k - 1]
                  ELSE Append(kept[k - 1], top[k])]
    BY DEF Keeps, none
  <2> HIDE DEF K
  <2>3. 0 \in 0 .. K
    BY <2>1
  <2>4. \A m \in 0 .. K :
          kept[m] = IF m = 0 THEN none
                    ELSE IF top[m] \in G THEN kept[m - 1]
                    ELSE Append(kept[m - 1], top[m])
    BY <2>2
  <2>5. QED
    BY <2>1, <2>3, <2>4
<1>2. /\ \A m \in 1 .. K : top[m] \in Items
      /\ \A m \in 1 .. K : P[top[m]] = Mark(top, E, from, m)
      /\ to = Mark(top, E, from, K + 1)
      /\ \A m \in 1 .. K : top[m] \in G => P[top[m]] = E[top[m]]
  BY DEF Row, Hollow
<1>3. none \in Seq(Items) /\ Row(none, P, E, from, from)
  BY RowOfNone
<1> HIDE DEF K, none
<1>4. ASSUME Failed # {} PROVE FALSE
  <2> DEFINE m == Min(Failed)
  <2>1. m \in Failed /\ \A j \in Failed : m <= j
    <3>1. Failed \subseteq Nat
      BY <1>1
    <3> HIDE DEF Failed
    <3>2. QED
      BY <1>4, <3>1, Least
  <2> HIDE DEF m
  <2>2. m \in 0 .. K /\ ~ Fine(m)
    BY <2>1
  <2>3. m # 0
    <3>1. To(0) = from
      BY DEF Mark
    <3>2. QED
      BY <1>1, <1>3, <2>2, <3>1
  <2> DEFINE j == m - 1
             x == top[m]
  <2>4. j \in 0 .. K /\ ~ (m <= j) /\ m \in 1 .. K /\ j + 1 = m /\ m \in Nat
        /\ m + 1 # 1 /\ (m + 1) - 1 = m
    BY <1>1, <2>2, <2>3
  <2>5. j \notin Failed
    <3> HIDE DEF Failed, j
    <3>1. QED
      BY <2>1, <2>4
  <2>6. Fine(j)
    BY <2>4, <2>5
  <2> HIDE DEF j, Failed
  <2>7. P[x] = To(j) /\ x \in Items /\ (x \in G => P[x] = E[x])
    BY <1>2, <2>4
  <2>8. To(m) = E[x]
    BY <2>4 DEF Mark
  <2>9. kept[m] = IF x \in G THEN kept[j] ELSE Append(kept[j], x)
    BY <1>1, <2>2, <2>3 DEF j
  <2>10. kept[j] \in Seq(Items) /\ Row(kept[j], P, E, from, P[x])
    BY <2>6, <2>7
  <2> HIDE DEF x
  <2>11. CASE x \in G
    BY <2>2, <2>7, <2>8, <2>9, <2>10, <2>11
  <2>12. CASE x \notin G
    <3> DEFINE l == kept[j]
               one == <<x>>
    <3>1. l \in Seq(Items) /\ Row(l, P, E, from, P[x])
      BY <2>10
    <3> HIDE DEF l
    <3>2. one \in Seq(Items) /\ Append(l, x) = l \o one
      BY <2>7, <3>1
    <3>3. Row(one, P, E, P[x], E[x])
      BY RowOfOne
    <3> HIDE DEF one
    <3>4. Row(l \o one, P, E, from, E[x])
      BY <3>1, <3>2, <3>3, RowJoined
    <3>5. Append(l, x) \in Seq(Items)
      BY <2>7, <3>1
    <3>6. kept[m] = Append(l, x)
      BY <2>9, <2>12 DEF l
    <3>7. QED
      BY <2>2, <2>8, <3>2, <3>4, <3>5, <3>6
  <2>13. QED
    BY <2>11, <2>12
<1>5. Fine(K)
  BY <1>1, <1>4
<1>6. QED
  BY <1>2, <1>5 DEF K

(* Item y is the child of another.                                           *)
ChildOfOne(s, y) ==
  \E r \in Items : \E k \in 1 .. Len(s.kids[r]) : s.kids[r][k] = y

(* What is under an item is so.                                              *)
LEMMA UnderListed ==
  ASSUME NEW s, s.kids \in [Lists -> Seq(Items)],
         NEW depth, Layered(s, depth)
  PROVE  \A i \in Items : \A y : Among(y, InOrder(s)[i]) /\ y # i =>
           ChildOfOne(s, y)
<1> DEFINE Below(y) == ChildOfOne(s, y)
           Fine(i) == \A y : Among(y, InOrder(s)[i]) /\ y # i => Below(y)
           B == {i \in Items : ~ Fine(i)}
<1>1. ASSUME B # {} PROVE FALSE
  <2>1. B \subseteq Lists
    BY DEF Lists
  <2>2. PICK i \in B : \A k \in 1 .. Len(s.kids[i]) : s.kids[i][k] \notin B
    <3> HIDE DEF B
    <3>1. QED
      BY <1>1, <2>1, Deepest
  <2>3. i \in Items /\ i \in Lists /\ ~ Fine(i) /\ s.kids[i] \in Seq(Items)
    BY <2>1, <2>2
  <2>4. ASSUME NEW y, Among(y, InOrder(s)[i]), y # i PROVE Below(y)
    <3>1. PICK k \in 1 .. Len(s.kids[i]) : Among(y, InOrder(s)[s.kids[i][k]])
      BY <2>3, <2>4, OrderClosed
    <3> DEFINE c == s.kids[i][k]
    <3>2. c \in Items
      BY <2>3
    <3>3. CASE y = c
      BY <2>3, <3>3 DEF ChildOfOne
    <3>4. CASE y # c
      <4>1. c \notin B
        BY <2>2
      <4> HIDE DEF c
      <4>2. Fine(c)
        BY <3>2, <4>1
      <4> HIDE DEF B, Below
      <4>3. QED
        BY <3>1, <3>4, <4>2 DEF c
    <3>5. QED
      BY <3>3, <3>4
  <2>5. QED
    BY <2>3, <2>4
<1>2. QED
  BY <1>1

(* If the items have the same children, the same is under them.              *)
LEMMA SameUnder ==
  ASSUME NEW s, s.kids \in [Lists -> Seq(Items)],
         NEW u, u.kids \in [Lists -> Seq(Items)],
         \A j \in Items : u.kids[j] = s.kids[j],
         NEW depth, Layered(s, depth), Layered(u, depth)
  PROVE  \A i \in Items : \A y :
           Among(y, InOrder(u)[i]) => Among(y, InOrder(s)[i])
<1> DEFINE Fine(i) == \A y : Among(y, InOrder(u)[i]) => Among(y, InOrder(s)[i])
           B == {i \in Items : ~ Fine(i)}
<1>0. \A c \in Items : c \notin B => Fine(c)
  OBVIOUS
<1>1. ASSUME B # {} PROVE FALSE
  <2>1. B \subseteq Lists
    BY DEF Lists
  <2>2. PICK i \in B : \A k \in 1 .. Len(s.kids[i]) : s.kids[i][k] \notin B
    <3> HIDE DEF B
    <3>1. QED
      BY <1>1, <2>1, Deepest
  <2>3. i \in Items /\ i \in Lists /\ ~ Fine(i) /\ s.kids[i] \in Seq(Items)
        /\ u.kids[i] = s.kids[i] /\ i # Root
    <3>1. i \in Items /\ ~ Fine(i)
      BY <2>2
    <3> HIDE DEF B, Fine
    <3>2. i \in Lists /\ s.kids[i] \in Seq(Items) /\ u.kids[i] = s.kids[i]
      BY <3>1 DEF Lists
    <3>3. i # Root
      BY <3>1 DEF Items, Root
    <3>4. QED
      BY <3>1, <3>2, <3>3
  <2>4. \A y : /\ Among(y, InOrder(u)[i]) <=>
                    y = i \/ \E k \in 1 .. Len(s.kids[i]) :
                               Among(y, InOrder(u)[s.kids[i][k]])
               /\ Among(y, InOrder(s)[i]) <=>
                    y = i \/ \E k \in 1 .. Len(s.kids[i]) :
                               Among(y, InOrder(s)[s.kids[i][k]])
    <3>1. \A y : Among(y, InOrder(u)[i]) <=>
                   (i # Root /\ y = i) \/ \E k \in 1 .. Len(u.kids[i]) :
                     Among(y, InOrder(u)[u.kids[i][k]])
      BY <2>3, OrderClosed
    <3>2. \A y : Among(y, InOrder(s)[i]) <=>
                   (i # Root /\ y = i) \/ \E k \in 1 .. Len(s.kids[i]) :
                     Among(y, InOrder(s)[s.kids[i][k]])
      BY <2>3, OrderClosed
    <3>3. QED
      BY <2>3, <3>1, <3>2
  <2>5. \A k \in 1 .. Len(s.kids[i]) : Fine(s.kids[i][k])
    <3> SUFFICES ASSUME NEW k \in 1 .. Len(s.kids[i]) PROVE Fine(s.kids[i][k])
      OBVIOUS
    <3> DEFINE c == s.kids[i][k]
    <3> HIDE DEF B, Fine
    <3>1. c \in Items /\ c \notin B
      BY <2>2, <2>3
    <3> HIDE DEF c
    <3>2. QED
      BY <1>0, <3>1 DEF c
  <2>6. QED
    BY <2>3, <2>4, <2>5
<1>2. QED
  BY <1>1

(* An item of G has the unit at q. *)
Lost(v, G, q) == \E y \in G : v.position[y] <= q /\ q < EndOf(v, y)

(* The units of a file of N that are not lost, numbered from 1. *)
Remaining(v, G, N) == {k \in 1 .. N : ~ Lost(v, G, k - 1)}

(* w is u with its items where they go when the units of G are gone. *)
Sieved(s, u, v, w, G, end, e, g) ==
  /\ Whole(s, {}) /\ Whole(u, {}) /\ Settled(s, v, end) /\ Sieving(s, u, G)
  /\ SameTree(u, w) /\ Mapped(v, end, w, e, g)
  /\ Counting(g, Remaining(v, G, end[Root]))

(* What v and w are.                                                         *)
LEMMA SievedTrees ==
  ASSUME NEW s, NEW u, NEW v, NEW w, NEW G, NEW end, NEW e, NEW g,
         Sieved(s, u, v, w, G, end, e, g),
         NEW depth, Layered(s, depth), Layered(u, depth)
  PROVE  /\ Whole(v, {}) /\ Layered(v, depth) /\ Ordered(v, end) /\ Clear(v)
         /\ Whole(w, {}) /\ Layered(w, depth)
         /\ v.kids = s.kids /\ v.kind = s.kind /\ v.own = s.own
         /\ v.label = s.label
         /\ w.kids = u.kids /\ w.kind = u.kind /\ w.own = u.own
         /\ w.label = u.label /\ u.label = s.label
         /\ InOrder(v) = InOrder(s) /\ InOrder(w) = InOrder(u)
         /\ Live(v) = Live(s) /\ Live(w) = Live(u)
<1>1. /\ Whole(s, {}) /\ SameTree(s, v) /\ Ordered(v, end) /\ SameTree(u, w)
      /\ u.label = s.label
  BY DEF Sieved, Settled, Sieving
<1>2. /\ v.kids = s.kids /\ v.kind = s.kind /\ v.label = s.label
      /\ v.own = s.own /\ Whole(v, {})
      /\ w.kids = u.kids /\ w.kind = u.kind /\ w.label = u.label
      /\ w.own = u.own /\ Whole(w, {})
  BY <1>1 DEF SameTree
<1>3. InOrder(v) = InOrder(s) /\ InOrder(w) = InOrder(u)
  BY <1>2, SamePreorder DEF InOrder
<1>4. Layered(v, depth) /\ Layered(w, depth)
  BY <1>2, SameLayered
<1>5. Clear(v)
  BY <1>1, <1>2, <1>4, Clears
<1>6. Live(v) = Live(s) /\ Live(w) = Live(u)
  BY <1>2 DEF Live
<1>7. QED
  BY <1>1, <1>2, <1>3, <1>4, <1>5, <1>6

(* Which items are left.                                                     *)
LEMMA SievedAlive ==
  ASSUME NEW s, NEW u, NEW v, NEW w, NEW G, NEW end, NEW e, NEW g,
         Sieved(s, u, v, w, G, end, e, g)
  PROVE  /\ G \subseteq Items
         /\ \A i \in Items :
              /\ u.kind[i] # "free" <=> v.kind[i] # "free" /\ i \notin G
              /\ u.kids[i] = v.kids[i]
              /\ i \notin G => u.own[i] = v.own[i]
              /\ i \notin G => u.position[i] = s.position[i]
         /\ \A y \in G : /\ v.kids[y] = <<>> /\ v.kind[y] # "free"
                         /\ \E k \in 1 .. Len(v.kids[Root]) : v.kids[Root][k] = y
<1>1. v.kids = s.kids /\ v.kind = s.kind /\ v.own = s.own
  BY DEF Sieved, Settled, SameTree
<1>2. /\ G \subseteq Items
      /\ \A y \in G : /\ s.kids[y] = <<>> /\ s.kind[y] = "raw"
                      /\ \E k \in 1 .. Len(s.kids[Root]) : s.kids[Root][k] = y
      /\ \A j \in Items : u.kids[j] = s.kids[j]
      /\ \A j \in Items : u.kind[j] = IF j \in G THEN "free" ELSE s.kind[j]
      /\ \A j \in Items : j \notin G =>
           u.own[j] = s.own[j] /\ u.position[j] = s.position[j]
  BY DEF Sieved, Sieving
<1>3. QED
  BY <1>1, <1>2

(* Where items of v are.                                                     *)
LEMMA SievedPlaces ==
  ASSUME NEW v, Whole(v, {}), NEW depth, Layered(v, depth),
         NEW end, Ordered(v, end), NEW i \in Items, v.kind[i] # "free"
  PROVE  /\ v.position[i] \in Nat /\ end[i] \in Nat /\ Len(v.own[i]) \in Nat
         /\ EndOf(v, i) = v.position[i] + Len(v.own[i])
         /\ EndOf(v, i) <= end[i] /\ end[Root] \in Nat /\ EndOf(v, i) \in Nat
         /\ EndOf(v, i) <= end[Root] /\ v.position[i] <= end[Root]
<1>1. /\ v.kids \in [Lists -> Seq(Items)] /\ v.own \in [Items -> Seq(Nat)]
      /\ i \in Live(v) /\ Root \in Live(v) /\ i \in Lists /\ i # Root
  BY DEF Whole, Shaped, Live, Lists, Items, Root
<1>2. Spanning(v, end, i) /\ Spanning(v, end, Root)
  BY <1>1, Spans
<1>3. Among(i, InOrder(v)[Root])
  BY OrderHolds
<1>4. Among(i, InOrder(v)[i])
  BY <1>1, OrderClosed
<1>5. end[i] \in Nat /\ end[Root] \in Nat
  BY <1>2 DEF Spanning
<1>6. /\ v.position[i] \in Nat /\ EndOf(v, i) <= end[Root]
      /\ EndOf(v, i) \in Nat
  BY <1>2, <1>3 DEF Spanning
<1>7. EndOf(v, i) <= end[i]
  BY <1>2, <1>4 DEF Spanning
<1>8. Len(v.own[i]) \in Nat /\ EndOf(v, i) = v.position[i] + Len(v.own[i])
  BY <1>1 DEF EndOf
<1>9. v.position[i] <= end[Root]
  <2> DEFINE a == v.position[i]
             b == Len(v.own[i])
             c == end[Root]
  <2>1. a \in Nat /\ b \in Nat /\ c \in Nat /\ a + b <= c
    BY <1>5, <1>6, <1>8
  <2> HIDE DEF a, b, c
  <2>2. a <= c
    BY <2>1
  <2>3. QED
    BY <2>2 DEF a, c
<1>10. QED
  BY <1>5, <1>6, <1>7, <1>8, <1>9

(* Of an item that is left, no unit is lost.                                 *)
LEMMA SievedStays ==
  ASSUME NEW s, NEW u, NEW v, NEW w, NEW G, NEW end, NEW e, NEW g,
         Sieved(s, u, v, w, G, end, e, g),
         NEW depth, Layered(s, depth), Layered(u, depth),
         NEW i \in Items, u.kind[i] # "free"
  PROVE  /\ \A q \in Nat : v.position[i] <= q /\ q < end[i] =>
              q + 1 \in Remaining(v, G, end[Root])
         /\ v.position[i] \in Nat /\ end[i] \in Nat /\ v.position[i] <= end[i]
<1>1. /\ Whole(v, {}) /\ Layered(v, depth) /\ Ordered(v, end) /\ Clear(v)
  BY SievedTrees
<1>2. /\ G \subseteq Items /\ v.kind[i] # "free" /\ i \notin G
      /\ \A y \in G : /\ v.kind[y] # "free"
                      /\ \E k \in 1 .. Len(v.kids[Root]) : v.kids[Root][k] = y
  BY SievedAlive
<1>3. /\ v.kids \in [Lists -> Seq(Items)] /\ Once(v.kids)
      /\ i \in Live(v) /\ Root \in Lists /\ Root \notin Items /\ i # Root
      /\ Items \subseteq Lists
  BY <1>1, <1>2 DEF Whole, Shaped, Owned, Live, Lists, Items, Root
<1>4. Spanning(v, end, i) /\ Start(v, i) = v.position[i]
  BY <1>1, <1>3, Spans DEF Start
<1>5. v.position[i] \in Nat /\ end[i] \in Nat /\ v.position[i] <= end[i]
  BY <1>4 DEF Spanning
<1>6. ASSUME NEW q \in Nat, v.position[i] <= q, q < end[i]
      PROVE  q + 1 \in Remaining(v, G, end[Root])
  <2>1. PICK y \in Items : /\ Among(y, InOrder(v)[i]) /\ v.kind[y] # "free"
                           /\ v.position[y] <= q /\ q < EndOf(v, y)
    BY <1>4, <1>6 DEF Spanning
  <2>2. y \notin G
    <3>1. ASSUME y \in G PROVE FALSE
      <4>1. y # i
        BY <1>2, <3>1
      <4>2. ChildOfOne(v, y)
        BY <1>1, <1>3, <2>1, <4>1, UnderListed
      <4>3. PICK r \in Items : \E k \in 1 .. Len(v.kids[r]) : v.kids[r][k] = y
        BY <4>2 DEF ChildOfOne
      <4>7. PICK k \in 1 .. Len(v.kids[r]) : v.kids[r][k] = y
        BY <4>3
      <4>4. PICK m \in 1 .. Len(v.kids[Root]) : v.kids[Root][m] = y
        BY <1>2, <3>1
      <4>5. r = Root
        BY <1>3, <4>4, <4>7 DEF Once
      <4>6. QED
        BY <1>3, <4>5
    <3>2. QED
      BY <3>1
  <2>3. ~ Lost(v, G, q)
    <3>1. ASSUME NEW z \in G, v.position[z] <= q, q < EndOf(v, z) PROVE FALSE
      <4>1. z \in Items /\ z # y /\ v.kind[z] # "free"
        BY <1>2, <2>2
      <4>2. EndOf(v, z) <= v.position[y] \/ EndOf(v, y) <= v.position[z]
        BY <1>1, <2>1, <4>1 DEF Clear
      <4> DEFINE a == v.position[z]
                 b == EndOf(v, z)
                 c == v.position[y]
                 d == EndOf(v, y)
      <4>3. a \in Nat /\ b \in Nat
        BY <1>1, <4>1, SievedPlaces
      <4>4. c \in Nat /\ d \in Nat
        BY <1>1, <2>1, SievedPlaces
      <4>5. a <= q /\ q < b /\ c <= q /\ q < d /\ (b <= c \/ d <= a)
        BY <2>1, <3>1, <4>2
      <4> HIDE DEF a, b, c, d
      <4>6. QED
        BY <4>3, <4>4, <4>5
    <3>2. QED
      BY <3>1 DEF Lost
  <2>4. q + 1 \in 1 .. end[Root] /\ (q + 1) - 1 = q
    <3> DEFINE b == EndOf(v, y)
               c == end[Root]
    <3>1. b \in Nat /\ c \in Nat /\ b <= c /\ q < b
      BY <1>1, <2>1, SievedPlaces
    <3> HIDE DEF b, c
    <3>2. q + 1 \in 1 .. c /\ (q + 1) - 1 = q
      BY <3>1
    <3>3. QED
      BY <3>2 DEF c
  <2>5. QED
    BY <2>3, <2>4 DEF Remaining
<1>7. QED
  BY <1>5, <1>6

(* Its units and what points to them stay together.                          *)
LEMMA SievedMoves ==
  ASSUME NEW s, NEW u, NEW v, NEW w, NEW G, NEW end, NEW e, NEW g,
         Sieved(s, u, v, w, G, end, e, g),
         NEW depth, Layered(s, depth), Layered(u, depth),
         NEW i \in Items, u.kind[i] # "free",
         NEW m \in Nat, v.position[i] + m <= end[i]
  PROVE  /\ g[v.position[i] + m] = g[v.position[i]] + m
         /\ v.position[i] \in Nat /\ end[i] \in Nat /\ g[v.position[i]] \in Nat
<1> DEFINE S == Remaining(v, G, end[Root])
           a == v.position[i]
           b == end[i]
<1>1. /\ \A q \in Nat : a <= q /\ q < b => q + 1 \in S
      /\ a \in Nat /\ b \in Nat
  BY SievedStays
<1>2. Counting(g, S)
  BY DEF Sieved
<1>3. a + m <= b
  OBVIOUS
<1> HIDE DEF a, b, S
<1>4. AllOf(S, a, m)
  <2> SUFFICES ASSUME NEW q \in Nat, a <= q, q < a + m PROVE q + 1 \in S
    BY DEF AllOf
  <2>1. q < b
    BY <1>1, <1>3
  <2>2. QED
    BY <1>1, <2>1
<1>5. g[a + m] = g[a] + m
  BY <1>1, <1>2, <1>4, CountAll
<1>6. g[a] \in Nat
  BY <1>1, <1>2 DEF Counting
<1>7. QED
  BY <1>1, <1>5, <1>6 DEF a, b

(* Where an item was that is gone, there is nothing.                         *)
LEMMA SievedGone ==
  ASSUME NEW s, NEW u, NEW v, NEW w, NEW G, NEW end, NEW e, NEW g,
         Sieved(s, u, v, w, G, end, e, g),
         NEW depth, Layered(s, depth), Layered(u, depth), NEW y \in G
  PROVE  g[v.position[y]] = g[end[y]]
<1> DEFINE S == Remaining(v, G, end[Root])
           a == v.position[y]
           m == Len(v.own[y])
           b == EndOf(v, y)
<1>1. /\ Whole(v, {}) /\ Layered(v, depth) /\ Ordered(v, end)
  BY SievedTrees
<1>2. y \in Items /\ v.kids[y] = <<>> /\ v.kind[y] # "free"
  BY SievedAlive
<1>3. a \in Nat /\ m \in Nat /\ b = a + m
  BY <1>1, <1>2, SievedPlaces
<1>4. end[y] = b
  <2>1. y \in Live(v) /\ y # Root
    BY <1>2 DEF Live, Items, Root
  <2>2. Row(v.kids[y], v.position, end, Inner(v, y), end[y])
    BY <1>1, <2>1 DEF Ordered
  <2>3. end[y] = Inner(v, y)
    BY <1>2, <2>2, RowOfNone
  <2>4. QED
    BY <2>1, <2>3 DEF Inner, EndOf
<1>5. Counting(g, S)
  BY DEF Sieved
<1> HIDE DEF a, m, b
<1>6. NoneOf(S, a, m)
  <2> SUFFICES ASSUME NEW q \in Nat, a <= q, q < a + m PROVE q + 1 \notin S
    BY DEF NoneOf
  <2>1. Lost(v, G, q)
    BY <1>3 DEF Lost, a, b
  <2>2. (q + 1) - 1 = q
    OBVIOUS
  <2>3. QED
    BY <2>1, <2>2 DEF Remaining
<1> HIDE DEF S
<1>7. g[a + m] = g[a]
  BY <1>3, <1>5, <1>6, CountNone
<1>8. QED
  BY <1>3, <1>4, <1>7 DEF a

(* w is in order.                                                            *)
LEMMA SievedOrdered ==
  ASSUME NEW s, NEW u, NEW v, NEW w, NEW G, NEW end, NEW e, NEW g,
         Sieved(s, u, v, w, G, end, e, g),
         NEW depth, Layered(s, depth), Layered(u, depth)
  PROVE  Ordered(w, e)
<1>1. /\ Whole(v, {}) /\ Ordered(v, end) /\ Whole(w, {}) /\ Layered(v, depth)
      /\ v.kids = s.kids /\ w.kids = u.kids /\ w.kind = u.kind /\ w.own = u.own
      /\ Live(v) = Live(s) /\ Live(w) = Live(u)
  BY SievedTrees
<1>2. /\ G \subseteq Items
      /\ \A i \in Items :
           /\ u.kind[i] # "free" <=> v.kind[i] # "free" /\ i \notin G
           /\ u.kids[i] = v.kids[i]
           /\ i \notin G => u.own[i] = v.own[i]
  BY SievedAlive
<1>3. /\ \A x \in Items : w.kind[x] # "free" =>
           v.kind[x] # "free" /\ w.position[x] = g[v.position[x]]
      /\ e = [p \in Lists |-> g[end[p]]]
  BY DEF Sieved, Mapped
<1>4. g \in [Nat -> Nat] /\ g[0] = 0
  BY DEF Sieved, Counting
<1>5. /\ v.kids \in [Lists -> Seq(Items)] /\ v.own \in [Items -> Seq(Nat)]
      /\ w.kids \in [Lists -> Seq(Items)]
      /\ end \in [Lists -> Nat]
      /\ \A x \in Items : v.kind[x] # "free" => v.position[x] \in Nat
      /\ \A p \in Live(v) : Row(v.kids[p], v.position, end, Inner(v, p), end[p])
  BY <1>1 DEF Whole, Shaped, Ordered
<1>6. e \in [Lists -> Nat]
  BY <1>3, <1>4, <1>5
<1>7. \A x \in Items : w.kind[x] # "free" => w.position[x] \in Nat
  BY <1>3, <1>4, <1>5
<1>8. ASSUME NEW p \in Items, w.kind[p] # "free"
      PROVE  g[Inner(v, p)] = Inner(w, p)
  <2> DEFINE a == v.position[p]
             m == Len(v.own[p])
  <2>1. v.kind[p] # "free" /\ p \notin G /\ u.kind[p] # "free" /\ p # Root
    BY <1>1, <1>2, <1>8 DEF Items, Root
  <2>2. m \in Nat /\ a + m <= end[p]
    BY <1>1, <2>1, SievedPlaces
  <2>3. g[a + m] = g[a] + m
    BY <2>1, <2>2, SievedMoves
  <2>4. Inner(v, p) = a + m
    BY <2>1 DEF Inner
  <2>5. w.position[p] = g[a] /\ Len(w.own[p]) = m
    BY <1>1, <1>2, <1>3, <1>8, <2>1
  <2>6. Inner(w, p) = g[a] + m
    BY <2>1, <2>5 DEF Inner
  <2>7. QED
    BY <2>3, <2>4, <2>6
<1>9. ASSUME NEW p \in Items, w.kind[p] # "free"
      PROVE  Row(w.kids[p], w.position, e, Inner(w, p), e[p])
  <2>1. p \in Live(v) /\ p \in Lists /\ w.kids[p] = v.kids[p] /\ e[p] = g[end[p]]
    BY <1>1, <1>2, <1>3, <1>9 DEF Live, Lists
  <2>2. Row(w.kids[p], v.position, end, Inner(v, p), end[p])
    BY <1>5, <2>1
  <2>3. Renumbered(w.kids[p], v.position, end, w.position, e, g)
    BY <1>1, <1>3, <2>1, KidsAlive DEF Renumbered
  <2>4. Len(w.kids[p]) \in Nat
    BY <1>5, <2>1
  <2>5. Row(w.kids[p], w.position, e, g[Inner(v, p)], g[end[p]])
    BY <2>2, <2>3, <2>4, RowMapped
  <2>6. QED
    BY <1>8, <1>9, <2>1, <2>5
<1>10. Row(w.kids[Root], w.position, e, Inner(w, Root), e[Root])
  <2> DEFINE top == v.kids[Root]
             P == [x \in Items |-> g[v.position[x]]]
             N == end[Root]
  <2>1. Root \in Live(v) /\ Root \in Lists /\ top \in Seq(Items)
        /\ e[Root] = g[N]
    BY <1>3, <1>5 DEF Live, Lists
  <2>2. Row(top, v.position, end, 0, N)
    BY <1>5, <2>1 DEF Inner
  <2>3. \A k \in 1 .. Len(top) : top[k] \in Items /\ top[k] \in Lists
    BY <2>1 DEF Lists
  <2>4. Renumbered(top, v.position, end, P, e, g)
    <3> HIDE DEF top
    <3>1. QED
      BY <1>3, <2>3 DEF Renumbered
  <2>5. Row(top, P, e, g[0], g[N])
    <3> HIDE DEF P, N
    <3>1. Len(top) \in Nat
      BY <2>1
    <3>2. QED
      BY <2>2, <2>4, <3>1, RowMapped
  <2>6. Hollow(top, G, P, e)
    <3> SUFFICES ASSUME NEW k \in 1 .. Len(top), top[k] \in G
                 PROVE  P[top[k]] = e[top[k]]
      BY DEF Hollow
    <3> DEFINE y == top[k]
    <3>1. y \in G /\ y \in Items /\ y \in Lists
      BY <2>3
    <3> HIDE DEF y
    <3>2. g[v.position[y]] = g[end[y]]
      BY <3>1, SievedGone
    <3>3. P[y] = e[y]
      BY <1>3, <3>1, <3>2
    <3>4. QED
      BY <3>3 DEF y
  <2>7. PICK kept : /\ Keeps(kept, top, G) /\ w.kids[Root] = kept[Len(top)]
    BY <1>1 DEF Sieved, Sieving
  <2>8. Row(w.kids[Root], P, e, 0, e[Root])
    <3>1. Row(top, P, e, 0, e[Root])
      BY <1>4, <2>1, <2>5
    <3> HIDE DEF top, P
    <3>2. Row(kept[Len(top)], P, e, 0, e[Root])
      BY <2>1, <2>6, <2>7, <3>1, SiftedRow
    <3>3. QED
      BY <2>7, <3>2
  <2>9. \A k \in 1 .. Len(w.kids[Root]) :
          /\ w.position[w.kids[Root][k]] = P[w.kids[Root][k]]
          /\ e[w.kids[Root][k]] = e[w.kids[Root][k]]
    <3> SUFFICES ASSUME NEW k \in 1 .. Len(w.kids[Root])
                 PROVE  w.position[w.kids[Root][k]] = P[w.kids[Root][k]]
      OBVIOUS
    <3> DEFINE x == w.kids[Root][k]
    <3>1. x \in Items /\ w.kind[x] # "free"
      BY <1>1, <2>1, KidsAlive
    <3> HIDE DEF x
    <3>2. w.position[x] = P[x]
      BY <1>3, <3>1
    <3>3. QED
      BY <3>2 DEF x
  <2>10. Len(w.kids[Root]) \in Nat
    BY <1>5, <2>1
  <2>11. Row(w.kids[Root], w.position, e, 0, e[Root])
    <3> HIDE DEF P
    <3>1. QED
      BY <2>8, <2>9, <2>10, RowSame
  <2>12. QED
    BY <2>11 DEF Inner
<1>11. \A p \in Live(w) : Row(w.kids[p], w.position, e, Inner(w, p), e[p])
  BY <1>9, <1>10 DEF Live
<1>12. QED
  BY <1>6, <1>7, <1>11 DEF Ordered

(* There are such trees and numbers.                                         *)
LEMMA SievedExists ==
  ASSUME NEW s, NEW u, NEW v, NEW G, NEW end,
         Whole(s, {}), Whole(u, {}), Settled(s, v, end), Sieving(s, u, G)
  PROVE  \E w, e : Sieved(s, u, v, w, G, end, e, Count(Remaining(v, G, end[Root])))
<1> DEFINE S == Remaining(v, G, end[Root])
           g == Count(S)
           at == [x \in Items |-> g[v.position[x]]]
           none == <<>>
           e == [p \in Lists |-> g[end[p]]]
           w == [u EXCEPT !.position = at, !.pmap = none]
<1>1. SameTree(s, v)
  BY DEF Settled
<1>2. \A j \in Items : u.kind[j] # "free" => s.kind[j] # "free"
  BY DEF Sieving
<1> HIDE DEF S
<1>4. Counting(g, S)
  BY CountIs
<1> HIDE DEF g
<1>5. Fields \subseteq DOMAIN u
  BY DEF Whole, Shaped
<1>6. /\ DOMAIN none = {} /\ DOMAIN at = Items
      /\ \A x \in Items : at[x] = g[v.position[x]]
  OBVIOUS
<1> HIDE DEF none, at
<1>7. /\ w.kids = u.kids /\ w.kind = u.kind /\ w.own = u.own /\ w.label = u.label
      /\ w.position = at /\ w.pmap = none /\ DOMAIN w = DOMAIN u
  BY <1>5 DEF Fields
<1> HIDE DEF w
<1>8. SameTree(u, w)
  <2>0. DOMAIN w.position = Items /\ DOMAIN w.pmap = {}
        /\ w.kids = u.kids /\ w.kind = u.kind /\ w.own = u.own
        /\ w.label = u.label /\ DOMAIN w = DOMAIN u
    <3>1. w.position = at /\ w.pmap = none /\ DOMAIN at = Items /\ DOMAIN none = {}
      BY <1>6, <1>7
    <3>2. QED
      BY <1>7, <3>1, Zenon
  <2> HIDE DEF e
  <2>1. Shaped(w)
    <3>1. /\ Fields \subseteq DOMAIN u /\ u.kids \in [Lists -> Seq(Items)]
          /\ DOMAIN u.kind = Items /\ u.own \in [Items -> Seq(Nat)]
          /\ u.label \in [Names -> Pointers \union {Unset}]
      BY DEF Whole, Shaped
    <3>2. QED
      BY <2>0, <3>1, Zenon DEF Shaped
  <2>2. Owned(w, {})
    <3>1. Owned(u, {})
      BY DEF Whole
    <3>2. QED
      BY <2>0, <3>1, Zenon DEF Owned
  <2>3. QED
    BY <1>7, <2>1, <2>2 DEF SameTree, Whole
<1>9. Mapped(v, end, w, e, g)
  <2>1. \A x \in Items : w.kind[x] # "free" =>
          v.kind[x] # "free" /\ w.position[x] = g[v.position[x]]
    BY <1>1, <1>2, <1>6, <1>7 DEF SameTree
  <2>2. QED
    BY <2>1 DEF Mapped
<1>10. Sieved(s, u, v, w, G, end, e, g)
  BY <1>4, <1>8, <1>9 DEF Sieved, S
<1>11. QED
  BY <1>10 DEF g, S

(* What a label points to is left, or where the file ends, and the label     *)
(* stays with it.                                                            *)
LEMMA SievedLabels ==
  ASSUME NEW s, NEW u, NEW v, NEW w, NEW G, NEW end, NEW e, NEW g,
         Sieved(s, u, v, w, G, end, e, g),
         NEW depth, Layered(s, depth), Layered(u, depth),
         NEW l \in Names, v.label[l] # Unset
  PROVE  LET T == ToFilePos(v, v.label[l]) IN
         /\ T \in Nat /\ w.label[l] = v.label[l]
         /\ ToFilePos(w, w.label[l]) = g[T]
         /\ w.label[l].offset # 0 =>
              ToFilePos(w, w.label[l]) < e[w.label[l].item]
         /\ T + 1 \in Remaining(v, G, end[Root]) \/ T = end[Root]
<1> DEFINE j == v.label[l].item
           off == v.label[l].offset
           b == v.position[j]
           c == end[j]
           N == end[Root]
           S == Remaining(v, G, N)
           T == ToFilePos(v, v.label[l])
<1>1. /\ Whole(w, {}) /\ w.label = v.label /\ w.kind = u.kind
  BY SievedTrees
<1>2. j \in Items /\ u.kind[j] # "free" /\ off \in Nat
  BY <1>1, LabelAlive
<1>3. /\ \A q \in Nat : b <= q /\ q < c => q + 1 \in S
      /\ b \in Nat /\ c \in Nat /\ b <= c
  BY <1>2, SievedStays
<1>4. T = b + off /\ w.label[l] = v.label[l]
      /\ ToFilePos(w, w.label[l]) = w.position[j] + off
  BY <1>1 DEF ToFilePos
<1>5. w.position[j] = g[b] /\ e[j] = g[c] /\ v.kind[j] # "free"
  BY <1>1, <1>2 DEF Sieved, Mapped, Lists
<1>6. off # 0 => b + off < c
  <2>1. Held(v, end)
    BY DEF Sieved, Settled
  <2>2. off # 0 => T < c
    BY <2>1 DEF Held
  <2>3. QED
    BY <1>4, <2>2
<1>7. b = c => b = N
  <2>1. Closing(v, end)
    BY DEF Sieved, Settled
  <2>2. QED
    BY <1>2, <1>3, <1>5, <2>1 DEF Closing
<1> DEFINE m == c - b
<1>8. m \in Nat /\ b + m = c /\ b + m <= c
  BY <1>3
<1>9. b + off <= c
  BY <1>2, <1>3, <1>6
<1>10. g[b + off] = g[b] + off /\ g[b] \in Nat
  BY <1>2, <1>9, SievedMoves
<1> HIDE DEF m
<1>11. g[b + m] = g[b] + m
  BY <1>2, <1>8, SievedMoves
<1> HIDE DEF j, off, b, c, N, S, T
<1>12. T \in Nat
  BY <1>2, <1>3, <1>4
<1>13. T + 1 \in S \/ T = N
  <2>1. CASE off = 0
    BY <1>2, <1>3, <1>4, <1>7, <1>12, <2>1
  <2>2. CASE off # 0
    BY <1>2, <1>3, <1>4, <1>6, <1>12, <2>2
  <2>3. QED
    BY <2>1, <2>2
<1>14. off # 0 => g[b] + off < e[j]
  <2> DEFINE f == g[b]
             h == g[c]
  <2>1. h = f + m /\ f \in Nat /\ e[j] = h
    BY <1>5, <1>8, <1>10, <1>11
  <2> HIDE DEF f, h
  <2>2. off # 0 => f + off < h
    BY <1>2, <1>3, <1>6, <1>8, <2>1
  <2>3. QED
    BY <2>1, <2>2 DEF f
<1>15. w.label[l].offset = off /\ w.label[l].item = j
  BY <1>4 DEF off, j
<1>16. QED
  BY <1>4, <1>5, <1>10, <1>12, <1>13, <1>14, <1>15 DEF T, S, N

(* w is settled.                                                             *)
LEMMA SievedSettled ==
  ASSUME NEW s, NEW u, NEW v, NEW w, NEW G, NEW end, NEW e, NEW g,
         Sieved(s, u, v, w, G, end, e, g),
         NEW depth, Layered(s, depth), Layered(u, depth)
  PROVE  Settled(u, w, e)
<1>1. /\ Whole(v, {}) /\ Ordered(v, end) /\ Layered(v, depth) /\ Whole(w, {})
      /\ v.label = s.label /\ w.label = u.label /\ u.label = s.label
      /\ v.kind = s.kind /\ w.kind = u.kind
  BY SievedTrees
<1>2. /\ G \subseteq Items
      /\ \A i \in Items :
           /\ u.kind[i] # "free" <=> v.kind[i] # "free" /\ i \notin G
           /\ i \notin G => u.position[i] = s.position[i]
  BY SievedAlive
<1>3. /\ SameTree(u, w) /\ Mapped(v, end, w, e, g) /\ Tracking(s, v)
      /\ Closing(v, end) /\ Counting(g, Remaining(v, G, end[Root]))
      /\ Whole(u, {}) /\ Whole(s, {})
  BY DEF Sieved, Settled
<1>4. Ordered(w, e)
  BY SievedOrdered
<1>5. ASSUME NEW l \in Names, v.label[l] # Unset
      PROVE  /\ ToFilePos(v, v.label[l]) \in Nat
             /\ ToFilePos(w, w.label[l]) = g[ToFilePos(v, v.label[l])]
             /\ w.label[l].offset # 0 =>
                  ToFilePos(w, w.label[l]) < e[w.label[l].item]
  BY <1>5, SievedLabels
<1>6. Held(w, e)
  BY <1>1, <1>5 DEF Held
<1>7. Closing(w, e)
  <2> SUFFICES ASSUME NEW x \in Items, w.kind[x] # "free", w.position[x] = e[x]
               PROVE  w.position[x] = e[Root]
    BY DEF Closing
  <2> DEFINE b == v.position[x]
             c == end[x]
             m == c - b
  <2>1. /\ v.kind[x] # "free" /\ w.position[x] = g[b]
        /\ e[x] = g[c] /\ e[Root] = g[end[Root]] /\ u.kind[x] # "free"
    BY <1>1, <1>3 DEF Mapped, Lists
  <2>2. b \in Nat /\ c \in Nat /\ b <= c
    BY <2>1, SievedStays
  <2>3. m \in Nat /\ b + m = c /\ b + m <= c
    BY <2>2
  <2> HIDE DEF m
  <2>4. g[b + m] = g[b] + m /\ g[b] \in Nat
    BY <2>1, <2>3, SievedMoves
  <2>5. b = c => b = end[Root]
    BY <1>3, <2>1 DEF Closing
  <2> HIDE DEF b, c
  <2>6. g[b] = g[b + m]
    BY <2>1, <2>3
  <2> DEFINE f == g[b]
  <2>7. f = f + m /\ f \in Nat
    BY <2>4, <2>6
  <2> HIDE DEF f
  <2>8. m = 0
    BY <2>3, <2>7
  <2>9. b = c
    BY <2>2, <2>3, <2>8
  <2>10. QED
    BY <2>1, <2>5, <2>9
<1>8. Tracking(u, w)
  <2> SUFFICES ASSUME NEW l \in Names, u.label[l] # Unset, NEW x \in Items,
                      Among(x, InOrder(u)[u.label[l].item]), x # u.label[l].item,
                      ToFilePos(u, u.label[l]) <= u.position[x]
               PROVE  ToFilePos(w, w.label[l]) <= w.position[x]
    BY DEF Tracking
  <2> DEFINE j == s.label[l].item
             T == ToFilePos(v, v.label[l])
             b == v.position[x]
             m == b - T
  <2>1. /\ s.label[l] # Unset /\ u.label[l] = s.label[l] /\ v.label[l] = s.label[l]
    BY <1>1
  <2>2. j \in Items /\ u.kind[j] # "free" /\ j \in Live(u)
    BY <1>3, <2>1, LabelAlive
  <2>3. Among(x, InOrder(u)[j]) /\ x # j
    BY <2>1
  <2>4. u.kind[x] # "free"
    BY <1>3, <2>2, <2>3, OrderAlive
  <2>5. u.position[x] = s.position[x] /\ u.position[j] = s.position[j]
        /\ v.kind[x] # "free"
    BY <1>2, <2>2, <2>4
  <2>6. Among(x, InOrder(s)[j])
    <3>1. /\ s.kids \in [Lists -> Seq(Items)] /\ u.kids \in [Lists -> Seq(Items)]
          /\ \A i \in Items : u.kids[i] = s.kids[i]
      BY <1>3 DEF Whole, Shaped, Sieved, Sieving
    <3>2. QED
      BY <2>2, <2>3, <3>1, SameUnder
  <2>7. ToFilePos(s, s.label[l]) <= s.position[x]
    BY <2>1, <2>5 DEF ToFilePos
  <2>8. T <= b
    BY <1>3, <2>1, <2>3, <2>6, <2>7 DEF Tracking
  <2>9. T \in Nat /\ ToFilePos(w, w.label[l]) = g[T]
    BY <1>5, <2>1
  <2>10. w.position[x] = g[b] /\ b \in Nat
    <3>1. w.position[x] = g[b]
      BY <1>1, <1>3, <2>4 DEF Mapped
    <3>2. b \in Nat
      BY <1>1, <2>5, SievedPlaces
    <3>3. QED
      BY <3>1, <3>2
  <2> HIDE DEF j, T, b
  <2>11. m \in Nat /\ T + m = b
    BY <2>8, <2>9, <2>10
  <2> HIDE DEF m
  <2>12. g[T] <= g[T + m]
    BY <1>3, <2>9, <2>11, CountSome
  <2>13. QED
    BY <2>9, <2>10, <2>11, <2>12
<1>9. QED
  BY <1>3, <1>4, <1>6, <1>7, <1>8 DEF Settled

(* In new is what S has of old, numbered by g. *)
Picked(old, new, S, g) ==
  /\ old \in Seq(Nat) /\ new \in Seq(Nat)
  /\ S \subseteq 1 .. Len(old) /\ Counting(g, S)
  /\ Len(new) = g[Len(old)]
  /\ \A q \in S : new[g[q]] = old[q]

(* What a dump writes is what is left.                                       *)
LEMMA SievedContent ==
  ASSUME NEW s, NEW u, NEW v, NEW w, NEW G, NEW end, NEW e, NEW g,
         Sieved(s, u, v, w, G, end, e, g),
         NEW depth, Layered(s, depth), Layered(u, depth)
  PROVE  /\ Picked(Dumped(s)[Root], Dumped(u)[Root], Remaining(v, G, end[Root]), g)
         /\ Len(Dumped(s)[Root]) = end[Root]
<1> DEFINE old == Dumped(s)[Root]
           new == Dumped(u)[Root]
           N == end[Root]
           M == e[Root]
           S == Remaining(v, G, N)
<1>1. /\ Whole(v, {}) /\ Layered(v, depth) /\ Ordered(v, end)
      /\ Whole(w, {}) /\ Layered(w, depth)
      /\ v.kids = s.kids /\ v.own = s.own /\ w.kids = u.kids /\ w.own = u.own
      /\ w.kind = u.kind
  BY SievedTrees
<1>2. Ordered(w, e)
  BY SievedOrdered
<1>3. PICK units : Holding(v, units)
  BY <1>1, UnitsExist
<1>4. PICK next : Holding(w, next)
  BY <1>1, <1>2, UnitsExist
<1>5. Dumped(v) = Dumped(s) /\ Dumped(w) = Dumped(u)
  BY <1>1, SameDumped
<1>6. /\ old \in Seq(Nat) /\ Len(old) = N
      /\ \A k \in 1 .. N : old[k] = units[k - 1]
  BY <1>1, <1>3, <1>5, ContentIs
<1>7. /\ new \in Seq(Nat) /\ Len(new) = M
      /\ \A k \in 1 .. M : new[k] = next[k - 1]
  BY <1>1, <1>2, <1>4, <1>5, ContentIs
<1>8. Counting(g, S) /\ M = g[N]
  BY DEF Sieved, Mapped, Lists
<1>9. /\ \A i \in Items :
           /\ u.kind[i] # "free" <=> v.kind[i] # "free" /\ i \notin G
           /\ i \notin G => u.own[i] = v.own[i]
  BY SievedAlive
<1>10. Spanning(v, end, Root) /\ Start(v, Root) = 0
  <2>1. Root \in Live(v) /\ Start(v, Root) = 0
    BY DEF Live, Start
  <2>2. QED
    BY <1>1, <2>1, Spans
<1> HIDE DEF old, new
<1>11. N \in Nat
  BY <1>6
<1>12. ASSUME NEW q \in S PROVE new[g[q]] = old[q] /\ q \in 1 .. N
  <2> DEFINE p == q - 1
  <2>1. q \in 1 .. N /\ ~ Lost(v, G, p)
    BY DEF Remaining
  <2>2. p \in Nat /\ 0 <= p /\ p < N /\ q \in Nat /\ q = p + 1
    BY <1>11, <2>1
  <2>3. PICK y \in Items : /\ v.kind[y] # "free"
                           /\ v.position[y] <= p /\ p < EndOf(v, y)
    BY <1>10, <2>2 DEF Spanning
  <2>4. y \notin G
    BY <2>1, <2>3 DEF Lost
  <2>5. u.kind[y] # "free" /\ w.own[y] = v.own[y] /\ w.kind[y] # "free"
    BY <1>1, <1>9, <2>3, <2>4
  <2> DEFINE a == v.position[y]
             n == Len(v.own[y])
             c == end[y]
             k == (p - a) + 1
  <2>6. a \in Nat /\ n \in Nat /\ c \in Nat /\ EndOf(v, y) = a + n /\ a + n <= c
    BY <1>1, <2>3, SievedPlaces
  <2>7. a <= p /\ p < a + n
    BY <2>3, <2>6
  <2>8. w.position[y] = g[a]
    BY <1>1, <2>5 DEF Sieved, Mapped
  <2>9. v.own[y][k] = units[a + (k - 1)] /\ w.own[y][k] = next[w.position[y] + (k - 1)]
    <3>1. k \in 1 .. Len(v.own[y])
      <4> HIDE DEF a
      <4>1. k \in 1 .. n
        BY <2>2, <2>6, <2>7
      <4>2. QED
        BY <4>1
    <3>2. k \in 1 .. Len(w.own[y])
      BY <2>5, <3>1
    <3> HIDE DEF k
    <3>3. QED
      BY <1>3, <1>4, <2>3, <2>5, <3>1, <3>2 DEF Holding, Shows
  <2>10. k \in Nat /\ k >= 1 /\ a + k = q /\ a + (k - 1) = q - 1 /\ a + k <= c
    <3> HIDE DEF a, n, c, p
    <3>2. k \in Nat /\ k >= 1 /\ a + k = p + 1 /\ a + (k - 1) = p /\ a + k <= c
      BY <2>2, <2>6, <2>7
    <3> HIDE DEF k
    <3>1. QED
      BY <2>2, <3>2
  <2> HIDE DEF k
  <2>11. g[a + k] = g[a] + k /\ g[a] \in Nat
    BY <2>5, <2>10, SievedMoves
  <2> HIDE DEF a, n, c, p
  <2>12. g[q] = g[a] + k
    BY <2>10, <2>11
  <2>13. g[q] <= M
    <3> DEFINE m == N - q
    <3>1. m \in Nat /\ q + m = N
      BY <1>11, <2>1
    <3>2. q \in Nat
      BY <2>2
    <3> HIDE DEF m, N, S
    <3>4. g[q] <= g[q + m]
      BY <1>8, <3>1, <3>2, CountSome
    <3>5. QED
      BY <1>8, <3>1, <3>4
  <2> DEFINE f == g[a]
             h == g[q]
  <2>14. h = f + k /\ f \in Nat /\ h <= M
    BY <2>11, <2>12, <2>13
  <2>15. M \in Nat
    BY <1>7
  <2> HIDE DEF f, h, M
  <2>16. h \in 1 .. M /\ h - 1 = f + (k - 1)
    BY <2>10, <2>14, <2>15
  <2>17. new[h] = next[h - 1] /\ old[q] = units[q - 1]
    BY <1>6, <1>7, <2>1, <2>16
  <2>18. v.own[y][k] = units[q - 1]
    BY <2>9, <2>10 DEF a
  <2>19. w.own[y][k] = next[f + (k - 1)]
    BY <2>8, <2>9 DEF a, f
  <2>20. new[h] = old[q]
    BY <2>5, <2>16, <2>17, <2>18, <2>19
  <2>21. QED
    BY <2>1, <2>20 DEF h
<1>13. S \subseteq 1 .. N
  BY <1>12
<1> HIDE DEF S, N, M
<1>14. Picked(old, new, S, g)
  BY <1>6, <1>7, <1>8, <1>12, <1>13 DEF Picked
<1>15. QED
  BY <1>6, <1>14 DEF old, new, S, N

(* After the collection the tree can be settled.                             *)
LEMMA GcSettled ==
  ASSUME Whole(t, {}), NEW depth, Layered(t, depth), Whole(t', {}), Gc,
         NEW v, NEW end, Settled(t, v, end)
  PROVE  \E w, e : Settled(t', w, e)
<1>0. Layered(t', depth)
  BY GcLayered
<1> DEFINE u == t'
<1>1. PICK G : Sieving(t, u, G)
  BY GcSieves
<1>2. Whole(u, {}) /\ Layered(u, depth)
  BY <1>0
<1> HIDE DEF u
<1> DEFINE g == Count(Remaining(v, G, end[Root]))
<1>3. \E w, e : Sieved(t, u, v, w, G, end, e, g)
  BY <1>1, <1>2, SievedExists
<1> HIDE DEF g
<1>4. PICK w, e : Sieved(t, u, v, w, G, end, e, g)
  BY <1>3
<1>5. Settled(u, w, e)
  BY <1>2, <1>4, SievedSettled
<1>6. QED
  BY <1>5 DEF u

(* Where all is left nothing moves.                                          *)
LEMMA CountFull ==
  ASSUME NEW S, NEW g, Counting(g, S), NEW N \in Nat, g[N] = N, NEW q \in 0 .. N
  PROVE  g[q] = q
<1> DEFINE m == N - q
           f == g[q]
<1>1. q \in Nat /\ m \in Nat /\ q + m = N /\ 0 + q = q
  OBVIOUS
<1>2. g \in [Nat -> Nat] /\ g[0] = 0
  BY DEF Counting
<1>3. f \in Nat
  BY <1>1, <1>2
<1> HIDE DEF m, f
<1>4. g[q + m] <= f + m
  BY <1>1, CountSome DEF f
<1>5. g[0 + q] <= g[0] + q
  BY <1>1, CountSome
<1>6. N <= f + m /\ f <= q
  BY <1>1, <1>2, <1>4, <1>5 DEF f
<1>7. f = q
  BY <1>1, <1>3, <1>6
<1>8. QED
  BY <1>7 DEF f

(* Stcm::File::Gc drops units that nothing points to.                        *)
LEMMA GcStep ==
  ASSUME Whole(t, {}), NEW depth, Layered(t, depth), Whole(t', {}), Gc,
         NEW v, NEW end, Settled(t, v, end)
  PROVE  [File!Next]_(File!vars)
<1> DEFINE u == t'
<1>0. Layered(u, depth)
  BY GcLayered
<1>1. PICK G : Sieving(t, u, G)
  BY GcSieves
<1>2. Whole(u, {})
  OBVIOUS
<1>3. (\E d : Layered(u, d)) =>
        \A w, e : Settled(u, w, e) => Targets' = Pointed(w)
  <2>1. Aimed'
    BY SettledTargets, PTL
  <2>2. QED
    BY <2>1 DEF Aimed
<1>4. Dumped(t)' = Dumped(u)
  BY Zenon DEF Dumped, Preorder
<1> HIDE DEF u
<1> DEFINE S == Remaining(v, G, end[Root])
           g == Count(S)
<1>5. \E w, e : Sieved(t, u, v, w, G, end, e, g)
  BY <1>1, <1>2, SievedExists
<1>6. \A q \in Nat : g[q] = Cardinality(S \intersect (1 .. q))
  BY DEF Count
<1> HIDE DEF g
<1>7. PICK w, e : Sieved(t, u, v, w, G, end, e, g)
  BY <1>5
<1>8. Settled(u, w, e)
  BY <1>0, <1>7, SievedSettled
<1> DEFINE old == Dumped(t)[Root]
           new == Dumped(u)[Root]
           at == Targets
           moved == Targets'
<1>9. at = Pointed(v) /\ moved = Pointed(w)
  BY <1>0, <1>3, <1>8, SettledTargets DEF Aimed
<1>10. Picked(old, new, S, g) /\ Len(old) = end[Root]
  BY <1>0, <1>7, SievedContent
<1>11. /\ old \in Seq(Nat) /\ new \in Seq(Nat)
       /\ S \subseteq 1 .. Len(old) /\ Counting(g, S)
       /\ Len(new) = g[Len(old)]
       /\ \A q \in S : new[g[q]] = old[q]
  BY <1>10 DEF Picked
<1>12. ASSUME NEW l \in Names, v.label[l] # Unset
       PROVE  /\ at[l] \in Nat /\ at[l] # Unset /\ moved[l] = g[at[l]]
              /\ at[l] + 1 \in S \/ at[l] = Len(old)
  <2> DEFINE T == ToFilePos(v, v.label[l])
  <2>1. /\ T \in Nat /\ w.label[l] = v.label[l]
        /\ ToFilePos(w, w.label[l]) = g[T]
        /\ T + 1 \in S \/ T = end[Root]
    BY <1>0, <1>7, <1>12, SievedLabels
  <2>2. at[l] = T /\ moved[l] = ToFilePos(w, w.label[l])
    BY <1>9, <1>12, <2>1 DEF Pointed
  <2>3. T # Unset
    BY <2>1, ItemTreeAssumption
  <2>4. T + 1 \in S \/ T = Len(old)
    BY <1>10, <2>1
  <2> HIDE DEF T, at, moved, old, S
  <2>5. QED
    BY <2>1, <2>2, <2>3, <2>4
<1>13. ASSUME NEW l \in Names, v.label[l] = Unset
       PROVE  at[l] = Unset /\ moved[l] = Unset
  <2>1. v.label = t.label /\ w.label = u.label /\ u.label = t.label
    <3> HIDE DEF g
    <3>1. QED
      BY <1>0, <1>7, SievedTrees
  <2>2. w.label = v.label
    BY <2>1
  <2>3. QED
    BY <1>9, <1>13, <2>2 DEF Pointed
<1>14. moved = [l \in Names |-> moved[l]] /\ at = [l \in Names |-> at[l]]
  BY <1>9 DEF Pointed
<1> HIDE DEF old, new, at, moved, S
<1>15. CASE new = old
  <2> DEFINE N == Len(old)
  <2>1. g[N] = N /\ N \in Nat
    BY <1>11, <1>15
  <2>2. ASSUME NEW l \in Names PROVE moved[l] = at[l]
    <3>1. CASE v.label[l] = Unset
      BY <1>13, <3>1
    <3>2. CASE v.label[l] # Unset
      <4> DEFINE q == at[l]
      <4>1. q \in Nat /\ moved[l] = g[q] /\ (q + 1 \in S \/ q = N)
        BY <1>12, <3>2
      <4> HIDE DEF q, N
      <4>2. q \in 0 .. N
        BY <1>11, <2>1, <4>1 DEF N
      <4>3. g[q] = q
        BY <1>11, <2>1, <4>2, CountFull
      <4>4. QED
        BY <4>1, <4>3 DEF q
    <3>3. QED
      BY <3>1, <3>2
  <2>3. moved = at
    BY <1>14, <2>2
  <2>4. QED
    BY <1>4, <1>15, <2>3 DEF old, new, at, moved, File!vars
<1>16. CASE new # old
  <2>1. \A S0 : File!Cardinality(S0) = Cardinality(S0)
    BY Zenon DEF File!Cardinality, Cardinality
  <2>2. \A q \in Nat : g[q] = File!Cardinality(S \intersect (1 .. q))
    BY <1>6, <2>1
  <2>3. S \in SUBSET (1 .. Len(old)) /\ Len(old) \in Nat
        /\ \A q \in S : q \in Nat
    BY <1>11
  <2>4. \A n \in Names : at[n] # Unset => at[n] + 1 \in S \union {Len(old) + 1}
    BY <1>12, <1>13
  <2>5. Len(new) = File!Cardinality(S \intersect (1 .. Len(old)))
    BY <1>11, <2>2, <2>3
  <2>6. \A q \in S : new[File!Cardinality(S \intersect (1 .. q))] = old[q]
    <3> SUFFICES ASSUME NEW q \in S
                 PROVE  new[File!Cardinality(S \intersect (1 .. q))] = old[q]
      OBVIOUS
    <3>1. g[q] = File!Cardinality(S \intersect (1 .. q))
      BY <2>2, <2>3
    <3>2. QED
      BY <1>11, <3>1
  <2>7. moved = [n \in Names |-> IF at[n] = Unset THEN Unset
                   ELSE File!Cardinality(S \intersect (1 .. at[n]))]
    <3>1. ASSUME NEW n \in Names
          PROVE  moved[n] = IF at[n] = Unset THEN Unset
                   ELSE File!Cardinality(S \intersect (1 .. at[n]))
      <4>1. CASE v.label[n] = Unset
        BY <1>13, <4>1
      <4>2. CASE v.label[n] # Unset
        BY <1>12, <2>2, <4>2
      <4>3. QED
        BY <4>1, <4>2
    <3>2. QED
      BY <1>14, <3>1
  <2>8. \E kept \in SUBSET (1 .. Len(old)) :
          /\ \A n \in Names : at[n] # Unset => at[n] + 1 \in kept \union {Len(old) + 1}
          /\ Len(new) = File!Cardinality(kept \intersect (1 .. Len(old)))
          /\ \A q \in kept : new[File!Cardinality(kept \intersect (1 .. q))] = old[q]
          /\ moved = [n \in Names |-> IF at[n] = Unset THEN Unset
                        ELSE File!Cardinality(kept \intersect (1 .. at[n]))]
    BY <2>3, <2>4, <2>5, <2>6, <2>7, Zenon
  <2>9. File!Collect
    BY <1>4, <2>8, Zenon DEF File!Collect, old, new, at, moved
  <2>10. QED
    BY <1>4, <1>16, <2>9 DEF File!Next, old, new
<1>17. QED
  BY <1>15, <1>16

-----------------------------------------------------------------------------
(* The refinement of LabelledFile *)

(* Besides Placing, the items have a place where a dump would put them, and  *)
(* the labels point to something there.                                      *)
Settling == Placing /\ \E v, end : Settled(t, v, end)

(* While the file is parsed it is where they are.                            *)
LEMMA ParsingSettling ==
  Placing /\ phase = "parsing" => Settling
<1> SUFFICES ASSUME Placing, phase = "parsing" PROVE Settling
  OBVIOUS
<1>1. Good(t) /\ Layout(t, Root, Root)
  BY DEF Placing, Inv, Parsing
<1>2. \E end : Settled(t, t, end)
  BY <1>1, ParsingSettled
<1>3. QED
  BY <1>2 DEF Settling

(* Context::Fixup puts them there.                                           *)
LEMMA FixupSettled ==
  ASSUME Whole(t, {}), NEW depth, Layered(t, depth), Whole(t', {}), Fixup,
         NEW v, NEW end, Settled(t, v, end)
  PROVE  \E e : Settled(t', t', e)
<1> DEFINE u == t'
           at == FixedPositions(t)
           none == <<>>
<1>1. Layered(u, depth) /\ \E e : Ordered(u, e)
  BY FixupOrdered
<1>2. PICK e : Ordered(u, e)
  BY <1>1
<1>3. u = [t EXCEPT !.pmap = none, !.position = at] /\ Fields \subseteq DOMAIN t
  BY DEF Fixup, Whole, Shaped
<1> HIDE DEF at, none
<1>4. /\ u.kids = t.kids /\ u.kind = t.kind /\ u.own = t.own
      /\ u.label = t.label
  BY <1>3 DEF Fields
<1>5. Whole(u, {})
  OBVIOUS
<1> HIDE DEF u
<1>6. SameTree(t, u)
  BY <1>4, <1>5 DEF SameTree
<1>7. Settled(u, u, e)
  BY <1>1, <1>2, <1>6, FixedSettled
<1>8. QED
  BY <1>7 DEF u

(* Every operation keeps the invariant.                                      *)
LEMMA NextSettling ==
  ASSUME Odd = {}
  PROVE  Settling /\ [Next]_vars => Settling'
<1> SUFFICES ASSUME Settling, [Next]_vars PROVE Settling'
  OBVIOUS
<1>1. Placing /\ Placing'
  BY NextPlacing DEF Settling
<1>2. Whole(t, {}) /\ Whole(t', {})
  BY <1>1 DEF Placing, Inv
<1>3. PICK depth : Layered(t, depth)
  BY <1>1 DEF Placing
<1>4. PICK v, end : Settled(t, v, end)
  BY DEF Settling
<1>5. CASE phase' = "parsing"
  <2>1. (Placing /\ phase = "parsing" => Settling)'
    BY ParsingSettling, PTL
  <2>2. QED
    BY <1>1, <1>5, <2>1
<1>6. ASSUME NEW w, NEW e, Settled(t', w, e) PROVE Settling'
  <2>1. \E x, f : Settled(t', x, f)
    BY <1>6
  <2>2. QED
    BY <1>1, <2>1 DEF Settling
<1>7. CASE ReadTxt
  BY <1>2, <1>3, <1>4, <1>6, <1>7, ReadTxtSettled
<1>8. CASE Gc
  BY <1>2, <1>3, <1>4, <1>6, <1>8, GcSettled
<1>9. CASE Fixup
  BY <1>2, <1>3, <1>4, <1>6, <1>9, FixupSettled
<1>10. CASE UNCHANGED vars
  BY <1>4, <1>6, <1>10 DEF vars
<1>11. ReadTxt \/ Gc \/ Fixup \/ UNCHANGED vars \/ phase' = "parsing"
  BY DEF Next, CreateLabel, CreateLeaf, CreateData, CreateExpansions, ReplaceEof
<1>12. QED
  BY <1>5, <1>7, <1>8, <1>9, <1>10, <1>11

(* In every state of every run the tree can be settled.                      *)
LEMMA SettlingInvariant ==
  Spec => [](Odd = {} => Settling)
<1>1. Init => (Odd = {} => Settling)
  BY InitPlacing, ParsingSettling DEF Init
<1>2. (Odd = {} => Settling) /\ [Next]_vars => (Odd = {} => Settling)'
  BY NextSettling
<1>3. QED
  BY <1>1, <1>2, PTL DEF Spec

(* What a step does to the units a dump writes and to what the labels point  *)
(* to is what LabelledFile allows.                                           *)
LEMMA StepKeepsFile ==
  ASSUME Odd = {}, Settling, Settling', [Next]_vars
  PROVE  [File!Next]_(File!vars)
<1>1. Placing /\ Placing'
  BY DEF Settling
<1>2. Whole(t, {}) /\ Whole(t', {})
  BY <1>1 DEF Placing, Inv
<1>3. PICK depth : Layered(t, depth)
  BY <1>1 DEF Placing
<1>4. PICK v, end : Settled(t, v, end)
  BY DEF Settling
<1>5. CASE Next /\ phase = "parsing" /\ phase' = "parsing"
  BY <1>1, <1>5, ParsingStep, Zenon
<1>6. CASE ReadTxt
  BY <1>2, <1>3, <1>4, <1>6, ReadTxtStep, Zenon
<1>7. CASE Gc
  BY <1>2, <1>3, <1>4, <1>7, GcStep, Zenon
<1>8. CASE Fixup
  BY <1>1, <1>8, FixupStep, Zenon
<1>9. CASE UNCHANGED vars
  <2>1. t' = t
    BY <1>9 DEF vars
  <2>2. Dumped(t)' = Dumped(t)
    BY <2>1
  <2>3. Targets = Pointed(v)
    BY <1>3, <1>4, SettledTargets DEF Aimed
  <2>4. Targets' = Pointed(v)
    <3>1. Aimed'
      BY SettledTargets, PTL
    <3>2. (\E d : Layered(t', d)) =>
            \A w, e : Settled(t', w, e) => Targets' = Pointed(w)
      BY <3>1 DEF Aimed
    <3>3. Layered(t', depth) /\ Settled(t', v, end)
      BY <1>3, <1>4, <2>1
    <3>4. QED
      BY <3>2, <3>3
  <2>5. QED
    BY <2>2, <2>3, <2>4, Zenon DEF File!vars
<1>10. \/ ReadTxt \/ Gc \/ Fixup \/ UNCHANGED vars
       \/ Next /\ phase = "parsing" /\ phase' = "parsing"
  BY DEF Next, CreateLabel, CreateLeaf, CreateData, CreateExpansions, ReplaceEof
<1>11. QED
  BY <1>5, <1>6, <1>7, <1>8, <1>9, <1>10

(* ImplementsLabelledFile: taking the file apart moves no byte and no label; *)
(* another text of a string moves the labels behind it and no other; the     *)
(* collection takes no byte a label points to; Fixup does none of that.      *)
THEOREM Implements ==
  ASSUME Odd = {}
  PROVE  Spec => ImplementsLabelledFile
<1>1. Init /\ (Odd = {} => Settling) => File!Init
  BY FileInit DEF Settling
<1>2. /\ Odd = {} => Settling
      /\ (Odd = {} => Settling)'
      /\ [Next]_vars
      => [File!Next]_(File!vars)
  BY StepKeepsFile, Zenon
<1>3. QED
  BY <1>1, <1>2, SettlingInvariant, PTL DEF Spec, ImplementsLabelledFile, File!Spec
=============================================================================
