--------------------------- MODULE ItemTree_proofs ---------------------------
(***************************************************************************)
(* Proofs about ItemTree, for every size of file, number of items and set  *)
(* of labels: whatever is parsed, edited and collected in whatever order,  *)
(* an item that is alive has one owner and one that is not is not referred *)
(* to, and an offset into bytes not parsed yet finds their raw item.       *)
(*                                                                         *)
(* The operations of ItemTree are nested definitions over a record of six  *)
(* functions.  For each there is a predicate that says what it leaves      *)
(* alone and what it makes, point by point (Replacing, Slicing, Cutting,   *)
(* Moving, ...), a lemma that the operation satisfies it, and lemmas that  *)
(* what satisfies it keeps the invariant.  The last of these sections are  *)
(* about where the items of such a tree are, for ItemTreeLayout_proofs.    *)
(***************************************************************************)
EXTENDS ItemTree, TLAPS, FiniteSetTheorems, WellFoundedInduction

-----------------------------------------------------------------------------
(* Numbers and sequences *)

(* A set of numbers has a least one.                                         *)
LEMMA Least ==
  ASSUME NEW S, S \subseteq Nat, S # {}
  PROVE  /\ Min(S) \in S
         /\ \A k \in S : Min(S) <= k
<1> DEFINE R == OpToRel(<, Nat)
<1>1. R = {p \in Nat \X Nat : p[1] < p[2]}
  BY DEF OpToRel
<1>2. IsWellFoundedOn(R, Nat)
  BY NatLessThanWellFounded
<1> HIDE DEF R
<1>3. PICK m \in S : \A k \in S : <<k, m>> \notin R
  BY <1>2, WFMin
<1>4. \A k \in S : ~(k < m)
  BY <1>1, <1>3
<1>5. \A k \in S : m <= k
  BY <1>4
<1>6. QED
  BY <1>5 DEF Min

(* A set of numbers none of which exceeds a bound has a greatest one.        *)
LEMMA Greatest ==
  ASSUME NEW S, S \subseteq Nat, S # {}, NEW b \in Nat, \A k \in S : k <= b
  PROVE  /\ Max(S) \in S
         /\ \A k \in S : k <= Max(S)
<1> DEFINE T == {b - k : k \in S}
<1>1. T \subseteq Nat /\ T # {}
  <2>1. \A k \in S : b - k \in Nat
    OBVIOUS
  <2>2. QED
    BY <2>1
<1> HIDE DEF T
<1>2. Min(T) \in T /\ \A k \in T : Min(T) <= k
  BY <1>1, Least
<1>3. PICK m \in S : Min(T) = b - m
  BY <1>2 DEF T
<1>4. \A k \in S : k <= m
  <2> SUFFICES ASSUME NEW k \in S PROVE k <= m
    OBVIOUS
  <2>1. b - k \in T
    BY DEF T
  <2>2. b - m <= b - k
    BY <1>2, <1>3, <2>1
  <2>3. QED
    BY <2>2
<1>5. QED
  BY <1>4 DEF Max

(* Sequences are equal if their elements are.                                *)
LEMMA SameSeq ==
  ASSUME NEW S, NEW a \in Seq(S), NEW b \in Seq(S), Len(a) = Len(b),
         \A j \in 1 .. Len(a) : a[j] = b[j]
  PROVE  a = b
OBVIOUS

(* The sequence with `items` where its k-th element was. *)
Spliced(seq, k, items) ==
  SubSeq(seq, 1, k - 1) \o items \o SubSeq(seq, k + 1, Len(seq))

(* What is where in it.                                                      *)
LEMMA SplicedSeq ==
  ASSUME NEW S, NEW seq \in Seq(S), NEW items \in Seq(S),
         NEW k \in 1 .. Len(seq)
  PROVE  /\ Spliced(seq, k, items) \in Seq(S)
         /\ Len(Spliced(seq, k, items)) = Len(seq) - 1 + Len(items)
         /\ \A j \in 1 .. Len(Spliced(seq, k, items)) :
              Spliced(seq, k, items)[j] =
                IF j < k THEN seq[j]
                ELSE IF j < k + Len(items) THEN items[(j - k) + 1]
                ELSE seq[(j - Len(items)) + 1]
<1> DEFINE n == Len(seq)
           m == Len(items)
           front == SubSeq(seq, 1, k - 1)
           back == SubSeq(seq, k + 1, n)
           start == front \o items
           all == start \o back
<1>1. n \in Nat /\ m \in Nat /\ k \in Nat /\ 1 <= k /\ k <= n
  OBVIOUS
<1>2. front \in Seq(S) /\ Len(front) = k - 1
  OBVIOUS
<1>3. \A j \in 1 .. k - 1 : front[j] = seq[j]
  OBVIOUS
<1>4. back \in Seq(S) /\ Len(back) = n - k
  OBVIOUS
<1>5. \A j \in 1 .. n - k : back[j] = seq[j + k]
  OBVIOUS
<1> HIDE DEF front, back
<1>6. start \in Seq(S) /\ Len(start) = (k - 1) + m
  BY <1>1, <1>2
<1>7. ASSUME NEW j \in 1 .. (k - 1) + m
      PROVE  start[j] = IF j < k THEN seq[j] ELSE items[(j - k) + 1]
  <2>1. CASE j < k
    <3>1. j \in 1 .. k - 1
      BY <1>1, <2>1
    <3>2. start[j] = front[j]
      BY <1>2, <3>1
    <3>3. QED
      BY <1>3, <2>1, <3>1, <3>2
  <2>2. CASE ~(j < k)
    <3>1. j \in Len(front) + 1 .. Len(front) + Len(items)
      BY <1>1, <1>2, <2>2
    <3>2. start[j] = items[j - Len(front)]
      BY <1>2, <3>1
    <3>3. j - Len(front) = (j - k) + 1
      BY <1>1, <1>2
    <3>4. QED
      BY <2>2, <3>2, <3>3
  <2>3. QED
    BY <2>1, <2>2
<1> HIDE DEF start
<1>8. /\ all \in Seq(S) /\ Len(all) = Len(start) + Len(back)
      /\ \A j \in 1 .. Len(start) : all[j] = start[j]
      /\ \A j \in Len(start) + 1 .. Len(start) + Len(back) : all[j] = back[j - Len(start)]
  <2> HIDE DEF n, m
  <2>1. start \in Seq(S) /\ back \in Seq(S)
    BY <1>4, <1>6
  <2>2. all \in Seq(S) /\ Len(all) = Len(start) + Len(back)
    BY <2>1
  <2>3. ASSUME NEW j \in 1 .. Len(start)
        PROVE  all[j] = start[j]
    BY <2>1
  <2>4. ASSUME NEW j \in Len(start) + 1 .. Len(start) + Len(back)
        PROVE  all[j] = back[j - Len(start)]
    BY <2>1
  <2>5. QED
    BY <2>2, <2>3, <2>4
<1> HIDE DEF all
<1>9. Len(all) = n - 1 + m
  <2> HIDE DEF all, n, m
  <2>1. QED
    BY <1>1, <1>4, <1>6, <1>8
<1>10. ASSUME NEW j \in 1 .. n - 1 + m
       PROVE  all[j] = IF j < k + m THEN start[j] ELSE seq[(j - m) + 1]
  <2>1. CASE j < k + m
    <3>1. j \in 1 .. Len(start)
      BY <1>1, <1>6, <2>1
    <3>2. all[j] = start[j]
      BY <1>8, <3>1
    <3>3. QED
      BY <2>1, <3>2
  <2>2. CASE ~(j < k + m)
    <3>1. /\ j \in Len(start) + 1 .. Len(start) + Len(back)
          /\ j - Len(start) \in 1 .. n - k
          /\ (j - Len(start)) + k = (j - m) + 1
      BY <1>1, <1>4, <1>6, <2>2
    <3>2. all[j] = back[j - Len(start)]
      BY <1>8, <3>1
    <3>3. QED
      BY <1>5, <2>2, <3>1, <3>2
  <2>3. QED
    BY <2>1, <2>2
<1>11. Spliced(seq, k, items) = all
  BY DEF Spliced, start, front, back, all
<1> HIDE DEF all
<1>12. ASSUME NEW j \in 1 .. n - 1 + m
       PROVE  all[j] = IF j < k THEN seq[j]
                       ELSE IF j < k + m THEN items[(j - k) + 1]
                       ELSE seq[(j - m) + 1]
  <2> HIDE DEF n, m
  <2>1. CASE j < k + m
    <3>1. j \in 1 .. (k - 1) + m
      BY <1>1, <2>1
    <3>2. QED
      BY <1>7, <1>10, <2>1, <3>1
  <2>2. CASE ~(j < k + m)
    <3>1. ~(j < k)
      BY <1>1, <2>2
    <3>2. QED
      BY <1>10, <2>2, <3>1
  <2>3. QED
    BY <2>1, <2>2
<1>13. QED
  BY <1>8, <1>9, <1>11, <1>12

-----------------------------------------------------------------------------
(* Lists of children *)

Lists == {Root} \union Items

Listed(kids, i) == \E p \in Lists : \E k \in 1 .. Len(kids[p]) : kids[p][k] = i

Once(kids) ==
  \A p, q \in Lists : \A k \in 1 .. Len(kids[p]), l \in 1 .. Len(kids[q]) :
    kids[p][k] = kids[q][l] => p = q /\ k = l

Distinct(items) ==
  \A k, l \in 1 .. Len(items) : items[k] = items[l] => k = l

(* kids2 is kids when `items` took the place of the k-th child of p.         *)
Exchanging(kids, kids2, p, k, items) ==
  /\ kids2 \in [Lists -> Seq(Items)]
  /\ items \in Seq(Items) /\ Distinct(items)
  /\ \A m \in 1 .. Len(items) :
       items[m] = kids[p][k] \/ ~ Listed(kids, items[m])
  /\ \A j \in Lists :
       kids2[j] = IF j = p THEN Spliced(kids[p], k, items) ELSE kids[j]

(* The lists have what they had, once, but for `old`, and the new items. *)
Exchanged(kids, kids2, old, items) ==
  /\ Once(kids2)
  /\ \A j \in Items :
       Listed(kids2, j) <=> \/ Listed(kids, j) /\ j # old
                            \/ \E m \in 1 .. Len(items) : items[m] = j

(* An item that is replaced in its list by others that are in none: the      *)
(* lists have what they had, once, and the new ones.                         *)
LEMMA Exchange ==
  ASSUME NEW kids, kids \in [Lists -> Seq(Items)], Once(kids),
         NEW p \in Lists, NEW k \in 1 .. Len(kids[p]),
         NEW items, NEW kids2, Exchanging(kids, kids2, p, k, items)
  PROVE  Exchanged(kids, kids2, kids[p][k], items)
<1> DEFINE new == Spliced(kids[p], k, items)
           n == Len(items)
<1>0. /\ items \in Seq(Items) /\ Distinct(items)
      /\ \A m \in 1 .. Len(items) :
           items[m] = kids[p][k] \/ ~ Listed(kids, items[m])
      /\ kids2 \in [Lists -> Seq(Items)]
      /\ \A j \in Lists :
           kids2[j] = IF j = p THEN Spliced(kids[p], k, items) ELSE kids[j]
  BY DEF Exchanging
<1>1. /\ kids[p] \in Seq(Items) /\ Len(kids[p]) \in Nat /\ n \in Nat
      /\ k \in Nat /\ 1 <= k /\ k <= Len(kids[p])
  BY <1>0
<1>2. /\ new \in Seq(Items) /\ Len(new) = Len(kids[p]) - 1 + n
      /\ \A j \in 1 .. Len(new) :
           new[j] = IF j < k THEN kids[p][j]
                    ELSE IF j < k + n THEN items[(j - k) + 1]
                    ELSE kids[p][(j - n) + 1]
  <2>1. kids[p] \in Seq(Items) /\ k \in 1 .. Len(kids[p])
    OBVIOUS
  <2>2. items \in Seq(Items)
    BY <1>0
  <2>3. QED
    BY <2>1, <2>2, SplicedSeq, Zenon
<1> HIDE DEF new, n
<1>3. /\ kids2 \in [Lists -> Seq(Items)] /\ kids2[p] = new
      /\ \A q \in Lists : q # p => kids2[q] = kids[q]
  BY <1>0, <1>2 DEF new, n
<1> DEFINE Added(q, l) ==
             /\ q = p /\ l - k + 1 \in 1 .. n
             /\ kids2[q][l] = items[(l - k) + 1]
           Moved2(q, l, l0) ==
             /\ l0 \in 1 .. Len(kids[q]) /\ kids2[q][l] = kids[q][l0]
             /\ ~(q = p /\ l0 = k)
             /\ l = IF q = p /\ l0 > k THEN l0 + n - 1 ELSE l0
<1>4. ASSUME NEW q \in Lists, NEW l \in 1 .. Len(kids2[q])
      PROVE  Added(q, l) \/ \E l0 \in 1 .. Len(kids[q]) : Moved2(q, l, l0)
  <2>1. CASE q # p
    <3>1. Moved2(q, l, l)
      BY <1>3, <2>1
    <3>2. QED
      BY <3>1
  <2>2. CASE q = p
    <3>1. l \in 1 .. Len(new)
      BY <1>3, <2>2
    <3>2. CASE l < k
      <4>1. l \in 1 .. Len(kids[p]) /\ new[l] = kids[p][l]
        BY <1>1, <1>2, <3>1, <3>2
      <4>2. Moved2(q, l, l)
        BY <1>1, <1>3, <2>2, <3>2, <4>1
      <4>3. QED
        BY <2>2, <4>1, <4>2
    <3>3. CASE ~(l < k) /\ l < k + n
      <4>1. new[l] = items[(l - k) + 1] /\ (l - k) + 1 \in 1 .. n
        BY <1>1, <1>2, <3>1, <3>3
      <4>2. QED
        BY <1>3, <2>2, <4>1
    <3>4. CASE ~(l < k + n)
      <4>a. l \in Nat /\ l <= Len(kids[p]) - 1 + n /\ k + n <= l
        BY <1>1, <1>2, <3>1, <3>4
      <4>b. /\ (l - n) + 1 \in 1 .. Len(kids[p])
            /\ (l - n) + 1 > k
            /\ l = (l - n) + 1 + n - 1
        BY <1>1, <4>a
      <4>c. new[l] = kids[p][(l - n) + 1]
        BY <1>1, <1>2, <3>1, <4>a
      <4>1. /\ new[l] = kids[p][(l - n) + 1]
            /\ (l - n) + 1 \in 1 .. Len(kids[p])
            /\ (l - n) + 1 > k
            /\ l = (l - n) + 1 + n - 1
        BY <4>b, <4>c
      <4>2. Moved2(q, l, (l - n) + 1)
        BY <1>1, <1>3, <2>2, <4>1
      <4>3. QED
        BY <2>2, <4>1, <4>2
    <3>5. QED
      BY <1>1, <3>1, <3>2, <3>3, <3>4
  <2>3. QED
    BY <2>1, <2>2
<1>5. ASSUME NEW q1 \in Lists, NEW q2 \in Lists,
             NEW l1 \in 1 .. Len(kids2[q1]), NEW l2 \in 1 .. Len(kids2[q2]),
             kids2[q1][l1] = kids2[q2][l2]
      PROVE  q1 = q2 /\ l1 = l2
  <2>1. CASE Added(q1, l1) /\ Added(q2, l2)
    <3>1. (l1 - k) + 1 = (l2 - k) + 1
      BY <1>0, <1>5, <2>1 DEF Distinct, n
    <3>2. QED
      BY <1>1, <2>1, <3>1
  <2>2. ASSUME NEW q3 \in Lists, NEW q4 \in Lists, NEW l3, NEW l4, NEW l0,
               Added(q3, l3), Moved2(q4, l4, l0), kids2[q3][l3] = kids2[q4][l4]
        PROVE  FALSE
    <3>1. kids[q4][l0] = items[(l3 - k) + 1] /\ (l3 - k) + 1 \in 1 .. Len(items)
      BY <2>2 DEF n
    <3>2. Listed(kids, items[(l3 - k) + 1])
      BY <2>2, <3>1 DEF Listed
    <3>3. kids[q4][l0] = kids[p][k]
      BY <1>0, <3>1, <3>2
    <3>4. q4 = p /\ l0 = k
      BY <2>2, <3>3 DEF Once
    <3>5. QED
      BY <2>2, <3>4
  <2>3. ASSUME NEW a \in 1 .. Len(kids[q1]), NEW b \in 1 .. Len(kids[q2]),
               Moved2(q1, l1, a), Moved2(q2, l2, b)
        PROVE  q1 = q2 /\ l1 = l2
    <3>1. kids[q1][a] = kids[q2][b]
      BY <1>5, <2>3
    <3>2. q1 = q2 /\ a = b
      BY <3>1 DEF Once
    <3>3. QED
      BY <2>3, <3>2
  <2> HIDE DEF Added, Moved2
  <2>4. QED
    BY <1>4, <1>5, <2>1, <2>2, <2>3
<1>6. Once(kids2)
  BY <1>5 DEF Once
<1>7. ASSUME NEW j \in Items, Listed(kids2, j)
      PROVE  \/ Listed(kids, j) /\ j # kids[p][k]
             \/ \E m \in 1 .. Len(items) : items[m] = j
  <2>0. PICK q \in Lists : \E l \in 1 .. Len(kids2[q]) : kids2[q][l] = j
    BY <1>7 DEF Listed
  <2>1. PICK l \in 1 .. Len(kids2[q]) : kids2[q][l] = j
    BY <2>0
  <2>2. CASE Added(q, l)
    BY <2>1, <2>2 DEF n
  <2>3. ASSUME NEW l0 \in 1 .. Len(kids[q]), Moved2(q, l, l0)
        PROVE  Listed(kids, j) /\ j # kids[p][k]
    BY <2>1, <2>3 DEF Listed, Once
  <2> HIDE DEF Added, Moved2
  <2>4. QED
    BY <1>4, <2>2, <2>3
<1>8. ASSUME NEW j \in Items, Listed(kids, j), j # kids[p][k]
      PROVE  Listed(kids2, j)
  <2>0. PICK q \in Lists : \E l \in 1 .. Len(kids[q]) : kids[q][l] = j
    BY <1>8 DEF Listed
  <2>1. PICK l \in 1 .. Len(kids[q]) : kids[q][l] = j
    BY <2>0
  <2>2. CASE q # p
    <3>1. kids2[q] = kids[q]
      BY <1>3, <2>2
    <3>2. QED
      BY <2>1, <3>1 DEF Listed
  <2>3. CASE q = p /\ l < k
    <3>1. l \in 1 .. Len(new) /\ new[l] = kids[p][l]
      BY <1>1, <1>2, <2>3
    <3>2. QED
      BY <1>3, <2>1, <2>3, <3>1 DEF Listed
  <2>4. CASE q = p /\ l > k
    <3>1. /\ (l + n) - 1 \in 1 .. Len(new)
          /\ ~((l + n) - 1 < k) /\ ~((l + n) - 1 < k + n)
          /\ ((l + n) - 1 - n) + 1 = l
      BY <1>1, <1>2, <2>4
    <3>2. new[(l + n) - 1] = kids[p][l]
      BY <1>2, <3>1
    <3>3. QED
      BY <1>3, <2>1, <2>4, <3>1, <3>2 DEF Listed
  <2>5. QED
    BY <1>1, <1>8, <2>1, <2>2, <2>3, <2>4
<1>9. ASSUME NEW m \in 1 .. Len(items)
      PROVE  Listed(kids2, items[m])
  <2>1. /\ (m + k) - 1 \in 1 .. Len(new)
        /\ ~((m + k) - 1 < k) /\ (m + k) - 1 < k + n
        /\ ((m + k) - 1 - k) + 1 = m
    BY <1>1, <1>2 DEF n
  <2>2. new[(m + k) - 1] = items[m]
    BY <1>2, <2>1
  <2>3. QED
    BY <1>3, <2>1, <2>2 DEF Listed
<1>10. QED
  BY <1>0, <1>6, <1>7, <1>8, <1>9 DEF Exchanged

(* kids2 is kids when c, which is in no list, was put at the end of q. *)
Attaching(kids, kids2, q, c) ==
  /\ kids \in [Lists -> Seq(Items)] /\ Once(kids)
  /\ q \in Lists /\ c \in Items /\ ~ Listed(kids, c)
  /\ kids2 = [kids EXCEPT ![q] = Append(kids[q], c)]

(* The lists have what they had, once, and c.                                *)
LEMMA Attached ==
  ASSUME NEW kids, NEW kids2, NEW q, NEW c, Attaching(kids, kids2, q, c)
  PROVE  /\ kids2 \in [Lists -> Seq(Items)]
         /\ Once(kids2)
         /\ \A j \in Items : Listed(kids2, j) <=> Listed(kids, j) \/ j = c
<1>0. /\ kids \in [Lists -> Seq(Items)] /\ Once(kids)
      /\ q \in Lists /\ c \in Items /\ ~ Listed(kids, c)
      /\ kids2 = [kids EXCEPT ![q] = Append(kids[q], c)]
  BY DEF Attaching
<1> DEFINE n == Len(kids[q])
<1>1. kids[q] \in Seq(Items) /\ n \in Nat
  BY <1>0
<1>2. /\ kids2 \in [Lists -> Seq(Items)]
      /\ \A p \in Lists : p # q => kids2[p] = kids[p]
      /\ Len(kids2[q]) = n + 1 /\ kids2[q][n + 1] = c
      /\ \A k \in 1 .. n : kids2[q][k] = kids[q][k]
  BY <1>0, <1>1
<1> HIDE DEF n
<1>3. ASSUME NEW p \in Lists, NEW k \in 1 .. Len(kids2[p])
      PROVE  \/ p = q /\ k = n + 1 /\ kids2[p][k] = c
             \/ k \in 1 .. Len(kids[p]) /\ kids2[p][k] = kids[p][k]
  BY <1>0, <1>1, <1>2 DEF n
<1>4. Once(kids2)
  <2> SUFFICES ASSUME NEW p1 \in Lists, NEW p2 \in Lists,
                      NEW k1 \in 1 .. Len(kids2[p1]),
                      NEW k2 \in 1 .. Len(kids2[p2]),
                      kids2[p1][k1] = kids2[p2][k2]
               PROVE  p1 = p2 /\ k1 = k2
    BY DEF Once
  <2>1. ASSUME NEW p \in Lists, NEW k \in 1 .. Len(kids[p])
        PROVE  kids[p][k] # c
    BY <1>0 DEF Listed
  <2>2. QED
    BY <1>0, <1>3, <2>1 DEF Once
<1>5. ASSUME NEW j \in Items
      PROVE  Listed(kids2, j) <=> Listed(kids, j) \/ j = c
  <2>1. ASSUME Listed(kids2, j) PROVE Listed(kids, j) \/ j = c
    BY <1>3, <2>1 DEF Listed
  <2>2. ASSUME NEW p \in Lists, NEW k \in 1 .. Len(kids[p])
        PROVE  k \in 1 .. Len(kids2[p]) /\ kids2[p][k] = kids[p][k]
    BY <1>0, <1>1, <1>2 DEF n
  <2>3. ASSUME Listed(kids, j) PROVE Listed(kids2, j)
    BY <2>2, <2>3 DEF Listed
  <2>4. n + 1 \in 1 .. Len(kids2[q])
    BY <1>1, <1>2
  <2>5. Listed(kids2, c)
    BY <1>0, <1>2, <2>4 DEF Listed
  <2>6. QED
    BY <2>1, <2>3, <2>5
<1>6. QED
  BY <1>2, <1>4, <1>5

(* The ways the code changes a list are all such a replacement.              *)
LEMMA SplicedForms ==
  ASSUME NEW seq \in Seq(Items), NEW k \in 1 .. Len(seq), Distinct(seq),
         NEW new \in Items, NEW items \in Seq(Items)
  PROVE  /\ IndexIn(seq, seq[k]) = k
         /\ ReplaceAll(seq, seq[k], new) = Spliced(seq, k, <<new>>)
         /\ RemoveAt(seq, k) = Spliced(seq, k, <<>>)
         /\ ReplaceSubSeqAt(k, items, <<seq[k]>>, seq) = Spliced(seq, k, items)
<1>1. IndexIn(seq, seq[k]) = k
  <2>1. k \in DOMAIN seq /\ \A j \in DOMAIN seq : seq[j] = seq[k] => j = k
    BY DEF Distinct
  <2>2. QED
    BY <2>1, Zenon DEF IndexIn
<1>2. ReplaceAll(seq, seq[k], new) = Spliced(seq, k, <<new>>)
  <2> DEFINE a == ReplaceAll(seq, seq[k], new)
             b == Spliced(seq, k, <<new>>)
  <2>0. Len(seq) \in Nat /\ k \in Nat /\ 1 <= k /\ k <= Len(seq)
    OBVIOUS
  <2>1. /\ a \in Seq(Items) /\ Len(a) = Len(seq)
        /\ \A j \in 1 .. Len(seq) : a[j] = IF j = k THEN new ELSE seq[j]
    BY DEF ReplaceAll, Distinct
  <2> DEFINE one == <<new>>
  <2>2. one \in Seq(Items) /\ Len(one) = 1 /\ one[1] = new
    OBVIOUS
  <2> HIDE DEF one
  <2>3. /\ b \in Seq(Items) /\ Len(b) = Len(seq) - 1 + Len(one)
        /\ \A j \in 1 .. Len(b) :
             b[j] = IF j < k THEN seq[j]
                    ELSE IF j < k + Len(one) THEN one[(j - k) + 1]
                    ELSE seq[(j - Len(one)) + 1]
    <3> DEFINE c == Spliced(seq, k, one)
    <3>1. /\ c \in Seq(Items) /\ Len(c) = Len(seq) - 1 + Len(one)
          /\ \A j \in 1 .. Len(c) :
               c[j] = IF j < k THEN seq[j]
                      ELSE IF j < k + Len(one) THEN one[(j - k) + 1]
                      ELSE seq[(j - Len(one)) + 1]
      BY <2>2, SplicedSeq, Zenon
    <3>2. b = c
      BY DEF one
    <3> HIDE DEF b, c
    <3>3. QED
      BY <3>1, <3>2
  <2> HIDE DEF a, b
  <2>4. Len(b) = Len(seq)
    BY <2>0, <2>2, <2>3
  <2>5. ASSUME NEW j \in 1 .. Len(seq) PROVE b[j] = a[j]
    <3>1. CASE j < k
      BY <2>0, <2>1, <2>3, <2>4, <3>1
    <3>2. CASE j = k
      <4>1. (j - k) + 1 = 1 /\ ~(j < k) /\ j < k + 1
        BY <2>0, <3>2
      <4>2. QED
        BY <2>1, <2>2, <2>3, <2>4, <3>2, <4>1
    <3>3. CASE j > k
      <4>1. (j - 1) + 1 = j /\ ~(j < k) /\ ~(j < k + 1) /\ j # k
        BY <2>0, <3>3
      <4>2. QED
        BY <2>1, <2>2, <2>3, <2>4, <4>1
    <3>4. QED
      BY <2>0, <3>1, <3>2, <3>3
  <2>6. a = b
    BY <2>1, <2>3, <2>4, <2>5, SameSeq
  <2>7. QED
    BY <2>6 DEF a, b
<1>3. RemoveAt(seq, k) = Spliced(seq, k, <<>>)
  <2> DEFINE front == SubSeq(seq, 1, k - 1)
  <2>1. front \in Seq(Items)
    OBVIOUS
  <2>2. front \o <<>> = front
    BY <2>1
  <2>3. QED
    BY <2>2 DEF RemoveAt, Spliced
<1>4. ReplaceSubSeqAt(k, items, <<seq[k]>>, seq) = Spliced(seq, k, items)
  <2>1. Len(<<seq[k]>>) = 1
    OBVIOUS
  <2>2. QED
    BY <2>1 DEF ReplaceSubSeqAt, Spliced
<1>5. QED
  BY <1>1, <1>2, <1>3, <1>4

(* The place of an item in a list of children, and what the code reads off   *)
(* it.                                                                       *)
LEMMA Placed ==
  ASSUME NEW s, s.kids \in [Lists -> Seq(Items)], Once(s.kids),
         NEW p \in Lists, NEW k \in 1 .. Len(s.kids[p])
  PROVE  /\ s.kids[p][k] \in Items
         /\ Distinct(s.kids[p])
         /\ Parent(s, s.kids[p][k]) = p
         /\ IndexIn(s.kids[p], s.kids[p][k]) = k
<1>1. s.kids[p] \in Seq(Items) /\ s.kids[p][k] \in Items
  OBVIOUS
<1>2. Distinct(s.kids[p])
  BY DEF Once, Distinct
<1>3. Contains(s.kids[p], s.kids[p][k])
  BY DEF Contains
<1>4. ASSUME NEW q \in {Root} \union Items, Contains(s.kids[q], s.kids[p][k])
      PROVE  q = p
  BY <1>4 DEF Contains, Once, Lists
<1>5. Parent(s, s.kids[p][k]) = p
  <2>1. p \in {Root} \union Items
    BY DEF Lists
  <2>2. QED
    BY <1>3, <1>4, <2>1, Zenon DEF Parent
<1>6. IndexIn(s.kids[p], s.kids[p][k]) = k
  <2>1. k \in DOMAIN s.kids[p]
        /\ \A j \in DOMAIN s.kids[p] : s.kids[p][j] = s.kids[p][k] => j = k
    BY <1>1, <1>2 DEF Distinct
  <2>2. QED
    BY <2>1, Zenon DEF IndexIn
<1>7. QED
  BY <1>1, <1>2, <1>5, <1>6

-----------------------------------------------------------------------------
(* What is under an item *)

(* A set that has item j and the children of whatever it has. *)
Closed(s, S, j) == j \in S /\ \A x \in S : Range(s.kids[x]) \subseteq S

(* The function Under is defined by exists in every tree, however deep: the  *)
(* items that every closed set has.                                          *)
LEMMA UnderEquation ==
  ASSUME NEW s, s.kids \in [Lists -> Seq(Items)]
  PROVE  \E under : under = [j \in Items |->
           {j} \union UNION {under[c] : c \in Range(s.kids[j])}]
<1> DEFINE reach == [j \in Items |-> {c \in Items :
                       \A S \in SUBSET Items : Closed(s, S, j) => c \in S}]
<1>1. \A j \in Items : Range(s.kids[j]) \subseteq Items
  BY DEF Range, Lists
<1>2. ASSUME NEW j \in Items, NEW c \in reach[j]
      PROVE  c \in {j} \union UNION {reach[d] : d \in Range(s.kids[j])}
  <2> DEFINE S == {j} \union UNION {reach[d] : d \in Range(s.kids[j])}
  <2>1. S \in SUBSET Items
    BY <1>1
  <2>2. ASSUME NEW x \in S, NEW y \in Range(s.kids[x]) PROVE y \in S
    <3>1. y \in Items /\ x \in Items
      BY <1>1, <2>1, <2>2
    <3>2. CASE x = j
      <4>1. y \in reach[y]
        BY <3>1 DEF Closed
      <4>2. QED
        BY <2>2, <3>1, <3>2, <4>1
    <3>3. CASE x # j
      <4>1. PICK d \in Range(s.kids[j]) : x \in reach[d]
        BY <2>2, <3>3
      <4>2. d \in Items
        BY <1>1
      <4>3. y \in reach[d]
        BY <2>2, <3>1, <4>1, <4>2 DEF Closed
      <4>4. QED
        BY <4>1, <4>3
    <3>4. QED
      BY <3>2, <3>3
  <2>3. Closed(s, S, j)
    <3>1. \A x \in S : Range(s.kids[x]) \subseteq S
      BY <2>2
    <3> HIDE DEF S
    <3>2. j \in S
      BY DEF S
    <3>3. QED
      BY <3>1, <3>2 DEF Closed
  <2>4. c \in S
    <3> HIDE DEF S
    <3>1. QED
      BY <1>2, <2>1, <2>3
  <2>5. QED
    BY <2>4
<1>3. ASSUME NEW j \in Items,
             NEW c \in {j} \union UNION {reach[d] : d \in Range(s.kids[j])}
      PROVE  c \in reach[j]
  <2>1. CASE c = j
    BY <2>1 DEF Closed
  <2>2. ASSUME NEW d \in Range(s.kids[j]), c \in reach[d] PROVE c \in reach[j]
    <3>1. d \in Items /\ c \in Items
      BY <1>1, <2>2
    <3>2. ASSUME NEW S \in SUBSET Items, Closed(s, S, j) PROVE c \in S
      <4>1. Closed(s, S, d)
        BY <2>2, <3>2 DEF Closed
      <4>2. QED
        BY <2>2, <3>1, <4>1
    <3>3. QED
      BY <3>1, <3>2
  <2>3. QED
    BY <1>3, <2>1, <2>2
<1>4. \A j \in Items :
        reach[j] = {j} \union UNION {reach[d] : d \in Range(s.kids[j])}
  BY <1>2, <1>3
<1>5. DOMAIN reach = Items /\ reach = [j \in Items |-> reach[j]]
  OBVIOUS
<1> HIDE DEF reach
<1>6. reach = [j \in Items |->
                 {j} \union UNION {reach[d] : d \in Range(s.kids[j])}]
  BY <1>4, <1>5
<1>7. QED
  BY <1>6

(* Under an item whose children have none are the item and its children.     *)
LEMMA UnderOf ==
  ASSUME NEW s, s.kids \in [Lists -> Seq(Items)], NEW i \in Items,
         \A c \in Range(s.kids[i]) : s.kids[c] = <<>>
  PROVE  Under(s, i) = {i} \union Range(s.kids[i])
<1> DEFINE under == CHOOSE under : under = [j \in Items |->
                      {j} \union UNION {under[c] : c \in Range(s.kids[j])}]
<1>1. under = [j \in Items |->
                 {j} \union UNION {under[c] : c \in Range(s.kids[j])}]
  BY ZenonT(30), UnderEquation
<1>2. Under(s, i) = under[i]
  BY DEF Under
<1> HIDE DEF under
<1>3. \A j \in Items :
        under[j] = {j} \union UNION {under[c] : c \in Range(s.kids[j])}
  BY <1>1
<1>4. \A c \in Range(s.kids[i]) : c \in Items /\ under[c] = {c}
  <2> SUFFICES ASSUME NEW c \in Range(s.kids[i])
               PROVE  c \in Items /\ under[c] = {c}
    OBVIOUS
  <2>1. c \in Items
    BY DEF Range, Lists
  <2>2. Range(s.kids[c]) = {}
    BY DEF Range
  <2>3. QED
    BY <1>3, <2>1, <2>2
<1>5. UNION {under[c] : c \in Range(s.kids[i])} = Range(s.kids[i])
  BY <1>4
<1>6. QED
  BY <1>2, <1>3, <1>5

-----------------------------------------------------------------------------
(* Trees *)

Pointers == [item : Items, offset : Nat]

Fields == {"kids", "kind", "own", "position", "pmap", "label"}

(* What the fields of a tree are; the pointer map maps a position to an item *)
(* that has it.                                                              *)
Shaped(s) ==
  /\ Fields \subseteq DOMAIN s
  /\ s.kids \in [Lists -> Seq(Items)]
  /\ DOMAIN s.kind = Items
  /\ s.own \in [Items -> Seq(Nat)]
  /\ s.label \in [Names -> Pointers \union {Unset}]
  /\ DOMAIN s.position = Items
  /\ DOMAIN s.pmap \subseteq 0 .. Size
  /\ \A q \in DOMAIN s.pmap : s.pmap[q] \in Items /\ s.position[s.pmap[q]] = q

Childless == {"free", "raw", "leaf", "eof"}

(* The items that are alive are in one list of children, once, but for those *)
(* that a call has just created; labels and the pointer map have such items. *)
Owned(s, loose) ==
  /\ loose \subseteq Items
  /\ Once(s.kids)
  /\ \A i \in Items : Listed(s.kids, i) <=> s.kind[i] # "free" /\ i \notin loose
  /\ \A i \in loose : s.kind[i] # "free"
  /\ \A i \in Items : s.kind[i] \in Childless \/ i \in loose => s.kids[i] = <<>>
  /\ \A n \in Names : s.label[n] # Unset => Listed(s.kids, s.label[n].item)
  /\ \A q \in DOMAIN s.pmap : Listed(s.kids, s.pmap[q])

Whole(s, loose) == Shaped(s) /\ Owned(s, loose)

(* u is s when the item c was created, which is in no list yet. *)
Creating(s, u, c, loose, kind, own) ==
  /\ c \in Items /\ s.kind[c] = "free" /\ c \notin loose
  /\ ~ Listed(s.kids, c) /\ s.kids[c] = <<>>
  /\ DOMAIN u = DOMAIN s
  /\ u.kind = [s.kind EXCEPT ![c] = kind]
  /\ u.own = [s.own EXCEPT ![c] = own]
  /\ u.kids = s.kids /\ u.position = s.position
  /\ u.pmap = s.pmap /\ u.label = s.label
  /\ Free(u) = Free(s) \ {c}
  /\ Whole(u, loose \union {c})

(* Context::Create *)
LEMMA Created ==
  ASSUME NEW s, NEW loose, Whole(s, loose), Free(s) # {},
         NEW kind, kind # "free", NEW own, own \in Seq(Nat)
  PROVE  Creating(s, Create(s, kind, own), Fresh(s), loose, kind, own)
<1> DEFINE c == Fresh(s)
           u == Create(s, kind, own)
<1>1. c \in Items /\ s.kind[c] = "free"
  <2>1. Free(s) \subseteq Nat
    BY DEF Free, Items
  <2>2. Min(Free(s)) \in Free(s)
    BY <2>1, Least
  <2>3. QED
    BY <2>2 DEF Fresh, Free
<1>2. /\ DOMAIN u = DOMAIN s
      /\ u.kind = [s.kind EXCEPT ![c] = kind]
      /\ u.own = [s.own EXCEPT ![c] = own]
      /\ u.kids = s.kids /\ u.position = s.position
      /\ u.pmap = s.pmap /\ u.label = s.label
  BY DEF Create, Whole, Shaped, Fields
<1> HIDE DEF c, u
<1>3. c \notin loose /\ ~ Listed(s.kids, c) /\ s.kids[c] = <<>>
  BY <1>1 DEF Whole, Owned, Childless
<1>4. /\ u.kind[c] = kind
      /\ \A i \in Items : i # c => u.kind[i] = s.kind[i]
  BY <1>1, <1>2 DEF Whole, Shaped
<1>5. Shaped(u)
  BY <1>1, <1>2 DEF Whole, Shaped
<1>6. Owned(u, loose \union {c})
  BY <1>1, <1>2, <1>3, <1>4 DEF Whole, Owned
<1>7. Free(u) = Free(s) \ {c}
  BY <1>1, <1>4 DEF Free
<1>8. Creating(s, u, c, loose, kind, own)
  BY <1>1, <1>2, <1>3, <1>5, <1>6, <1>7 DEF Creating, Whole
<1>9. QED
  BY <1>8 DEF c, u

-----------------------------------------------------------------------------
(* Replacing an item *)

(* u is s when the items in `gone` were removed from the pointer map. *)
Removing(s, u, gone) ==
  /\ DOMAIN u = DOMAIN s
  /\ u.kids = s.kids /\ u.kind = s.kind /\ u.own = s.own
  /\ u.position = s.position /\ u.label = s.label
  /\ DOMAIN u.pmap = {q \in DOMAIN s.pmap :
       ~ (s.pmap[q] \in gone /\ s.position[s.pmap[q]] = q)}
  /\ \A q \in DOMAIN u.pmap : u.pmap[q] = s.pmap[q]

(* The kinds of a tree's fields that do not change when it does. *)
Typed(s) ==
  /\ Fields \subseteq DOMAIN s
  /\ s.kids \in [Lists -> Seq(Items)]
  /\ DOMAIN s.kind = Items
  /\ s.own \in [Items -> Seq(Nat)]
  /\ DOMAIN s.position = Items

(* u is s when nothing refers to the items in `gone` any more. *)
Disposing(s, u, gone) ==
  /\ DOMAIN u = DOMAIN s /\ Typed(u)
  /\ u.pmap = s.pmap /\ u.label = s.label
  /\ \A j \in Lists : u.kids[j] = IF j \in gone THEN <<>> ELSE s.kids[j]
  /\ \A j \in Items :
       /\ u.kind[j] = IF j \in gone THEN "free" ELSE s.kind[j]
       /\ u.own[j] = IF j \in gone THEN <<>> ELSE s.own[j]
       /\ u.position[j] = IF j \in gone THEN 0 ELSE s.position[j]

(* u is s when `new` took the place of i, the k-th child of p. *)
Replacing(s, u, p, k, i, new, gone) ==
  /\ DOMAIN u = DOMAIN s /\ Typed(u)
  /\ \A j \in Lists : u.kids[j] =
       IF j \in gone THEN <<>>
       ELSE IF j = p THEN Spliced(s.kids[p], k, <<new>>) ELSE s.kids[j]
  /\ \A j \in Items :
       /\ u.kind[j] = IF j \in gone THEN "free" ELSE s.kind[j]
       /\ u.own[j] = IF j \in gone THEN <<>> ELSE s.own[j]
       /\ u.position[j] = IF j \in gone THEN 0
                          ELSE IF j = new THEN s.position[i] ELSE s.position[j]
  /\ u.label = [n \in Names |->
       IF n \in LabelsOf(s, i) THEN [s.label[n] EXCEPT !.item = new]
       ELSE s.label[n]]
  /\ DOMAIN u.pmap = {q \in DOMAIN s.pmap : s.pmap[q] \notin gone \ {i}}
  /\ \A q \in DOMAIN u.pmap :
       u.pmap[q] = IF s.pmap[q] = i THEN new ELSE s.pmap[q]

(* Items that go leave the fields as they were for the others.               *)
LEMMA RemovedFields ==
  ASSUME NEW s, Fields \subseteq DOMAIN s, NEW gone
  PROVE  Removing(s, Removed(s, gone), gone)
<1> DEFINE kept == {q \in DOMAIN s.pmap :
              ~ (s.pmap[q] \in gone /\ s.position[s.pmap[q]] = q)}
           u == Removed(s, gone)
<1>1. u = [s EXCEPT !.pmap = Restrict(s.pmap, kept)]
  BY DEF Removed
<1> HIDE DEF kept, u
<1>2. u.pmap = Restrict(s.pmap, kept)
  BY <1>1 DEF Fields
<1>3. DOMAIN u.pmap = kept /\ \A q \in kept : u.pmap[q] = s.pmap[q]
  BY <1>2 DEF Restrict
<1>4. /\ DOMAIN u = DOMAIN s
      /\ u.kids = s.kids /\ u.kind = s.kind /\ u.own = s.own
      /\ u.position = s.position /\ u.label = s.label
  BY <1>1 DEF Fields
<1>5. Removing(s, u, gone)
  BY <1>3, <1>4 DEF kept, Removing
<1>6. QED
  BY <1>5 DEF u

(* The same of those that are disposed of.                                   *)
LEMMA DisposedFields ==
  ASSUME NEW s, Typed(s), NEW gone
  PROVE  Disposing(s, Disposed(s, gone), gone)
<1> DEFINE u == Disposed(s, gone)
<1>1. /\ u.kids = [j \in Lists |-> IF j \in gone THEN <<>> ELSE s.kids[j]]
      /\ u.kind = [j \in Items |-> IF j \in gone THEN "free" ELSE s.kind[j]]
      /\ u.own = [j \in Items |-> IF j \in gone THEN <<>> ELSE s.own[j]]
      /\ u.position = [j \in Items |-> IF j \in gone THEN 0 ELSE s.position[j]]
  BY DEF Disposed, Fields, Lists, Typed
<1>2. DOMAIN u = DOMAIN s /\ u.pmap = s.pmap /\ u.label = s.label
  BY DEF Disposed, Fields, Typed
<1> HIDE DEF u
<1>3. u.kids \in [Lists -> Seq(Items)]
  BY <1>1 DEF Typed
<1>4. u.own \in [Items -> Seq(Nat)]
  BY <1>1 DEF Typed
<1>5. Disposing(s, u, gone)
  BY <1>1, <1>2, <1>3, <1>4 DEF Disposing, Typed
<1>6. QED
  BY <1>5 DEF u

(* What Item::Replace_ does to the fields: the labels and the place in the   *)
(* list, in the file and in the pointer map go to `new`, what was under i is *)
(* no more.                                                                  *)
LEMMA ReplacedFields ==
  ASSUME NEW s, Shaped(s), Once(s.kids),
         NEW p \in Lists, NEW k \in 1 .. Len(s.kids[p]),
         NEW i, i = s.kids[p][k], NEW new \in Items,
         NEW gone, gone = {i} \union Range(s.kids[i]), new \notin gone,
         \A c \in Range(s.kids[i]) : s.kids[c] = <<>>
  PROVE  Replacing(s, Replaced(s, i, new), p, k, i, new, gone)
<1> DEFINE moved == [s EXCEPT
        !.label = [n \in Names |->
           IF n \in LabelsOf(s, i) THEN [@[n] EXCEPT !.item = new] ELSE @[n]],
        !.position[new] = s.position[i],
        !.pmap = [q \in DOMAIN @ |->
           IF q = s.position[i] /\ @[q] = i THEN new ELSE @[q]],
        !.kids[p] = ReplaceAll(@, i, new)]
           Drop(g) == Dropped(moved, g)
           u == Replaced(s, i, new)
           one == <<new>>
           list == Spliced(s.kids[p], k, one)
<1>1. i \in Items /\ Parent(s, i) = p /\ s.kids[p] \in Seq(Items)
  BY Placed DEF Shaped
<1>2. Under(s, i) = gone
  BY <1>1, UnderOf DEF Shaped
<1>3. u = Dropped(moved, gone)
  <2>1. Replaced(s, i, new) = Applied(Drop, Under(s, i))
    BY <1>1 DEF Replaced
  <2> HIDE DEF moved
  <2>2. Applied(Drop, gone) = Drop(gone)
    BY DEF Applied
  <2>3. QED
    BY <1>2, <2>1, <2>2
<1>4. ReplaceAll(s.kids[p], i, new) = list
  <2>1. s.kids[p] \in Seq(Items) /\ Distinct(s.kids[p])
    BY Placed DEF Shaped
  <2>2. QED
    BY <2>1, SplicedForms
<1>5. list \in Seq(Items)
  <2> HIDE DEF one
  <2>1. one \in Seq(Items)
    BY DEF one
  <2>2. QED
    BY <1>1, <2>1, SplicedSeq, Zenon
<1> HIDE DEF list
<1>6. /\ DOMAIN moved = DOMAIN s
      /\ moved.kids = [s.kids EXCEPT ![p] = list]
      /\ moved.kind = s.kind /\ moved.own = s.own
      /\ moved.position = [s.position EXCEPT ![new] = s.position[i]]
      /\ moved.label = [n \in Names |->
              IF n \in LabelsOf(s, i) THEN [s.label[n] EXCEPT !.item = new]
              ELSE s.label[n]]
      /\ moved.pmap = [q \in DOMAIN s.pmap |->
           IF q = s.position[i] /\ s.pmap[q] = i THEN new ELSE s.pmap[q]]
  BY <1>4 DEF Shaped, Fields
<1> HIDE DEF moved, u
<1>7. /\ \A j \in Lists : moved.kids[j] = IF j = p THEN list ELSE s.kids[j]
      /\ \A j \in Items : moved.position[j] =
           IF j = new THEN s.position[i] ELSE s.position[j]
  BY <1>6 DEF Shaped
<1>8. Typed(moved)
  BY <1>5, <1>6 DEF Typed, Shaped
<1> DEFINE v == Removed(moved, gone)
<1>9. Removing(moved, v, gone)
  BY <1>8, RemovedFields DEF Typed
<1>10. u = Disposed(v, gone)
  BY <1>3 DEF Dropped
<1> HIDE DEF v
<1>11. Typed(v)
  BY <1>8, <1>9 DEF Typed, Removing
<1>12. Disposing(v, u, gone)
  BY <1>10, <1>11, DisposedFields
<1>13. ASSUME NEW q \in DOMAIN s.pmap
       PROVE  /\ moved.pmap[q] = IF s.pmap[q] = i THEN new ELSE s.pmap[q]
              /\ (moved.pmap[q] \in gone /\ moved.position[moved.pmap[q]] = q)
                   <=> s.pmap[q] \in gone \ {i}
  <2>1. s.pmap[q] \in Items /\ s.position[s.pmap[q]] = q
    BY DEF Shaped
  <2>2. moved.pmap[q] = IF s.pmap[q] = i THEN new ELSE s.pmap[q]
    BY <1>6, <2>1
  <2>3. s.pmap[q] # new =>
          moved.position[s.pmap[q]] = s.position[s.pmap[q]]
    BY Zenon, <1>7, <2>1
  <2>4. QED
    BY <2>1, <2>2, <2>3
<1>14. /\ DOMAIN u.pmap = {q \in DOMAIN s.pmap : s.pmap[q] \notin gone \ {i}}
       /\ \A q \in DOMAIN u.pmap :
            u.pmap[q] = IF s.pmap[q] = i THEN new ELSE s.pmap[q]
  <2>1. DOMAIN moved.pmap = DOMAIN s.pmap
    BY <1>6
  <2>2. /\ DOMAIN u.pmap = {q \in DOMAIN moved.pmap :
             ~ (moved.pmap[q] \in gone /\ moved.position[moved.pmap[q]] = q)}
        /\ \A q \in DOMAIN u.pmap : u.pmap[q] = moved.pmap[q]
    BY <1>9, <1>12 DEF Removing, Disposing
  <2>3. \A q \in DOMAIN s.pmap :
          q \in DOMAIN u.pmap <=> s.pmap[q] \notin gone \ {i}
    BY <1>13, <2>1, <2>2
  <2>4. DOMAIN u.pmap \subseteq DOMAIN s.pmap
    BY <2>1, <2>2
  <2>5. QED
    BY <1>13, <2>2, <2>3, <2>4
<1>15. ASSUME NEW j \in Lists
       PROVE  u.kids[j] = IF j \in gone THEN <<>>
                          ELSE IF j = p THEN list ELSE s.kids[j]
  <2>1. u.kids[j] = IF j \in gone THEN <<>> ELSE moved.kids[j]
    BY <1>9, <1>12 DEF Removing, Disposing
  <2>2. QED
    BY <1>7, <2>1
<1>16. ASSUME NEW j \in Items
       PROVE  /\ u.kind[j] = IF j \in gone THEN "free" ELSE s.kind[j]
              /\ u.own[j] = IF j \in gone THEN <<>> ELSE s.own[j]
              /\ u.position[j] = IF j \in gone THEN 0
                                 ELSE IF j = new THEN s.position[i]
                                 ELSE s.position[j]
  <2>1. /\ u.kind[j] = IF j \in gone THEN "free" ELSE moved.kind[j]
        /\ u.own[j] = IF j \in gone THEN <<>> ELSE moved.own[j]
        /\ u.position[j] = IF j \in gone THEN 0 ELSE moved.position[j]
    BY <1>9, <1>12 DEF Removing, Disposing
  <2>2. QED
    BY <1>6, <1>7, <2>1
<1>17. DOMAIN u = DOMAIN s /\ Typed(u) /\ u.label = moved.label
  BY Zenon, <1>6, <1>9, <1>12 DEF Removing, Disposing
<1>18. Replacing(s, u, p, k, i, new, gone)
  BY <1>6, <1>14, <1>15, <1>16, <1>17, Zenon DEF Replacing, list, one
<1>19. QED
  BY <1>18 DEF u

-----------------------------------------------------------------------------
(* The children of an item, by their places.                                 *)
LEMMA KidsOf ==
  ASSUME NEW kids, kids \in [Lists -> Seq(Items)], NEW j \in Lists, NEW c
  PROVE  /\ c \in Range(kids[j]) <=>
              \E m \in 1 .. Len(kids[j]) : kids[j][m] = c
         /\ c \in Range(kids[j]) => c \in Items /\ Listed(kids, c)
<1>1. kids[j] \in Seq(Items)
  OBVIOUS
<1>2. DOMAIN kids[j] = 1 .. Len(kids[j])
  BY <1>1
<1>3. c \in Range(kids[j]) <=> \E m \in 1 .. Len(kids[j]) : kids[j][m] = c
  BY <1>2 DEF Range
<1>4. ASSUME NEW m \in 1 .. Len(kids[j]), kids[j][m] = c
      PROVE  c \in Items /\ Listed(kids, c)
  BY <1>1, <1>4 DEF Listed
<1>5. QED
  BY <1>3, <1>4

(* What Item::Replace_ leaves of the tree: `new` is where i was.             *)
LEMMA ReplacedWhole ==
  ASSUME NEW s, NEW loose, Whole(s, loose), NEW new \in loose,
         NEW p \in Lists, NEW k \in 1 .. Len(s.kids[p]),
         NEW i, i = s.kids[p][k],
         NEW gone, gone = {i} \union Range(s.kids[i]),
         \A c \in Range(s.kids[i]) :
           s.kids[c] = <<>> /\ \A n \in Names :
             s.label[n] = Unset \/ s.label[n].item # c,
         NEW u, Replacing(s, u, p, k, i, new, gone),
         s.position[i] \in Nat
  PROVE  Whole(u, loose \ {new})
<1> DEFINE one == <<new>>
           list == Spliced(s.kids[p], k, one)
           kids2 == [s.kids EXCEPT ![p] = list]
<1>1. /\ Shaped(s) /\ Owned(s, loose) /\ new \in Items
      /\ s.kids \in [Lists -> Seq(Items)] /\ Once(s.kids)
      /\ ~ Listed(s.kids, new) /\ s.kids[new] = <<>> /\ new # Root
  <2>1. Shaped(s) /\ Owned(s, loose)
    BY DEF Whole
  <2>2. new \in Items /\ ~ Listed(s.kids, new) /\ s.kids[new] = <<>>
    BY <2>1 DEF Owned
  <2>3. s.kids \in [Lists -> Seq(Items)] /\ Once(s.kids)
    BY <2>1 DEF Owned, Shaped
  <2>4. new # Root
    BY <2>2 DEF Items, Root
  <2>5. QED
    BY <2>1, <2>2, <2>3, <2>4
<1>k. \A j \in Lists : \A c :
        /\ c \in Range(s.kids[j]) <=>
             \E m \in 1 .. Len(s.kids[j]) : s.kids[j][m] = c
        /\ c \in Range(s.kids[j]) => c \in Items /\ Listed(s.kids, c)
  BY <1>1, KidsOf, Zenon
<1>2. i \in Items /\ i \in Lists /\ s.kids[p] \in Seq(Items) /\ Listed(s.kids, i)
  BY <1>1, Placed DEF Listed, Lists
<1>3. new \notin gone /\ gone \subseteq Items /\ p \notin gone
  <2>1. ASSUME NEW c \in Range(s.kids[i]) PROVE c \in Items /\ Listed(s.kids, c)
    <3>1. i \in Lists
      BY <1>2 DEF Lists
    <3>2. QED
      BY <1>1, <2>1, <3>1, <1>k
  <2>2. i # new /\ \A c \in Range(s.kids[i]) : c # new
    BY <1>1, <1>2, <2>1
  <2>3. ASSUME p = i PROVE FALSE
    <3>1. i \in Range(s.kids[i])
      BY Zenon, <1>1, <2>3, <1>k
    <3>2. s.kids[i] = <<>>
      BY <3>1
    <3>3. QED
      BY <2>3, <3>2
  <2>4. ASSUME p \in Range(s.kids[i]) PROVE FALSE
    <3>1. s.kids[p] = <<>>
      BY <2>4
    <3>2. QED
      BY <3>1
  <2>5. QED
    BY <1>2, <2>1, <2>2, <2>3, <2>4
<1>4. Len(one) = 1 /\ one[1] = new /\ one \in Seq(Items)
  BY <1>1
<1>5. /\ kids2 \in [Lists -> Seq(Items)]
      /\ Once(kids2)
      /\ \A j \in Items :
           Listed(kids2, j) <=> (Listed(s.kids, j) /\ j # i) \/ j = new
  <2>1. list \in Seq(Items)
    <3> HIDE DEF one
    <3>1. QED
      BY <1>2, <1>4, SplicedSeq, Zenon
  <2> HIDE DEF list
  <2>2. kids2 \in [Lists -> Seq(Items)]
    BY <1>1, <2>1
  <2>3. \A j \in Lists :
          kids2[j] = IF j = p THEN Spliced(s.kids[p], k, one) ELSE s.kids[j]
    BY <1>1 DEF list
  <2>4. Distinct(one) /\ \A m \in 1 .. Len(one) : ~ Listed(s.kids, one[m])
    BY <1>1, <1>4 DEF Distinct
  <2> HIDE DEF kids2, one
  <2>5. Exchanging(s.kids, kids2, p, k, one)
    BY <1>4, <2>2, <2>3, <2>4 DEF Exchanging
  <2>6. Exchanged(s.kids, kids2, i, one)
    BY <1>1, <2>5, Exchange
  <2>7. QED
    BY <1>4, <2>2, <2>6 DEF Exchanged
<1>6. \A j \in Lists : kids2[j] = IF j = p THEN list ELSE s.kids[j]
  BY <1>1
<1>7. \A j \in Lists : u.kids[j] = IF j \in gone THEN <<>> ELSE kids2[j]
  BY <1>3, <1>6 DEF Replacing
<1> HIDE DEF kids2, one, list
<1>8. u.kids \in [Lists -> Seq(Items)] /\ Typed(u)
  BY DEF Replacing, Typed
<1>9. Once(u.kids)
  <2>1. \A j \in Lists : \A l \in 1 .. Len(u.kids[j]) :
          l \in 1 .. Len(kids2[j]) /\ u.kids[j][l] = kids2[j][l]
    BY <1>7
  <2>2. QED
    BY <1>5, <2>1 DEF Once
<1>10. \A j \in Items :
         Listed(u.kids, j) <=> (Listed(s.kids, j) /\ j \notin gone) \/ j = new
  <2> SUFFICES ASSUME NEW j \in Items
        PROVE Listed(u.kids, j) <=>
                (Listed(s.kids, j) /\ j \notin gone) \/ j = new
    OBVIOUS
  <2>1. ASSUME Listed(u.kids, j), j # new
        PROVE  Listed(s.kids, j) /\ j \notin gone
    <3>1. PICK q \in Lists : \E l \in 1 .. Len(u.kids[q]) : u.kids[q][l] = j
      BY <2>1 DEF Listed
    <3>2. PICK l \in 1 .. Len(u.kids[q]) : u.kids[q][l] = j
      BY <3>1
    <3>3. q \notin gone /\ u.kids[q] = kids2[q]
      BY <1>7, <3>2
    <3>4. Listed(kids2, j)
      BY <3>2, <3>3 DEF Listed
    <3>5. Listed(s.kids, j) /\ j # i
      BY <1>5, <2>1, <3>4
    <3>6. ASSUME j \in Range(s.kids[i]) PROVE FALSE
      <4>1. PICK m \in 1 .. Len(s.kids[i]) : s.kids[i][m] = j
          BY <1>2, <1>k, <3>6, Zenon
      <4>2. i \in Lists /\ i # p
        BY <1>2, <1>3 DEF Lists
      <4>3. kids2[i] = s.kids[i]
        BY <1>6, <4>2
      <4>4. q = i
        BY <1>5, <3>2, <3>3, <4>1, <4>2, <4>3 DEF Once
      <4>5. QED
        BY <3>3, <4>4
    <3>7. QED
      BY <3>5, <3>6
  <2>2. ASSUME Listed(kids2, j), j \notin Range(s.kids[i]) PROVE Listed(u.kids, j)
    <3>1. PICK q \in Lists : \E l \in 1 .. Len(kids2[q]) : kids2[q][l] = j
      BY <2>2 DEF Listed
    <3>2. PICK l \in 1 .. Len(kids2[q]) : kids2[q][l] = j
      BY <3>1
    <3>3. q \notin gone
      <4>1. ASSUME q = i PROVE FALSE
        <5>1. kids2[i] = s.kids[i]
          BY <1>3, <1>6, <4>1
        <5>2. j \in Range(s.kids[i])
          BY <1>1, <3>2, <4>1, <5>1, <1>k
        <5>3. QED
          BY <2>2, <5>2
      <4>2. ASSUME q \in Range(s.kids[i]) PROVE FALSE
        <5>1. s.kids[q] = <<>> /\ q # p
          BY <1>3, <4>2
        <5>2. kids2[q] = <<>>
          BY <1>6, <5>1
        <5>3. QED
          BY <3>2, <5>2
      <4>3. QED
        BY <4>1, <4>2
    <3>4. QED
      BY <1>7, <3>2, <3>3 DEF Listed
  <2>3. new \notin Range(s.kids[i])
    BY <1>3
  <2>4. QED
    BY <1>5, <2>1, <2>2, <2>3
<1>11. \A j \in Items : u.kind[j] = IF j \in gone THEN "free" ELSE s.kind[j]
  BY DEF Replacing
<1>12. ASSUME NEW n \in Names
       PROVE  /\ u.label[n] \in Pointers \union {Unset}
              /\ u.label[n] # Unset => Listed(u.kids, u.label[n].item)
  <2>1. u.label[n] = IF n \in LabelsOf(s, i) THEN [s.label[n] EXCEPT !.item = new]
                     ELSE s.label[n]
    BY DEF Replacing
  <2>2. s.label[n] \in Pointers \union {Unset}
    BY <1>1 DEF Shaped
  <2>3. CASE n \in LabelsOf(s, i)
    <3>1. s.label[n] \in Pointers
      BY <2>2, <2>3 DEF LabelsOf
    <3>2. u.label[n] \in Pointers /\ u.label[n].item = new
      BY <1>1, <2>1, <2>3, <3>1 DEF Pointers
    <3>3. QED
      BY <1>1, <1>10, <3>2
  <2>4. CASE n \notin LabelsOf(s, i)
    <3>1. u.label[n] = s.label[n]
      BY <2>1, <2>4
    <3>2. ASSUME s.label[n] # Unset PROVE Listed(u.kids, s.label[n].item)
      <4>1. s.label[n].item # i
        BY <2>4, <3>2 DEF LabelsOf
      <4>2. s.label[n].item \notin gone
        BY <3>2, <4>1
      <4>3. Listed(s.kids, s.label[n].item) /\ s.label[n].item \in Items
        BY <1>1, <2>2, <3>2 DEF Owned, Pointers
      <4>4. QED
        BY <1>10, <4>2, <4>3
    <3>3. QED
      BY <2>2, <3>1, <3>2
  <2>5. QED
    BY <2>3, <2>4
<1>13. ASSUME NEW q \in DOMAIN u.pmap
       PROVE  /\ q \in 0 .. Size /\ u.pmap[q] \in Items
              /\ u.position[u.pmap[q]] = q /\ Listed(u.kids, u.pmap[q])
  <2>1. /\ q \in DOMAIN s.pmap /\ s.pmap[q] \notin gone \ {i}
        /\ u.pmap[q] = IF s.pmap[q] = i THEN new ELSE s.pmap[q]
    BY DEF Replacing
  <2>2. /\ q \in 0 .. Size /\ s.pmap[q] \in Items /\ Listed(s.kids, s.pmap[q])
        /\ s.position[s.pmap[q]] = q
    BY <1>1, <2>1 DEF Shaped, Owned
  <2>3. u.pmap[q] \in Items /\ u.pmap[q] \notin gone
    BY <1>1, <1>3, <2>1, <2>2
  <2>4. u.position[u.pmap[q]] = q
    <3>1. u.position[u.pmap[q]] = IF u.pmap[q] = new THEN s.position[i]
                                  ELSE s.position[u.pmap[q]]
      BY <2>3 DEF Replacing
    <3>2. s.pmap[q] # new
      BY <1>1, <2>2
    <3>3. QED
      BY <2>1, <2>2, <3>1, <3>2
  <2>5. Listed(u.kids, u.pmap[q])
    BY <1>10, <2>1, <2>2, <2>3
  <2>6. QED
    BY <2>2, <2>3, <2>4, <2>5
<1>14. Shaped(u)
  <2>1. DOMAIN u.label = Names
    BY DEF Replacing
  <2>2. u.label \in [Names -> Pointers \union {Unset}]
    <3>1. u.label = [n \in Names |-> IF n \in LabelsOf(s, i) THEN [s.label[n] EXCEPT !.item = new]
                     ELSE s.label[n]]
      BY DEF Replacing
    <3>2. u.label = [n \in Names |-> u.label[n]]
      BY <3>1, Zenon
    <3>3. QED
      BY <1>12, <3>2
  <2>3. QED
    BY <1>8, <1>13, <2>2 DEF Shaped, Typed
<1>15. ASSUME NEW j \in Items
       PROVE  /\ Listed(u.kids, j) <=> u.kind[j] # "free" /\ j \notin loose \ {new}
              /\ j \in loose \ {new} => u.kind[j] # "free"
              /\ u.kind[j] \in Childless \/ j \in loose \ {new}
                   => u.kids[j] = <<>>
  <2>1. Listed(s.kids, j) <=> s.kind[j] # "free" /\ j \notin loose
    BY <1>1 DEF Owned
  <2>2. j \in loose => s.kind[j] # "free" /\ j \notin gone
    <3>1. \A c \in gone : Listed(s.kids, c)
      BY <1>1, <1>2, <1>k
    <3>2. QED
      BY <1>1, <2>1, <3>1 DEF Owned
  <2>3. u.kind[j] = IF j \in gone THEN "free" ELSE s.kind[j]
    BY <1>11
  <2>4. Listed(u.kids, j) <=> (Listed(s.kids, j) /\ j \notin gone) \/ j = new
    BY <1>10
  <2>5. ASSUME u.kind[j] \in Childless \/ j \in loose \ {new}
        PROVE  u.kids[j] = <<>>
    <3>0. j \in Lists
      BY DEF Lists
    <3>1. CASE j \in gone
      BY <1>7, <3>0, <3>1
    <3>2. CASE j \notin gone
      <4>1. s.kids[j] = <<>>
        BY <1>1, <2>3, <2>5, <3>2 DEF Owned
      <4>2. j # p
        BY <4>1
      <4>3. QED
        BY <1>6, <1>7, <3>0, <3>2, <4>1, <4>2
    <3>3. QED
      BY <3>1, <3>2
  <2>6. QED
    BY <2>1, <2>2, <2>3, <2>4, <2>5
<1>16. Owned(u, loose \ {new})
  <2>1. loose \ {new} \subseteq Items
    BY <1>1 DEF Owned
  <2>2. \A j \in loose \ {new} : j \in Items
    BY <2>1
  <2>3. QED
    BY <1>9, <1>12, <1>13, <1>15, <2>1, <2>2 DEF Owned
<1>17. QED
  BY <1>14, <1>16 DEF Whole

-----------------------------------------------------------------------------
(* Slicing an item *)

PieceItems(seq) == [m \in DOMAIN seq |-> seq[m][1]]

(* Pieces, one after the other, of different items; `size` is where the last *)
(* one ends.                                                                 *)
Pieces(seq, size) ==
  /\ seq \in Seq(Items \X Nat) /\ Len(seq) > 0
  /\ \A m, l \in 1 .. Len(seq) : seq[m][1] = seq[l][1] => m = l
  /\ \A m \in 1 .. Len(seq) :
       StartOf(seq, m) <= seq[m][2] /\ seq[m][2] <= size
  /\ \A m, l \in 1 .. Len(seq) : m < l => seq[m][2] <= StartOf(seq, l)
  /\ seq[Len(seq)][2] = size

(* Piece m takes the labels at `offset`, if no piece before it does. *)
Holds(seq, m, offset) ==
  \/ offset < seq[m][2]
  \/ offset = seq[m][2] /\ offset = StartOf(seq, m)

(* l2 is where a label at l is when what it points to is sliced. *)
Shifting(l, l2, seq) ==
  \E m \in 1 .. Len(seq) :
    /\ l2 = [item |-> seq[m][1], offset |-> l.offset - StartOf(seq, m)]
    /\ StartOf(seq, m) <= l.offset
    /\ Holds(seq, m, l.offset)
    /\ \A j \in 1 .. Len(seq) : j < m => ~ Holds(seq, j, l.offset)

(* The first of the pieces that starts at q, the pieces being laid from pos. *)
First(seq, pos, q, m) ==
  /\ m \in 1 .. Len(seq) /\ pos + StartOf(seq, m) = q
  /\ \A l \in 1 .. Len(seq) : l < m => pos + StartOf(seq, l) # q

Started(seq, pos) == {pos + StartOf(seq, m) : m \in 1 .. Len(seq)}

(* What the pointer map of s is after i was sliced. *)
Remapping(s, u, i, seq) ==
  /\ DOMAIN s.pmap \subseteq DOMAIN u.pmap
  /\ DOMAIN u.pmap \subseteq DOMAIN s.pmap \union Started(seq, s.position[i])
  /\ Len(seq) > 1 => Started(seq, s.position[i]) \subseteq DOMAIN u.pmap
  /\ \A q \in DOMAIN u.pmap :
       IF q \in DOMAIN s.pmap /\ s.pmap[q] # i THEN u.pmap[q] = s.pmap[q]
       ELSE \E m \in 1 .. Len(seq) :
              First(seq, s.position[i], q, m) /\ u.pmap[q] = seq[m][1]

(* What the labels of s are after i was sliced. *)
Relabelling(s, u, i, seq) ==
  /\ DOMAIN u.label = Names
  /\ u.label = [n \in Names |-> u.label[n]]
  /\ \A n \in Names :
       IF n \in LabelsOf(s, i) THEN Shifting(s.label[n], u.label[n], seq)
       ELSE u.label[n] = s.label[n]

(* u is s when the k-th child of p, i, was sliced. *)
Slicing(s, u, p, k, i, seq) ==
  /\ DOMAIN u = DOMAIN s /\ Typed(u)
  /\ \A j \in Lists : u.kids[j] =
       IF j = p THEN Spliced(s.kids[p], k, PieceItems(seq)) ELSE s.kids[j]
  /\ u.kind = s.kind /\ u.own = s.own
  /\ \A m \in 1 .. Len(seq) :
       u.position[seq[m][1]] = s.position[i] + StartOf(seq, m)
  /\ \A j \in Items :
       (\A m \in 1 .. Len(seq) : seq[m][1] # j) =>
         u.position[j] = s.position[j]
  /\ Relabelling(s, u, i, seq)
  /\ Remapping(s, u, i, seq)

(* A label at an offset of the item finds its piece.                         *)
LEMMA PieceFound ==
  ASSUME NEW seq, NEW size \in Nat, Pieces(seq, size),
         NEW offset \in Nat, offset < size
  PROVE  LET m == PieceOf(seq, offset) IN
         /\ m \in 1 .. Len(seq) /\ StartOf(seq, m) <= offset
         /\ Holds(seq, m, offset)
         /\ \A j \in 1 .. Len(seq) : j < m => ~ Holds(seq, j, offset)
<1> DEFINE S == {k \in DOMAIN seq :
                   \/ offset < seq[k][2]
                   \/ offset = seq[k][2] /\ offset = StartOf(seq, k)}
           m == PieceOf(seq, offset)
           n == Len(seq)
<1>1. /\ n \in Nat /\ n > 0 /\ DOMAIN seq = 1 .. n
      /\ \A k \in 1 .. n : seq[k][2] \in Nat
      /\ seq[n][2] = size
  BY DEF Pieces
<1>2. m = Min(S)
  BY DEF PieceOf
<1> HIDE DEF m, n
<1>3. S \subseteq Nat /\ n \in S
  BY <1>1
<1>4. m \in S /\ \A k \in S : m <= k
  BY <1>2, <1>3, Least
<1>5. m \in 1 .. n
  BY <1>1, <1>4
<1>6. StartOf(seq, m) <= offset
  <2>1. CASE m = 1
    BY <2>1 DEF StartOf
  <2>2. CASE m # 1
    <3>1. m - 1 \in 1 .. n /\ ~(m <= m - 1)
      BY <1>1, <1>5, <2>2
    <3>2. m - 1 \notin S
      BY <1>4, <3>1
    <3>3. ~(offset < seq[m - 1][2]) /\ seq[m - 1][2] \in Nat
      BY <1>1, <3>1, <3>2
    <3>4. QED
      BY <2>2, <3>3 DEF StartOf
  <2>3. QED
    BY <2>1, <2>2
<1>7. ASSUME NEW j \in 1 .. n, j < m PROVE ~ Holds(seq, j, offset)
  <2>1. ~(m <= j)
    BY <1>1, <1>5, <1>7
  <2>2. j \notin S
    BY <1>4, <2>1
  <2>3. QED
    BY <1>1, <2>2 DEF Holds
<1>8. Holds(seq, m, offset)
  BY <1>4 DEF Holds
<1>9. QED
  BY <1>5, <1>6, <1>7, <1>8 DEF m, n

(* Item::Slice *)
LEMMA SlicedFields ==
  ASSUME NEW s, Shaped(s), Once(s.kids), DOMAIN s.pmap # {},
         NEW p \in Lists, NEW k \in 1 .. Len(s.kids[p]),
         NEW i, i = s.kids[p][k], s.position[i] \in Nat,
         NEW seq, NEW size \in Nat, Pieces(seq, size),
         \A n \in LabelsOf(s, i) : s.label[n].offset < size
  PROVE  Slicing(s, Sliced(s, i, seq), p, k, i, seq)
<1> DEFINE gone == Removed(s, {i})
           At(m) == s.position[i] + StartOf(seq, m)
           Is(j) == {m \in DOMAIN seq : seq[m][1] = j}
           Starting(q) == {m \in DOMAIN seq : At(m) = q}
           Emplaced(map) ==
             [q \in DOMAIN map \union {At(m) : m \in DOMAIN seq} |->
                IF q \in DOMAIN map THEN map[q] ELSE seq[Min(Starting(q))][1]]
           Shifted(l) ==
             LET m == PieceOf(seq, l.offset) IN
             [item |-> seq[m][1], offset |-> l.offset - StartOf(seq, m)]
           items == PieceItems(seq)
           list == Spliced(s.kids[p], k, items)
           u == SlicedInto(s, i, seq)
<1>1. i \in Items /\ Parent(s, i) = p /\ IndexIn(s.kids[p], i) = k
  BY Placed DEF Shaped
<1>2. /\ DOMAIN seq = 1 .. Len(seq) /\ Len(seq) \in Nat /\ Len(seq) > 0
      /\ \A m \in 1 .. Len(seq) :
           seq[m][1] \in Items /\ seq[m][2] \in Nat /\ StartOf(seq, m) \in Nat
  BY DEF Pieces, StartOf
<1>3. Removing(s, gone, {i})
  BY RemovedFields DEF Shaped
<1>4. ReplaceSubSeqAt(k, items, <<i>>, s.kids[p]) = list
  <2>1. s.kids[p] \in Seq(Items) /\ Distinct(s.kids[p])
    BY Placed DEF Shaped
  <2>2. items \in Seq(Items)
    BY <1>2 DEF PieceItems
  <2>3. QED
    BY <1>1, <2>1, <2>2, SplicedForms
<1>5. list \in Seq(Items)
  <2>1. s.kids[p] \in Seq(Items)
    BY DEF Shaped
  <2>2. items \in Seq(Items)
    BY <1>2 DEF PieceItems
  <2> HIDE DEF items
  <2>3. QED
    BY <2>1, <2>2, SplicedSeq, Zenon
<1>6. u = [gone EXCEPT
        !.label = [n \in Names |->
           IF n \in LabelsOf(s, i) THEN Shifted(@[n]) ELSE @[n]],
        !.position = [j \in Items |->
           IF Is(j) = {} THEN @[j] ELSE At(Min(Is(j)))],
        !.kids[p] = list,
        !.pmap = Emplaced(@)]
  <2>1. gone.kids[p] = s.kids[p]
    BY <1>3 DEF Removing
  <2> HIDE DEF gone, list, At, Is, Starting
  <2>2. QED
    BY <1>1, <1>4, <2>1, Zenon DEF SlicedInto, gone, At, Is, Starting, items, PieceItems
<1> HIDE DEF u, list
<1>7. /\ DOMAIN u = DOMAIN s
      /\ u.kids = [s.kids EXCEPT ![p] = list]
      /\ u.kind = s.kind /\ u.own = s.own
      /\ u.label = [n \in Names |->
           IF n \in LabelsOf(s, i) THEN Shifted(s.label[n]) ELSE s.label[n]]
      /\ u.position = [j \in Items |->
           IF Is(j) = {} THEN s.position[j] ELSE At(Min(Is(j)))]
      /\ u.pmap = Emplaced(gone.pmap)
  <2>1. /\ Fields \subseteq DOMAIN gone /\ DOMAIN gone = DOMAIN s
        /\ gone.kids = s.kids /\ gone.kind = s.kind /\ gone.own = s.own
        /\ gone.label = s.label /\ gone.position = s.position
    BY Zenon, <1>3 DEF Removing, Shaped
  <2> HIDE DEF gone, Shifted, Emplaced, At, Is
  <2>2. QED
    BY <1>6, <2>1 DEF Fields
<1>8. Typed(u)
  BY ZenonT(40), <1>5, <1>7 DEF Typed, Shaped
<1>9. \A j \in Lists : u.kids[j] = IF j = p THEN list ELSE s.kids[j]
  BY Zenon, <1>7 DEF Shaped
<1>10. ASSUME NEW m \in 1 .. Len(seq)
       PROVE  u.position[seq[m][1]] = s.position[i] + StartOf(seq, m)
  <2>1. Is(seq[m][1]) = {m}
    BY <1>2 DEF Pieces
  <2>2. Min({m}) \in {m}
    <3>1. {m} \subseteq Nat /\ {m} # {}
      BY <1>2
    <3>2. QED
      BY <3>1, Least
  <2>3. seq[m][1] \in Items
    BY <1>2
  <2> HIDE DEF Is
  <2>4. u.position[seq[m][1]] = At(Min(Is(seq[m][1])))
    BY ZenonT(30), <1>7, <2>1, <2>3
  <2>5. QED
    BY <2>1, <2>2, <2>4
<1>11. ASSUME NEW j \in Items, \A m \in 1 .. Len(seq) : seq[m][1] # j
       PROVE  u.position[j] = s.position[j]
  <2>1. Is(j) = {}
    BY <1>2, <1>11
  <2>2. QED
    BY Zenon, <1>7, <2>1
<1>12. Relabelling(s, u, i, seq)
  <2>1. DOMAIN u.label = Names /\ u.label = [n \in Names |-> u.label[n]]
    BY Zenon, <1>7
  <2>2. ASSUME NEW n \in Names, n \in LabelsOf(s, i)
        PROVE  Shifting(s.label[n], u.label[n], seq)
    <3> DEFINE o == s.label[n].offset
               m == PieceOf(seq, o)
    <3>1. u.label[n] = [item |-> seq[m][1], offset |-> o - StartOf(seq, m)]
      BY Zenon, <1>7, <2>2
    <3>2. s.label[n] \in Pointers
      BY <2>2 DEF Shaped, LabelsOf
    <3>3. o \in Nat /\ o < size
      BY <2>2, <3>2 DEF Pointers
    <3> HIDE DEF o
    <3>4. /\ m \in 1 .. Len(seq) /\ StartOf(seq, m) <= o
          /\ Holds(seq, m, o)
          /\ \A j \in 1 .. Len(seq) : j < m => ~ Holds(seq, j, o)
      BY Zenon, <3>3, PieceFound
    <3> HIDE DEF m
    <3>5. QED
      BY Zenon, <3>1, <3>4 DEF Shifting, o
  <2>3. ASSUME NEW n \in Names, n \notin LabelsOf(s, i)
        PROVE  u.label[n] = s.label[n]
    BY Zenon, <1>7, <2>3
  <2>4. QED
    BY Zenon, <2>1, <2>2, <2>3 DEF Relabelling
<1>13. Remapping(s, u, i, seq)
  <2>1. Started(seq, s.position[i]) = {At(m) : m \in DOMAIN seq}
    BY <1>2 DEF Started
  <2>2. /\ DOMAIN gone.pmap = {q \in DOMAIN s.pmap : s.pmap[q] # i}
        /\ \A q \in DOMAIN gone.pmap : gone.pmap[q] = s.pmap[q]
    BY Zenon, <1>3 DEF Removing, Shaped
  <2>3. /\ DOMAIN u.pmap = DOMAIN gone.pmap \union Started(seq, s.position[i])
        /\ \A q \in DOMAIN u.pmap : u.pmap[q] =
             IF q \in DOMAIN gone.pmap THEN gone.pmap[q]
             ELSE seq[Min(Starting(q))][1]
    BY Zenon, <1>7, <2>1
  <2>4. ASSUME NEW q \in DOMAIN s.pmap, s.pmap[q] = i
        PROVE  q \in Started(seq, s.position[i])
    <3>1. q = s.position[i] /\ 1 \in 1 .. Len(seq) /\ StartOf(seq, 1) = 0
      BY <1>2, <2>4 DEF Shaped, StartOf
    <3>2. s.position[i] + StartOf(seq, 1) = q
      BY <3>1
    <3>3. QED
      BY <3>1, <3>2 DEF Started
  <2>5. ASSUME NEW q \in Started(seq, s.position[i])
        PROVE  First(seq, s.position[i], q, Min(Starting(q)))
    <3>1. Starting(q) \subseteq Nat /\ Starting(q) # {}
      <4>1. Starting(q) \subseteq 1 .. Len(seq)
        BY <1>2
      <4>2. \E m \in 1 .. Len(seq) : q = s.position[i] + StartOf(seq, m)
        BY DEF Started
      <4>3. \E m \in DOMAIN seq : At(m) = q
        BY <1>2, <4>2
      <4>4. 1 .. Len(seq) \subseteq Nat
        BY <1>2
      <4>5. QED
        BY <4>1, <4>3, <4>4
    <3>2. /\ Min(Starting(q)) \in Starting(q)
          /\ \A m \in Starting(q) : Min(Starting(q)) <= m
      BY <3>1, Least
    <3> DEFINE w == Min(Starting(q))
    <3>3. w \in 1 .. Len(seq) /\ s.position[i] + StartOf(seq, w) = q
      BY <1>2, <3>2
    <3>4. ASSUME NEW l \in 1 .. Len(seq), l < w
          PROVE  s.position[i] + StartOf(seq, l) # q
      <4>1. w \in 1 .. Len(seq)
        BY <3>3
      <4> HIDE DEF w
      <4>2. l \in Nat /\ w \in Nat /\ ~(w <= l)
        BY <1>2, <3>4, <4>1, SMTT(30)
      <4>3. l \notin Starting(q)
        BY <3>2, <4>2 DEF w
      <4>4. QED
        BY <1>2, <4>3
    <3> HIDE DEF w
    <3>5. First(seq, s.position[i], q, w)
      BY <3>3, <3>4 DEF First
    <3>6. QED
      BY <3>5 DEF w
  <2> HIDE DEF gone, Starting
  <2>6. DOMAIN u.pmap = DOMAIN s.pmap \union Started(seq, s.position[i])
    BY <2>2, <2>3, <2>4
  <2>7. ASSUME NEW q \in DOMAIN u.pmap
        PROVE  IF q \in DOMAIN s.pmap /\ s.pmap[q] # i
               THEN u.pmap[q] = s.pmap[q]
               ELSE \E m \in 1 .. Len(seq) :
                      First(seq, s.position[i], q, m) /\ u.pmap[q] = seq[m][1]
    <3>1. CASE q \in DOMAIN s.pmap /\ s.pmap[q] # i
      BY <2>2, <2>3, <3>1
    <3>2. CASE ~(q \in DOMAIN s.pmap /\ s.pmap[q] # i)
      <4>1. q \notin DOMAIN gone.pmap
        BY <2>2, <3>2
      <4>2. q \in Started(seq, s.position[i])
        BY <2>3, <4>1
      <4>3. u.pmap[q] = seq[Min(Starting(q))][1]
        BY <2>3, <4>1
      <4>4. Min(Starting(q)) \in 1 .. Len(seq)
        BY Zenon, <2>5, <4>2 DEF First
      <4>5. QED
        BY <2>5, <3>2, <4>2, <4>3, <4>4
    <3>3. QED
      BY <3>1, <3>2
  <2>8. QED
    BY <2>6, <2>7 DEF Remapping
<1>14. Slicing(s, u, p, k, i, seq)
  BY Zenon, <1>7, <1>8, <1>9, <1>10, <1>11, <1>12, <1>13 DEF Slicing, list
<1>15. Sliced(s, i, seq) = u
  <2> DEFINE From(pieces, v) == SlicedInto(v, i, pieces)
  <2>1. Sliced(s, i, seq) = SlicedInto(s, i, seq)
    BY DEF Sliced, Applied
  <2>2. QED
    BY <2>1 DEF u
<1>16. QED
  BY <1>14, <1>15

-----------------------------------------------------------------------------
(* Splitting a raw item *)

(* What a raw item of `size` units is made into when `new` is cut out of it, *)
(* from pos to end; f is the item of what is behind it, if r is before it.   *)
PiecesOf(r, pos, end, size, new, f) ==
  IF pos = 0
  THEN IF end = size THEN << <<new, end>> >>
       ELSE << <<new, end>>, <<r, size>> >>
  ELSE IF end = size THEN << <<r, pos>>, <<new, end>> >>
       ELSE << <<r, pos>>, <<new, end>>, <<f, size>> >>

(* A raw item of a whole tree, of which `len` units from pos on can be cut:  *)
(* there are items left for the pieces, and its labels are inside.           *)
Cuttable(s, r, pos, len) ==
  /\ Whole(s, {}) /\ DOMAIN s.pmap # {}
  /\ r \in Items /\ s.kind[r] = "raw" /\ s.position[r] \in Nat
  /\ pos \in Nat /\ len \in Nat /\ pos + len <= Len(s.own[r])
  /\ Len(s.own[r]) > 0
  /\ \A n \in LabelsOf(s, r) : s.label[n].offset < Len(s.own[r])
  /\ Free(s) # {}
  /\ pos = 0 \/ pos + len = Len(s.own[r]) \/ Free(s) \ {Fresh(s)} # {}

(* The part is what is in the whole behind `at`. *)
Excerpt(part, whole, at) == \A j \in 1 .. Len(part) : part[j] = whole[at + j]

(* What SubSeq returns is one.                                               *)
LEMMA ExcerptIs ==
  ASSUME NEW whole, whole \in Seq(Nat), NEW a \in Nat, NEW b \in Nat,
         a <= b, b <= Len(whole)
  PROVE  Excerpt(SubSeq(whole, a + 1, b), whole, a)
<1> DEFINE part == SubSeq(whole, a + 1, b)
<1>1. Len(part) = b - a
  OBVIOUS
<1>2. \A j \in 1 .. b - a : part[j] = whole[a + 1 + j - 1]
  BY SMTT(30)
<1>3. \A j \in 1 .. b - a : a + 1 + j - 1 = a + j
  OBVIOUS
<1> HIDE DEF part
<1>4. QED
  BY <1>1, <1>2, <1>3 DEF Excerpt, part

(* u is s when r, the k-th child of p, was cut into `seq`, of which new is   *)
(* of this kind, and the others raw.                                         *)
Cutting(s, u, p, k, r, seq, new, kind) ==
  /\ Fields \subseteq DOMAIN u /\ Typed(u)
  /\ Pieces(seq, Len(s.own[r]))
  /\ \E m \in 1 .. Len(seq) : seq[m][1] = new
  /\ \A j \in Lists : u.kids[j] =
       IF j = p THEN Spliced(s.kids[p], k, PieceItems(seq)) ELSE s.kids[j]
  /\ \A m \in 1 .. Len(seq) :
       /\ seq[m][1] = r \/ s.kind[seq[m][1]] = "free"
       /\ u.kind[seq[m][1]] = IF seq[m][1] = new THEN kind ELSE "raw"
       /\ Len(u.own[seq[m][1]]) = seq[m][2] - StartOf(seq, m)
       /\ Excerpt(u.own[seq[m][1]], s.own[r], StartOf(seq, m))
       /\ u.position[seq[m][1]] = s.position[r] + StartOf(seq, m)
  /\ \A j \in Items : (\A m \in 1 .. Len(seq) : seq[m][1] # j) =>
       IF j = r THEN u.kind[j] = "free"
       ELSE /\ u.kind[j] = s.kind[j] /\ u.own[j] = s.own[j]
            /\ u.position[j] = s.position[j]
  /\ Relabelling(s, u, r, seq)
  /\ Remapping(s, u, r, seq)

(* The pieces are one after the other.                                       *)
LEMMA PiecesOfIs ==
  ASSUME NEW r \in Items, NEW new \in Items, NEW f,
         new # r, f # r, new # f,
         NEW pos \in Nat, NEW end \in Nat, NEW size \in Nat,
         pos <= end, end <= size,
         pos = 0 \/ end = size \/ f \in Items,
         NEW seq, seq = PiecesOf(r, pos, end, size, new, f)
  PROVE  Pieces(seq, size)
<1>1. CASE pos = 0 /\ end = size
  <2>1. seq = << <<new, end>> >>
    BY <1>1 DEF PiecesOf
  <2>2. /\ Len(seq) = 1 /\ seq[1][1] = new /\ seq[1][2] = end
        /\ seq \in Seq(Items \X Nat)
    BY <2>1
  <2>3. \A m \in 1 .. Len(seq) : m = 1
    BY <2>2
  <2>4. StartOf(seq, 1) = 0
    BY DEF StartOf
  <2> HIDE DEF StartOf
  <2>5. QED
    BY <1>1, <2>2, <2>3, <2>4 DEF Pieces
<1>2. CASE pos = 0 /\ end # size
  <2>1. seq = << <<new, end>>, <<r, size>> >>
    BY <1>2 DEF PiecesOf
  <2>2. /\ Len(seq) = 2 /\ seq[1][1] = new /\ seq[1][2] = end
        /\ seq[2][1] = r /\ seq[2][2] = size
        /\ seq \in Seq(Items \X Nat)
    BY <2>1
  <2>3. \A m \in 1 .. Len(seq) : m = 1 \/ m = 2
    BY <2>2
  <2>4. StartOf(seq, 1) = 0 /\ StartOf(seq, 2) = end
    BY <2>2 DEF StartOf
  <2>5. \A m, l \in 1 .. Len(seq) : seq[m][1] = seq[l][1] => m = l
    BY <2>2, <2>3
  <2>6. /\ \A m \in 1 .. Len(seq) :
             StartOf(seq, m) <= seq[m][2] /\ seq[m][2] <= size
        /\ \A m, l \in 1 .. Len(seq) : m < l => seq[m][2] <= StartOf(seq, l)
    BY <2>2, <2>3, <2>4
  <2>7. QED
    BY <2>2, <2>5, <2>6 DEF Pieces
<1>3. CASE pos # 0 /\ end = size
  <2>1. seq = << <<r, pos>>, <<new, end>> >>
    BY <1>3 DEF PiecesOf
  <2>2. /\ Len(seq) = 2 /\ seq[1][1] = r /\ seq[1][2] = pos
        /\ seq[2][1] = new /\ seq[2][2] = end
        /\ seq \in Seq(Items \X Nat)
    BY <2>1
  <2>3. \A m \in 1 .. Len(seq) : m = 1 \/ m = 2
    BY <2>2
  <2>4. StartOf(seq, 1) = 0 /\ StartOf(seq, 2) = pos
    BY <2>2 DEF StartOf
  <2>5. \A m, l \in 1 .. Len(seq) : seq[m][1] = seq[l][1] => m = l
    BY <2>2, <2>3
  <2>6. /\ \A m \in 1 .. Len(seq) :
             StartOf(seq, m) <= seq[m][2] /\ seq[m][2] <= size
        /\ \A m, l \in 1 .. Len(seq) : m < l => seq[m][2] <= StartOf(seq, l)
    BY <2>2, <2>3, <2>4
  <2>7. QED
    <3>1. seq[Len(seq)][2] = size
      BY <1>3, <2>2
    <3>2. QED
      BY <2>2, <2>5, <2>6, <3>1 DEF Pieces
<1>4. CASE pos # 0 /\ end # size
  <2>1. seq = << <<r, pos>>, <<new, end>>, <<f, size>> >>
    BY <1>4 DEF PiecesOf
  <2>2. /\ Len(seq) = 3 /\ seq[1][1] = r /\ seq[1][2] = pos
        /\ seq[2][1] = new /\ seq[2][2] = end
        /\ seq[3][1] = f /\ seq[3][2] = size
        /\ seq \in Seq(Items \X Nat)
    BY <1>4, <2>1
  <2>3. \A m \in 1 .. Len(seq) : m = 1 \/ m = 2 \/ m = 3
    BY <2>2
  <2>4. StartOf(seq, 1) = 0 /\ StartOf(seq, 2) = pos /\ StartOf(seq, 3) = end
    BY <2>2 DEF StartOf
  <2>5. \A m, l \in 1 .. Len(seq) : seq[m][1] = seq[l][1] => m = l
    BY <2>2, <2>3
  <2>6. /\ \A m \in 1 .. Len(seq) :
             StartOf(seq, m) <= seq[m][2] /\ seq[m][2] <= size
        /\ \A m, l \in 1 .. Len(seq) : m < l => seq[m][2] <= StartOf(seq, l)
    BY <2>2, <2>3, <2>4
  <2>7. QED
    BY <2>2, <2>5, <2>6 DEF Pieces
<1>5. QED
  BY <1>1, <1>2, <1>3, <1>4

(* RawItem::Split                                                            *)
LEMMA SplitCuts ==
  ASSUME NEW s, NEW r, NEW pos, NEW len, Cuttable(s, r, pos, len),
         NEW kind, kind # "free", NEW new, new = Fresh(s),
         NEW p \in Lists, NEW k \in 1 .. Len(s.kids[p]), r = s.kids[p][k]
  PROVE  \E f \in Nat :
           /\ f # r /\ f # new
           /\ Cutting(s, Split(s, r, pos, len, kind), p, k, r,
                      PiecesOf(r, pos, pos + len, Len(s.own[r]), new, f),
                      new, kind)
<1> DEFINE src == s.own[r]
           size == Len(src)
           end == pos + len
           cut == SubSeq(src, pos + 1, end)
           s1 == Create(s, kind, cut)
           right == SubSeq(src, end + 1, size)
           u == Split(s, r, pos, len, kind)
<1>1. /\ Whole(s, {}) /\ Shaped(s) /\ Once(s.kids) /\ src \in Seq(Nat)
      /\ r \in Items /\ s.kind[r] = "raw" /\ s.position[r] \in Nat
      /\ s.kids[r] = <<>> /\ DOMAIN s.pmap # {}
      /\ size \in Nat /\ size > 0 /\ pos \in Nat /\ len \in Nat
      /\ end \in Nat /\ end <= size /\ pos <= end
  <2>1. /\ Whole(s, {}) /\ DOMAIN s.pmap # {}
        /\ r \in Items /\ s.kind[r] = "raw" /\ s.position[r] \in Nat
        /\ pos \in Nat /\ len \in Nat /\ pos + len <= Len(s.own[r])
        /\ Len(s.own[r]) > 0
    BY DEF Cuttable
  <2>2. Shaped(s) /\ Owned(s, {})
    BY <2>1 DEF Whole
  <2>3. Once(s.kids) /\ s.kids[r] = <<>>
    BY <2>1, <2>2 DEF Owned, Childless
  <2>4. src \in Seq(Nat)
    BY <2>1, <2>2 DEF Shaped
  <2> HIDE DEF src
  <2>5. size \in Nat
    BY <2>4
  <2>6. end \in Nat /\ end <= size /\ pos <= end /\ size > 0
    BY <2>1, <2>5 DEF src
  <2>7. QED
    BY <2>1, <2>2, <2>3, <2>4, <2>5, <2>6
<1>2. cut \in Seq(Nat) /\ Len(cut) = len /\ Excerpt(cut, src, pos)
  <2> HIDE DEF src
  <2>1. cut \in Seq(Nat) /\ Len(cut) = len
    BY <1>1
  <2> HIDE DEF end
  <2>2. Excerpt(cut, src, pos)
    BY <1>1, ExcerptIs
  <2>3. QED
    BY <2>1, <2>2
<1>3. /\ right \in Seq(Nat) /\ Len(right) = size - end
      /\ right = <<>> <=> end = size
      /\ Excerpt(right, src, end)
  <2> HIDE DEF src, end
  <2>1. right \in Seq(Nat)
    BY <1>1, SMTT(30)
  <2>2. Len(right) = size - end
    BY <1>1
  <2>3. Excerpt(right, src, end)
    <3>1. size <= Len(src)
      BY <1>1
    <3> HIDE DEF size
    <3>2. QED
      BY <1>1, <3>1, ExcerptIs
  <2> HIDE DEF right, size
  <2>4. right = <<>> <=> Len(right) = 0
    BY <2>1
  <2>5. QED
    BY <1>1, <2>1, <2>2, <2>3, <2>4
<1> HIDE DEF cut, right
<1>4. Creating(s, s1, new, {}, kind, cut)
  <2>1. Free(s) # {}
    BY DEF Cuttable
  <2>2. QED
    BY <1>1, <1>2, <2>1, Created
<1>5. /\ new \in Items /\ s.kind[new] = "free" /\ new # r
      /\ ~ Listed(s.kids, new) /\ s.kids[new] = <<>>
      /\ Free(s1) = Free(s) \ {new}
      /\ Whole(s1, {new})
      /\ DOMAIN s1 = DOMAIN s
      /\ s1.kind = [s.kind EXCEPT ![new] = kind]
      /\ s1.own = [s.own EXCEPT ![new] = cut]
      /\ s1.kids = s.kids /\ s1.position = s.position
      /\ s1.pmap = s.pmap /\ s1.label = s.label
  <2>1. {} \union {new} = {new}
    OBVIOUS
  <2> HIDE DEF s1
  <2>2. QED
    BY <1>1, <1>4, <2>1 DEF Creating
<1>p. \A j \in Items :
        /\ s1.kind[j] = IF j = new THEN kind ELSE s.kind[j]
        /\ s1.own[j] = IF j = new THEN cut ELSE s.own[j]
  <2> HIDE DEF s1
  <2>1. QED
    BY <1>1, <1>5 DEF Shaped
<1>6. u = Split2(s1, r, pos, new)
  BY DEF Split, Applied, s1, cut, src, end
<1> HIDE DEF s1, u
<1>7. s1.own[r] = src /\ s1.own[new] = cut
  BY <1>1, <1>5 DEF Shaped
<1>8. CASE pos = 0 /\ end = size
  <2>1. u = Replaced(s1, r, new)
    BY Zenon, <1>2, <1>3, <1>6, <1>7, <1>8 DEF Split2, right
  <2>2. /\ Shaped(s1) /\ Once(s1.kids)
        /\ k \in 1 .. Len(s1.kids[p]) /\ r = s1.kids[p][k]
        /\ s1.kids[r] = <<>>
    BY <1>1, <1>5 DEF Whole, Owned
  <2>3. Range(s1.kids[r]) = {}
    BY <2>2 DEF Range
  <2>4. Replacing(s1, u, p, k, r, new, {r})
    <3>1. {r} = {r} \union Range(s1.kids[r]) /\ new \notin {r} /\ new \in Items
      BY <1>5, <2>3
    <3>2. \A c \in Range(s1.kids[r]) : s1.kids[c] = <<>>
      BY <2>3
    <3> DEFINE gone == {r}
    <3>3. gone = {r} \union Range(s1.kids[r]) /\ new \notin gone
      BY <3>1
    <3> HIDE DEF gone
    <3>4. Replacing(s1, Replaced(s1, r, new), p, k, r, new, gone)
      BY <2>2, <3>1, <3>2, <3>3, ReplacedFields
    <3>5. QED
      BY <2>1, <3>4 DEF gone
  <2> DEFINE f == MaxItems + 1
             seq == PiecesOf(r, pos, end, size, new, f)
  <2>5. f \in Nat /\ f # r /\ f # new
    BY <1>1, <1>5, ItemTreeAssumption DEF Items
  <2> HIDE DEF f
  <2>6. Pieces(seq, size)
    <3>1. seq = PiecesOf(r, pos, end, size, new, f)
      OBVIOUS
    <3> HIDE DEF seq, end, size
    <3>2. end > 0 /\ pos = 0 /\ pos <= end /\ end <= size
          /\ end \in Nat /\ size \in Nat /\ pos \in Nat
      BY <1>1, <1>8
    <3>3. r \in Items /\ new \in Items /\ new # r /\ f # r /\ new # f
      BY <1>1, <1>5, <2>5
    <3>4. QED
      BY <3>1, <3>2, <3>3, PiecesOfIs
  <2>7. seq = << <<new, size>> >>
    BY <1>8 DEF PiecesOf
  <2> HIDE DEF seq
  <2>8. /\ Len(seq) = 1 /\ seq[1][1] = new /\ seq[1][2] = size
        /\ \A m \in 1 .. Len(seq) : m = 1
        /\ 1 \in 1 .. Len(seq) /\ StartOf(seq, 1) = 0
    BY <2>7 DEF StartOf
  <2>9. PieceItems(seq) = <<new>>
    BY <2>7 DEF PieceItems
  <2>10. ASSUME NEW j \in Lists
         PROVE  u.kids[j] = IF j = p THEN Spliced(s.kids[p], k, PieceItems(seq))
                            ELSE s.kids[j]
    <3>1. u.kids[j] = IF j \in {r} THEN <<>>
                      ELSE IF j = p THEN Spliced(s1.kids[p], k, <<new>>)
                      ELSE s1.kids[j]
      BY <2>4 DEF Replacing
    <3>2. p # r
      BY <1>1
    <3>3. QED
      BY <1>1, <1>5, <2>9, <3>1, <3>2
  <2>11. ASSUME NEW j \in Items
         PROVE  /\ u.kind[j] = IF j = r THEN "free"
                               ELSE IF j = new THEN kind ELSE s.kind[j]
                /\ j = new => u.own[j] = cut /\ u.position[j] = s.position[r]
                /\ j # r /\ j # new => /\ u.own[j] = s.own[j]
                                       /\ u.position[j] = s.position[j]
    <3>1. /\ u.kind[j] = IF j \in {r} THEN "free" ELSE s1.kind[j]
          /\ u.own[j] = IF j \in {r} THEN <<>> ELSE s1.own[j]
          /\ u.position[j] = IF j \in {r} THEN 0
                             ELSE IF j = new THEN s1.position[r]
                             ELSE s1.position[j]
      BY <2>4 DEF Replacing
    <3>2. QED
      BY Zenon, <1>1, <1>5, <3>1 DEF Shaped
  <2>12. Relabelling(s, u, r, seq)
    <3>1. u.label = [n \in Names |->
            IF n \in LabelsOf(s1, r) THEN [s1.label[n] EXCEPT !.item = new]
            ELSE s1.label[n]]
      BY <2>4 DEF Replacing
    <3>2. LabelsOf(s1, r) = LabelsOf(s, r)
      BY <1>5 DEF LabelsOf
    <3>3. DOMAIN u.label = Names /\ u.label = [n \in Names |-> u.label[n]]
      BY <3>1
    <3>4. ASSUME NEW n \in Names, n \in LabelsOf(s, r)
          PROVE  Shifting(s.label[n], u.label[n], seq)
      <4>1. s.label[n] \in Pointers /\ s.label[n].offset < size
        BY <1>1, <3>4 DEF Shaped, LabelsOf, Cuttable
      <4>2. u.label[n] = [s.label[n] EXCEPT !.item = new]
        BY <1>5, <3>1, <3>2, <3>4
      <4>3. u.label[n] = [item |-> new, offset |-> s.label[n].offset]
        BY <4>1, <4>2 DEF Pointers
      <4>4. s.label[n].offset \in Nat
        BY <4>1 DEF Pointers
      <4>5. s.label[n].offset - 0 = s.label[n].offset
        BY <4>4
      <4>6. Holds(seq, 1, s.label[n].offset)
        BY <2>8, <4>1 DEF Holds
      <4>7. \A j \in 1 .. Len(seq) : ~(j < 1)
        BY <2>8
      <4>8. StartOf(seq, 1) <= s.label[n].offset
        BY <2>8, <4>4
      <4>9. u.label[n] = [item |-> seq[1][1],
                          offset |-> s.label[n].offset - StartOf(seq, 1)]
        BY <2>8, <4>3, <4>5
      <4>10. QED
        BY <2>8, <4>6, <4>7, <4>8, <4>9 DEF Shifting
    <3>5. ASSUME NEW n \in Names, n \notin LabelsOf(s, r)
          PROVE  u.label[n] = s.label[n]
      BY <1>5, <3>1, <3>2, <3>5
    <3>6. QED
      BY <3>3, <3>4, <3>5 DEF Relabelling
  <2>13. Remapping(s, u, r, seq)
    <3>1. /\ DOMAIN u.pmap = {q \in DOMAIN s1.pmap : s1.pmap[q] \notin {r} \ {r}}
          /\ \A q \in DOMAIN u.pmap :
               u.pmap[q] = IF s1.pmap[q] = r THEN new ELSE s1.pmap[q]
      BY <2>4 DEF Replacing
    <3>2. DOMAIN u.pmap = DOMAIN s.pmap
      BY <1>5, <3>1
    <3>3. ASSUME NEW q \in DOMAIN s.pmap, s.pmap[q] = r
          PROVE  First(seq, s.position[r], q, 1)
      <4>1. s.position[r] = q
        BY <1>1, <3>3 DEF Shaped
      <4>2. \A l \in 1 .. Len(seq) : ~(l < 1)
        OBVIOUS
      <4>3. s.position[r] + StartOf(seq, 1) = q
        BY <1>1, <2>8, <4>1
      <4>4. QED
        BY <2>8, <4>2, <4>3 DEF First
    <3>4. \A q \in DOMAIN u.pmap :
            u.pmap[q] = IF s.pmap[q] = r THEN new ELSE s.pmap[q]
      BY <1>5, <3>1
    <3>5. ~(Len(seq) > 1)
      BY <2>8
    <3>6. ASSUME NEW q \in DOMAIN u.pmap, ~(q \in DOMAIN s.pmap /\ s.pmap[q] # r)
          PROVE  \E m \in 1 .. Len(seq) :
                   First(seq, s.position[r], q, m) /\ u.pmap[q] = seq[m][1]
      <4>1. q \in DOMAIN s.pmap /\ s.pmap[q] = r /\ u.pmap[q] = new
        BY <3>2, <3>4, <3>6
      <4>2. First(seq, s.position[r], q, 1) /\ u.pmap[q] = seq[1][1]
        BY <2>8, <3>3, <4>1
      <4>3. QED
        BY <2>8, <4>2
    <3>7. QED
      BY <3>2, <3>4, <3>5, <3>6 DEF Remapping
  <2>14. Fields \subseteq DOMAIN u /\ Typed(u)
    BY <1>5, <2>2, <2>4 DEF Replacing, Shaped
  <2>15. ASSUME NEW m \in 1 .. Len(seq)
         PROVE  /\ seq[m][1] = r \/ s.kind[seq[m][1]] = "free"
                /\ u.kind[seq[m][1]] = IF seq[m][1] = new THEN kind ELSE "raw"
                /\ Len(u.own[seq[m][1]]) = seq[m][2] - StartOf(seq, m)
                /\ Excerpt(u.own[seq[m][1]], src, StartOf(seq, m))
                /\ u.position[seq[m][1]] = s.position[r] + StartOf(seq, m)
    <3>1. m = 1
      BY <2>8
    <3>2. Len(cut) = size - 0 /\ s.position[r] + 0 = s.position[r]
      BY <1>1, <1>2, <1>8, SMTT(30)
    <3>3. u.kind[new] = kind /\ u.own[new] = cut /\ u.position[new] = s.position[r]
      BY <1>5, <2>11
    <3>4. Excerpt(u.own[new], src, 0)
      BY <1>2, <1>8, <3>3
    <3>5. QED
      BY <1>5, <2>8, <3>1, <3>2, <3>3, <3>4
  <2>16. ASSUME NEW j \in Items, \A m \in 1 .. Len(seq) : seq[m][1] # j
         PROVE  IF j = r THEN u.kind[j] = "free"
                ELSE /\ u.kind[j] = s.kind[j] /\ u.own[j] = s.own[j]
                     /\ u.position[j] = s.position[j]
    BY <2>8, <2>11, <2>16
  <2>17. Cutting(s, u, p, k, r, seq, new, kind)
    BY <2>6, <2>8, <2>10, <2>12, <2>13, <2>14, <2>15, <2>16 DEF Cutting, size, src
  <2>18. QED
    BY Zenon, <2>5, <2>17 DEF seq, u, end, size, src
<1>9. CASE ~(pos = 0 /\ end = size)
  <2> DEFINE both == pos # 0 /\ end # size
             f == IF both THEN Fresh(s1) ELSE MaxItems + 1
             s2 == IF both THEN Create(s1, "raw", right) ELSE s1
             seq == PiecesOf(r, pos, end, size, new, f)
             v == Sliced(s2, r, seq)
             rest == IF pos = 0 THEN right ELSE SubSeq(src, 1, pos)
  <2>1. both => Creating(s1, s2, f, {new}, "raw", right)
    <3>1. ASSUME both PROVE Creating(s1, s2, f, {new}, "raw", right)
      <4>1. Free(s1) # {}
        BY <1>5, <3>1 DEF Cuttable, size, src, end
      <4>2. QED
        BY <1>3, <1>5, <3>1, <4>1, Created
    <3>2. QED
      BY <3>1
  <2>2. u = [v EXCEPT !.own[r] = rest]
    <3> DEFINE model ==
               IF pos = 0 THEN << <<new, end>>, <<r, Len(src)>> >>
               ELSE IF right = <<>> THEN << <<r, pos>>, <<new, end>> >>
               ELSE << <<r, pos>>, <<new, end>>, <<Fresh(s1), Len(src)>> >>
    <3>1. model = seq
      <4> HIDE DEF src, end
      <4>1. CASE pos = 0
        BY <1>3, <1>9, <4>1 DEF PiecesOf
      <4>2. CASE pos # 0 /\ end = size
        BY <1>3, <4>2 DEF PiecesOf
      <4>3. CASE pos # 0 /\ end # size
        BY Zenon, <1>3, <4>3 DEF PiecesOf
      <4>4. QED
        BY <4>1, <4>2, <4>3
    <3>2. u = [Sliced(IF pos # 0 /\ right # <<>> THEN Create(s1, "raw", right)
                      ELSE s1, r, model)
                 EXCEPT !.own[r] = rest]
      <4>1. end = pos + Len(s1.own[new])
        BY <1>2, <1>7
      <4>2. ~(pos = 0 /\ right = <<>>)
        BY <1>3, <1>9
      <4> HIDE DEF end
      <4>3. QED
        BY ZenonT(30), <1>6, <1>7, <4>1, <4>2 DEF Split2, right, size
    <3> HIDE DEF model
    <3>3. QED
      BY Zenon, <1>3, <3>1, <3>2
  <2>3. /\ Shaped(s2) /\ Once(s2.kids)
        /\ s2.kids = s.kids /\ s2.position = s.position
        /\ s2.pmap = s.pmap /\ s2.label = s.label
        /\ f \in Nat /\ f # r /\ f # new
        /\ both => f \in Items /\ s.kind[f] = "free"
        /\ \A j \in Items :
             s2.kind[j] = IF j = new THEN kind
                          ELSE IF both /\ j = f THEN "raw" ELSE s.kind[j]
        /\ \A j \in Items :
             s2.own[j] = IF j = new THEN cut
                         ELSE IF both /\ j = f THEN right ELSE s.own[j]
    <3>1. CASE both
      <4>1. /\ f \in Items /\ s1.kind[f] = "free" /\ f # new
            /\ s2.kind = [s1.kind EXCEPT ![f] = "raw"]
            /\ s2.own = [s1.own EXCEPT ![f] = right]
            /\ s2.kids = s1.kids /\ s2.position = s1.position
            /\ s2.pmap = s1.pmap /\ s2.label = s1.label
            /\ Whole(s2, {new} \union {f})
        <5> HIDE DEF both, f, s2
        <5>1. QED
          BY <2>1, <3>1 DEF Creating
      <4> HIDE DEF both, f, s2
      <4>2. Shaped(s2) /\ Once(s2.kids) /\ Shaped(s1)
        BY <1>5, <4>1 DEF Whole, Owned
      <4>3. s.kind[f] = "free" /\ f # r
        BY <1>1, <1>p, <4>1
      <4>4. f \in Nat
        BY <4>1 DEF Items
      <4>5. \A j \in Items :
              /\ s2.kind[j] = IF j = f THEN "raw" ELSE s1.kind[j]
              /\ s2.own[j] = IF j = f THEN right ELSE s1.own[j]
        BY <4>1, <4>2 DEF Shaped
      <4>6. \A j \in Items :
              /\ s2.kind[j] = IF j = new THEN kind
                             ELSE IF both /\ j = f THEN "raw" ELSE s.kind[j]
              /\ s2.own[j] = IF j = new THEN cut
                            ELSE IF both /\ j = f THEN right ELSE s.own[j]
        BY <1>p, <3>1, <4>1, <4>5
      <4>7. QED
        BY <1>5, <4>1, <4>2, <4>3, <4>4, <4>6
    <3>2. CASE ~both
      <4>1. s2 = s1 /\ f = MaxItems + 1
        BY <3>2
      <4> HIDE DEF both, f, s2
      <4>2. f \in Nat /\ f # r /\ f # new
        BY <1>1, <1>5, <4>1, ItemTreeAssumption, SMTT(30) DEF Items
      <4>3. Shaped(s1) /\ Once(s1.kids)
        BY <1>5 DEF Whole, Owned
      <4>4. QED
        BY <1>p, <1>5, <3>2, <4>1, <4>2, <4>3
    <3>3. QED
      BY <3>1, <3>2
  <2>4. Pieces(seq, size)
    <3>1. seq = PiecesOf(r, pos, end, size, new, f)
      BY Zenon
    <3>2. pos = 0 \/ end = size \/ f \in Items
      BY Zenon, <2>3
    <3> HIDE DEF seq, end, size, f, both
    <3>3. QED
      BY <1>1, <1>5, <2>3, <3>1, <3>2, PiecesOfIs
  <2>r. /\ rest \in Seq(Nat)
        /\ pos # 0 => Len(rest) = pos - 0 /\ Excerpt(rest, src, 0)
    <3>0. Excerpt(SubSeq(src, 1, pos), src, 0)
      <4> HIDE DEF src
      <4>1. pos <= Len(src) /\ 0 \in Nat /\ 0 <= pos
        BY <1>1
      <4>2. Excerpt(SubSeq(src, 0 + 1, pos), src, 0)
        BY <1>1, <4>1, ExcerptIs
      <4>3. QED
        BY <4>2
    <3>1. SubSeq(src, 1, pos) \in Seq(Nat) /\ Len(SubSeq(src, 1, pos)) = pos
      <4> HIDE DEF src
      <4>1. size \in Nat /\ pos <= size /\ pos \in Nat /\ src \in Seq(Nat)
        BY <1>1
      <4>2. QED
        BY <4>1
    <3>2. pos - 0 = pos
      BY <1>1
    <3>3. CASE pos = 0
      BY <1>3, <3>3
    <3>4. CASE pos # 0
      BY <3>0, <3>1, <3>2, <3>4
    <3>5. QED
      BY <3>3, <3>4
  <2>5. /\ Len(seq) > 1
        /\ \E m \in 1 .. Len(seq) : seq[m][1] = new
        /\ \E m \in 1 .. Len(seq) : seq[m][1] = r
        /\ \A m \in 1 .. Len(seq) :
             \/ /\ seq[m][1] = new
                /\ seq[m][2] = end /\ StartOf(seq, m) = pos
             \/ /\ seq[m][1] = r
                /\ Len(rest) = seq[m][2] - StartOf(seq, m)
                /\ Excerpt(rest, src, StartOf(seq, m))
             \/ /\ both /\ seq[m][1] = f
                /\ seq[m][2] = size /\ StartOf(seq, m) = end
    <3>1. seq = PiecesOf(r, pos, end, size, new, f)
      OBVIOUS
    <3>2. rest = IF pos = 0 THEN right ELSE SubSeq(src, 1, pos)
      OBVIOUS
    <3> HIDE DEF seq, rest, f
    <3>3. CASE pos = 0
      <4>1. seq = << <<new, end>>, <<r, size>> >>
        BY <1>9, <3>1, <3>3 DEF PiecesOf
      <4>2. /\ Len(seq) = 2 /\ seq[1][1] = new /\ seq[1][2] = end
            /\ seq[2][1] = r /\ seq[2][2] = size
        BY <4>1
      <4>3. \A m \in 1 .. Len(seq) : m = 1 \/ m = 2
        BY <4>2
      <4>4. StartOf(seq, 1) = 0 /\ StartOf(seq, 2) = end
        BY <4>2 DEF StartOf
      <4>5. Len(rest) = size - end /\ Excerpt(rest, src, end)
        BY <1>3, <3>2, <3>3
      <4>6. 1 \in 1 .. Len(seq) /\ 2 \in 1 .. Len(seq)
        BY <4>2
      <4> HIDE DEF end, size
      <4>7. QED
        BY <3>3, <4>2, <4>3, <4>4, <4>5, <4>6
    <3>4. CASE pos # 0 /\ end = size
      <4>1. seq = << <<r, pos>>, <<new, end>> >>
        BY <3>1, <3>4 DEF PiecesOf
      <4>2. /\ Len(seq) = 2 /\ seq[1][1] = r /\ seq[1][2] = pos
            /\ seq[2][1] = new /\ seq[2][2] = end
        BY <4>1
      <4>3. \A m \in 1 .. Len(seq) : m = 1 \/ m = 2
        BY <4>2
      <4>4. StartOf(seq, 1) = 0 /\ StartOf(seq, 2) = pos
        BY <4>2 DEF StartOf
      <4>5. Len(rest) = pos - 0 /\ Excerpt(rest, src, 0)
        BY <2>r, <3>4
      <4>6. 1 \in 1 .. Len(seq) /\ 2 \in 1 .. Len(seq)
        BY <4>2
      <4> HIDE DEF end, size
      <4>7. QED
        BY <3>4, <4>2, <4>3, <4>4, <4>5, <4>6
    <3>5. CASE pos # 0 /\ end # size
      <4>1. seq = << <<r, pos>>, <<new, end>>, <<f, size>> >>
        BY <3>1, <3>5 DEF PiecesOf
      <4>2. /\ Len(seq) = 3 /\ seq[1][1] = r /\ seq[1][2] = pos
            /\ seq[2][1] = new /\ seq[2][2] = end
            /\ seq[3][1] = f /\ seq[3][2] = size
        BY <4>1
      <4>3. \A m \in 1 .. Len(seq) : m = 1 \/ m = 2 \/ m = 3
        BY <4>2
      <4>4. StartOf(seq, 1) = 0 /\ StartOf(seq, 2) = pos /\ StartOf(seq, 3) = end
        BY <4>2 DEF StartOf
      <4>5. Len(rest) = pos - 0 /\ Excerpt(rest, src, 0)
        BY <2>r, <3>5
      <4>6. 1 \in 1 .. Len(seq) /\ 2 \in 1 .. Len(seq) /\ both
        BY <3>5, <4>2
      <4> HIDE DEF end, size, both
      <4>7. QED
        BY <3>5, <4>2, <4>3, <4>4, <4>5, <4>6
    <3>6. QED
      BY <3>3, <3>4, <3>5
  <2>6. Slicing(s2, v, p, k, r, seq)
    <3>1. v = Sliced(s2, r, seq)
      OBVIOUS
    <3>2. LabelsOf(s2, r) = LabelsOf(s, r)
      BY ZenonT(30), <2>3 DEF LabelsOf
    <3>3. \A n \in LabelsOf(s2, r) : s2.label[n].offset < size
      BY Zenon, <2>3, <3>2 DEF Cuttable, size, src
    <3> HIDE DEF v, s2, seq, size
    <3>4. QED
      BY Zenon, <1>1, <2>3, <2>4, <3>1, <3>3, SlicedFields
  <2>7. /\ Fields \subseteq DOMAIN v /\ Typed(v)
        /\ DOMAIN u = DOMAIN v /\ u.own = [v.own EXCEPT ![r] = rest]
        /\ u.kids = v.kids /\ u.kind = v.kind /\ u.position = v.position
        /\ u.pmap = v.pmap /\ u.label = v.label
    <3> HIDE DEF v, rest, s2, seq
    <3>1. Fields \subseteq DOMAIN v /\ Typed(v)
      BY <2>6 DEF Slicing, Typed
    <3>2. QED
      BY <2>2, <3>1 DEF Fields
  <2> HIDE DEF f, s2, seq, v, rest
  <2>8. Fields \subseteq DOMAIN u /\ Typed(u)
    <3>1. u.own \in [Items -> Seq(Nat)]
      BY <1>1, <2>r, <2>7 DEF Typed
    <3>2. QED
      BY <2>7, <3>1 DEF Typed
  <2>9. \A j \in Lists : u.kids[j] =
          IF j = p THEN Spliced(s.kids[p], k, PieceItems(seq)) ELSE s.kids[j]
    BY <2>3, <2>6, <2>7 DEF Slicing
  <2>10. \A j \in Items :
           /\ u.kind[j] = IF j = new THEN kind
                          ELSE IF both /\ j = f THEN "raw" ELSE s.kind[j]
           /\ u.own[j] = IF j = r THEN rest
                         ELSE IF j = new THEN cut
                         ELSE IF both /\ j = f THEN right ELSE s.own[j]
    <3>1. v.kind = s2.kind /\ v.own = s2.own
      BY <2>6 DEF Slicing
    <3>2. \A j \in Items : u.own[j] = IF j = r THEN rest ELSE s2.own[j]
      BY <1>1, <2>7, <3>1 DEF Typed
    <3>3. QED
      BY <2>3, <2>7, <3>1, <3>2
  <2>11. ASSUME NEW m \in 1 .. Len(seq)
         PROVE  /\ seq[m][1] = r \/ s.kind[seq[m][1]] = "free"
                /\ u.kind[seq[m][1]] = IF seq[m][1] = new THEN kind ELSE "raw"
                /\ Len(u.own[seq[m][1]]) = seq[m][2] - StartOf(seq, m)
                /\ Excerpt(u.own[seq[m][1]], src, StartOf(seq, m))
                /\ u.position[seq[m][1]] = s.position[r] + StartOf(seq, m)
    <3>1. u.position[seq[m][1]] = s.position[r] + StartOf(seq, m)
      BY <2>3, <2>6, <2>7 DEF Slicing
    <3>2. CASE /\ seq[m][1] = new
               /\ seq[m][2] = end /\ StartOf(seq, m) = pos
      <4>1. Len(cut) = end - pos
        BY <1>1, <1>2
      <4>2. u.own[new] = cut /\ u.kind[new] = kind
        BY <1>5, <2>10
      <4>3. QED
        BY <1>2, <1>5, <3>1, <3>2, <4>1, <4>2
    <3>3. CASE /\ seq[m][1] = r
               /\ Len(rest) = seq[m][2] - StartOf(seq, m)
               /\ Excerpt(rest, src, StartOf(seq, m))
      <4>1. u.own[r] = rest /\ u.kind[r] = "raw" /\ r # new
        BY <1>1, <1>5, <2>3, <2>10
      <4>2. QED
        BY <3>1, <3>3, <4>1
    <3>4. CASE /\ both /\ seq[m][1] = f
               /\ seq[m][2] = size /\ StartOf(seq, m) = end
      <4>1. u.own[f] = right /\ u.kind[f] = "raw" /\ f # new
            /\ s.kind[f] = "free"
        BY <2>3, <2>10, <3>4
      <4>2. QED
        BY <1>3, <3>1, <3>4, <4>1
    <3> HIDE DEF both, end, size
    <3>5. QED
      BY <2>5, <3>2, <3>3, <3>4
  <2>12. ASSUME NEW j \in Items, \A m \in 1 .. Len(seq) : seq[m][1] # j
         PROVE  IF j = r THEN u.kind[j] = "free"
                ELSE /\ u.kind[j] = s.kind[j] /\ u.own[j] = s.own[j]
                     /\ u.position[j] = s.position[j]
    <3>1. j # r /\ j # new
      BY <2>5, <2>12
    <3>2. v.position[j] = s2.position[j]
      BY <2>6, <2>12 DEF Slicing
    <3>3. ASSUME both, j = f PROVE FALSE
      <4>1. seq = << <<r, pos>>, <<new, end>>, <<f, size>> >>
        BY <3>3 DEF PiecesOf, seq
      <4>2. Len(seq) = 3 /\ seq[3][1] = f
        BY <4>1
      <4>3. 3 \in 1 .. Len(seq)
        BY <4>2
      <4>4. QED
        BY <2>12, <3>3, <4>2, <4>3
    <3> HIDE DEF both
    <3>4. QED
      BY <2>3, <2>7, <2>10, <3>1, <3>2, <3>3
  <2>13. Relabelling(s, u, r, seq)
    <3>1. Relabelling(s2, v, r, seq) /\ LabelsOf(s2, r) = LabelsOf(s, r)
      BY <2>3, <2>6 DEF Slicing, LabelsOf
    <3>2. QED
      BY <2>3, <2>7, <3>1 DEF Relabelling
  <2>14. Remapping(s, u, r, seq)
    <3>1. Remapping(s2, v, r, seq)
      BY <2>6 DEF Slicing
    <3>2. QED
      BY <2>3, <2>7, <3>1 DEF Remapping
  <2>15. Cutting(s, u, p, k, r, seq, new, kind)
    <3>1. Pieces(seq, Len(s.own[r])) /\ \E m \in 1 .. Len(seq) : seq[m][1] = new
      BY <2>4, <2>5 DEF size, src
    <3>2. QED
      BY <2>8, <2>9, <2>11, <2>12, <2>13, <2>14, <3>1 DEF Cutting
  <2>16. QED
    BY <2>3, <2>15 DEF seq, u, end, size, src
<1>10. QED
  BY <1>8, <1>9
-----------------------------------------------------------------------------
(* The lists, labels and pointer map of a split tree *)

EndOf(s, r) == s.position[r] + Len(s.own[r])

(* u is s when r was cut, the k-th child of p. *)
CutFrom(s, u, p, k, r, seq, new, kind) ==
  /\ Whole(s, {}) /\ r \in Items /\ s.kind[r] = "raw" /\ s.position[r] \in Nat
  /\ p \in Lists /\ k \in 1 .. Len(s.kids[p]) /\ r = s.kids[p][k]
  /\ EndOf(s, r) <= Size /\ kind # "free"
  /\ Cutting(s, u, p, k, r, seq, new, kind)

(* The pieces are in the list r was in, and nothing else changes place.      *)
LEMMA CutLists ==
  ASSUME NEW s, NEW u, NEW p, NEW k, NEW r, NEW seq, NEW new, NEW kind,
         CutFrom(s, u, p, k, r, seq, new, kind)
  PROVE  /\ u.kids \in [Lists -> Seq(Items)] /\ Once(u.kids)
         /\ DOMAIN seq = 1 .. Len(seq) /\ Len(seq) \in Nat /\ Len(seq) > 0
         /\ \A m \in 1 .. Len(seq) :
              /\ seq[m][1] \in Items /\ seq[m][2] \in Nat
              /\ StartOf(seq, m) \in Nat /\ StartOf(seq, m) <= seq[m][2]
         /\ \A j \in Items :
              Listed(u.kids, j) <=> \/ Listed(s.kids, j) /\ j # r
                                    \/ \E m \in 1 .. Len(seq) : seq[m][1] = j
<1> DEFINE items == PieceItems(seq)
<1>1. /\ Shaped(s) /\ Owned(s, {}) /\ Once(s.kids)
      /\ s.kids \in [Lists -> Seq(Items)]
      /\ p \in Lists /\ k \in 1 .. Len(s.kids[p]) /\ r = s.kids[p][k]
      /\ Cutting(s, u, p, k, r, seq, new, kind)
      /\ Pieces(seq, Len(s.own[r])) /\ Typed(u)
  BY DEF CutFrom, Whole, Owned, Shaped, Cutting
<1>2. /\ DOMAIN seq = 1 .. Len(seq) /\ Len(seq) \in Nat /\ Len(seq) > 0
      /\ \A m \in 1 .. Len(seq) :
           /\ seq[m][1] \in Items /\ seq[m][2] \in Nat
           /\ StartOf(seq, m) \in Nat /\ StartOf(seq, m) <= seq[m][2]
  <2>1. seq \in Seq(Items \X Nat) /\ Len(seq) > 0
    BY <1>1 DEF Pieces
  <2>2. \A m \in 1 .. Len(seq) : seq[m][1] \in Items /\ seq[m][2] \in Nat
    BY <2>1
  <2>3. \A m \in 1 .. Len(seq) : StartOf(seq, m) \in Nat
    BY <2>1, <2>2 DEF StartOf
  <2>4. \A m \in 1 .. Len(seq) : StartOf(seq, m) <= seq[m][2]
    BY <1>1 DEF Pieces
  <2>5. QED
    BY <2>1, <2>2, <2>3, <2>4
<1>3. /\ items \in Seq(Items) /\ Len(items) = Len(seq)
      /\ \A m \in 1 .. Len(seq) : items[m] = seq[m][1]
  BY <1>2 DEF PieceItems
<1> HIDE DEF items
<1>4. \A m \in 1 .. Len(seq) :
        items[m] = s.kids[p][k] \/ ~ Listed(s.kids, items[m])
  <2> SUFFICES ASSUME NEW m \in 1 .. Len(seq)
        PROVE items[m] = s.kids[p][k] \/ ~ Listed(s.kids, items[m])
    OBVIOUS
  <2>1. seq[m][1] = r \/ s.kind[seq[m][1]] = "free"
    BY <1>1 DEF Cutting
  <2>2. QED
    BY <1>1, <1>2, <1>3, <2>1 DEF Owned
<1>5. Distinct(items)
  BY <1>1, <1>2, <1>3 DEF Distinct, Pieces
<1>6. u.kids \in [Lists -> Seq(Items)]
  BY <1>1 DEF Typed
<1>7. \A j \in Lists :
        u.kids[j] = IF j = p THEN Spliced(s.kids[p], k, items) ELSE s.kids[j]
  BY <1>1 DEF Cutting, items
<1>8. Exchanging(s.kids, u.kids, p, k, items)
  BY <1>3, <1>4, <1>5, <1>6, <1>7 DEF Exchanging
<1>9. Exchanged(s.kids, u.kids, r, items)
  BY <1>1, <1>8, Exchange
<1>10. QED
  BY ZenonT(30), <1>2, <1>3, <1>6, <1>9 DEF Exchanged

(* A raw item is split: the tree is still whole.                             *)
LEMMA CutWhole ==
  ASSUME NEW s, NEW u, NEW p, NEW k, NEW r, NEW seq, NEW new, NEW kind,
         CutFrom(s, u, p, k, r, seq, new, kind)
  PROVE  Whole(u, {})
<1>1. /\ Shaped(s) /\ Owned(s, {}) /\ Once(s.kids)
      /\ s.kids \in [Lists -> Seq(Items)]
      /\ p \in Lists /\ k \in 1 .. Len(s.kids[p]) /\ r = s.kids[p][k]
      /\ r \in Items /\ s.kind[r] = "raw" /\ s.kids[r] = <<>> /\ kind # "free"
      /\ Cutting(s, u, p, k, r, seq, new, kind)
      /\ Typed(u) /\ Fields \subseteq DOMAIN u
      /\ Relabelling(s, u, r, seq) /\ Remapping(s, u, r, seq)
  BY DEF CutFrom, Whole, Owned, Shaped, Cutting, Childless
<1>2. /\ u.kids \in [Lists -> Seq(Items)] /\ Once(u.kids)
      /\ \A m \in 1 .. Len(seq) :
           seq[m][1] \in Items /\ StartOf(seq, m) \in Nat
      /\ \A j \in Items :
           Listed(u.kids, j) <=> \/ Listed(s.kids, j) /\ j # r
                                 \/ \E m \in 1 .. Len(seq) : seq[m][1] = j
  <2>1. /\ u.kids \in [Lists -> Seq(Items)] /\ Once(u.kids)
        /\ \A m \in 1 .. Len(seq) :
              /\ seq[m][1] \in Items /\ seq[m][2] \in Nat
              /\ StartOf(seq, m) \in Nat /\ StartOf(seq, m) <= seq[m][2]
        /\ \A j \in Items :
           Listed(u.kids, j) <=> \/ Listed(s.kids, j) /\ j # r
                                 \/ \E m \in 1 .. Len(seq) : seq[m][1] = j
    BY CutLists
  <2>2. QED
    BY <2>1
<1>3. \A m \in 1 .. Len(seq) :
        /\ seq[m][1] = r \/ s.kind[seq[m][1]] = "free"
        /\ u.kind[seq[m][1]] # "free"
        /\ u.position[seq[m][1]] = s.position[r] + StartOf(seq, m)
  BY <1>1 DEF Cutting
<1>4. \A j \in Items : (\A m \in 1 .. Len(seq) : seq[m][1] # j) =>
        IF j = r THEN u.kind[j] = "free"
        ELSE u.kind[j] = s.kind[j] /\ u.position[j] = s.position[j]
  BY <1>1 DEF Cutting
<1>5. ASSUME NEW j \in Items
      PROVE  /\ Listed(u.kids, j) <=> u.kind[j] # "free"
             /\ u.kind[j] \in Childless => u.kids[j] = <<>>
  <2>1. j \in Lists /\ (j # p => u.kids[j] = s.kids[j])
    BY <1>1 DEF Lists, Cutting
  <2>2. ASSUME s.kids[j] = <<>> PROVE u.kids[j] = <<>>
    <3>1. j # p
      BY <1>1, <2>2
    <3>2. QED
      BY <2>1, <2>2, <3>1
  <2>3. Listed(s.kids, j) <=> s.kind[j] # "free"
    BY <1>1 DEF Owned
  <2>4. s.kind[j] \in Childless => s.kids[j] = <<>>
    BY <1>1 DEF Owned
  <2>5. ASSUME NEW m \in 1 .. Len(seq), seq[m][1] = j
        PROVE  s.kind[j] \in Childless
    BY <1>1, <1>3, <2>5 DEF Childless
  <2>6. CASE \E m \in 1 .. Len(seq) : seq[m][1] = j
    <3>1. PICK m \in 1 .. Len(seq) : seq[m][1] = j
      BY <2>6
    <3>2. Listed(u.kids, j) /\ u.kind[j] # "free" /\ s.kind[j] \in Childless
      BY <1>2, <1>3, <2>5, <3>1
    <3>3. QED
      BY <2>2, <2>4, <3>2
  <2>7. CASE \A m \in 1 .. Len(seq) : seq[m][1] # j
    <3>1. /\ Listed(u.kids, j) <=> Listed(s.kids, j) /\ j # r
          /\ u.kind[j] = IF j = r THEN "free" ELSE s.kind[j]
      BY <1>2, <1>4, <2>7
    <3>2. s.kind[r] \in Childless
      BY <1>1 DEF Childless
    <3>3. QED
      BY <2>2, <2>3, <2>4, <3>1, <3>2
  <2>8. QED
    BY <2>6, <2>7
<1>6. ASSUME NEW n \in Names
      PROVE  /\ u.label[n] \in Pointers \union {Unset}
             /\ u.label[n] # Unset => Listed(u.kids, u.label[n].item)
  <2>1. s.label[n] \in Pointers \union {Unset}
    BY <1>1 DEF Shaped
  <2>2. CASE n \in LabelsOf(s, r)
    <3>1. Shifting(s.label[n], u.label[n], seq)
      BY <1>1, <2>2 DEF Relabelling
    <3>2. PICK m \in 1 .. Len(seq) :
            /\ u.label[n] = [item |-> seq[m][1],
                             offset |-> s.label[n].offset - StartOf(seq, m)]
            /\ StartOf(seq, m) <= s.label[n].offset
      BY <3>1 DEF Shifting
    <3>3. s.label[n].offset \in Nat
      BY <2>1, <2>2 DEF LabelsOf, Pointers
    <3>4. s.label[n].offset - StartOf(seq, m) \in Nat /\ seq[m][1] \in Items
      BY <1>2, <3>2, <3>3
    <3>5. QED
      BY <1>2, <3>2, <3>4 DEF Pointers
  <2>3. CASE n \notin LabelsOf(s, r)
    <3>1. u.label[n] = s.label[n]
      BY <1>1, <2>3 DEF Relabelling
    <3>2. s.label[n] # Unset => /\ s.label[n].item # r
                                /\ s.label[n].item \in Items
                                /\ Listed(s.kids, s.label[n].item)
      BY <1>1, <2>1, <2>3 DEF LabelsOf, Owned, Pointers
    <3>3. QED
      BY <1>2, <2>1, <3>1, <3>2
  <2>4. QED
    BY <2>2, <2>3
<1>7. ASSUME NEW q \in DOMAIN u.pmap
      PROVE  /\ u.pmap[q] \in Items /\ u.position[u.pmap[q]] = q
             /\ Listed(u.kids, u.pmap[q])
  <2>1. CASE q \in DOMAIN s.pmap /\ s.pmap[q] # r
    <3>1. u.pmap[q] = s.pmap[q]
      BY <1>1, <2>1 DEF Remapping
    <3>2. /\ s.pmap[q] \in Items /\ s.position[s.pmap[q]] = q
          /\ Listed(s.kids, s.pmap[q]) /\ s.kind[s.pmap[q]] # "free"
      BY <1>1, <2>1 DEF Shaped, Owned
    <3>3. \A m \in 1 .. Len(seq) : seq[m][1] # s.pmap[q]
      BY <1>3, <2>1, <3>2
    <3>4. QED
      BY <1>2, <1>4, <2>1, <3>1, <3>2, <3>3
  <2>2. CASE ~(q \in DOMAIN s.pmap /\ s.pmap[q] # r)
    <3>1. PICK m \in 1 .. Len(seq) :
            First(seq, s.position[r], q, m) /\ u.pmap[q] = seq[m][1]
      BY <1>1, <2>2 DEF Remapping
    <3>2. s.position[r] + StartOf(seq, m) = q
      BY <3>1 DEF First
    <3>3. QED
      BY <1>2, <1>3, <3>1, <3>2
  <2>3. QED
    BY <2>1, <2>2
<1>8. DOMAIN u.pmap \subseteq 0 .. Size
  <2>1. DOMAIN s.pmap \subseteq 0 .. Size
    BY <1>1 DEF Shaped
  <2>2. DOMAIN u.pmap \subseteq DOMAIN s.pmap \union Started(seq, s.position[r])
    BY <1>1 DEF Remapping
  <2>3. ASSUME NEW m \in 1 .. Len(seq)
        PROVE  s.position[r] + StartOf(seq, m) \in 0 .. Size
    <3>1. /\ StartOf(seq, m) \in Nat /\ StartOf(seq, m) <= Len(s.own[r])
          /\ Len(s.own[r]) \in Nat /\ s.position[r] \in Nat
      <4>1. seq[m][2] \in Nat /\ StartOf(seq, m) \in Nat
        BY CutLists
      <4>2. StartOf(seq, m) <= seq[m][2] /\ seq[m][2] <= Len(s.own[r])
        BY <1>1 DEF Cutting, Pieces
      <4>3. s.own[r] \in Seq(Nat)
        BY <1>1 DEF Shaped
      <4>4. Len(s.own[r]) \in Nat
        BY <4>3
      <4>5. s.position[r] \in Nat
        BY DEF CutFrom
      <4>6. QED
        BY <4>1, <4>2, <4>4, <4>5
    <3>2. s.position[r] + Len(s.own[r]) <= Size /\ Size \in Nat
      BY ItemTreeAssumption DEF CutFrom, EndOf
    <3>3. QED
      BY <3>1, <3>2
  <2>4. QED
    BY <2>1, <2>2, <2>3 DEF Started
<1>9. Shaped(u)
  <2>1. u.label = [n \in Names |-> u.label[n]]
    BY <1>1 DEF Relabelling
  <2>2. u.label \in [Names -> Pointers \union {Unset}]
    BY <1>6, <2>1
  <2>3. QED
    BY <1>1, <1>7, <1>8, <2>2 DEF Shaped, Typed
<1>10. Owned(u, {})
  BY <1>2, <1>5, <1>6, <1>7 DEF Owned
<1>11. QED
  BY <1>9, <1>10 DEF Whole

-----------------------------------------------------------------------------
(* The file while it is parsed *)

RawsOf(s) == {i \in Items : s.kind[i] = "raw"}

(* No item starts inside the bytes of another that is raw. *)
Apart(s) ==
  \A r \in RawsOf(s) : \A i \in Items \ {r} :
    s.kind[i] # "free" =>
      s.position[i] <= s.position[r] \/ EndOf(s, r) <= s.position[i]

(* No two raw items share a byte. *)
Disjoint(s) ==
  \A r \in RawsOf(s) : \A i \in RawsOf(s) \ {r} :
    EndOf(s, i) <= s.position[r] \/ EndOf(s, r) <= s.position[i]

(* What the pointer map and the labels need of the raw items: an offset at   *)
(* which one ends is a key, and one that is found by its key has bytes, so   *)
(* that a label made of an offset is inside.                                 *)
Regular(s) ==
  /\ \A i \in Items : s.kind[i] # "free" => s.position[i] \in Nat
  /\ {0, Size} \subseteq DOMAIN s.pmap
  /\ \A r \in RawsOf(s) : EndOf(s, r) \in DOMAIN s.pmap
  /\ \A q \in DOMAIN s.pmap :
       s.pmap[q] \in RawsOf(s) => Len(s.own[s.pmap[q]]) > 0
  /\ \A n \in Names :
       s.label[n] # Unset /\ s.label[n].item \in RawsOf(s) =>
         s.label[n].offset < Len(s.own[s.label[n].item])
  /\ Apart(s) /\ Disjoint(s)

(* The pieces have bytes, but for the one an item is made of, and if that is *)
(* raw nothing would find it.                                                *)
Filled(s, r, seq, new, kind) ==
  \A m \in 1 .. Len(seq) :
    \/ StartOf(seq, m) < seq[m][2]
    \/ /\ seq[m][1] = new
       /\ kind = "raw" =>
            /\ \A n \in LabelsOf(s, r) : s.label[n].offset # StartOf(seq, m)
            /\ s.position[r] + StartOf(seq, m) \in DOMAIN s.pmap
            /\ s.pmap[s.position[r] + StartOf(seq, m)] # r

(* What is where after a raw item was split.                                 *)
LEMMA CutPlaces ==
  ASSUME NEW s, NEW u, NEW p, NEW k, NEW r, NEW seq, NEW new, NEW kind,
         CutFrom(s, u, p, k, r, seq, new, kind), Regular(s)
  PROVE  /\ s.position[r] \in Nat /\ Len(s.own[r]) \in Nat
         /\ EndOf(s, r) = s.position[r] + Len(s.own[r])
         /\ \A j \in Items :
              /\ Len(s.own[j]) \in Nat
              /\ s.kind[j] # "free" => s.position[j] \in Nat
         /\ \A m \in 1 .. Len(seq) :
              /\ seq[m][1] \in Items
              /\ seq[m][2] \in Nat /\ StartOf(seq, m) \in Nat
              /\ StartOf(seq, m) <= seq[m][2]
              /\ seq[m][2] <= Len(s.own[r])
              /\ u.position[seq[m][1]] = s.position[r] + StartOf(seq, m)
              /\ EndOf(u, seq[m][1]) = s.position[r] + seq[m][2]
         /\ \A m, l \in 1 .. Len(seq) :
              m < l => seq[m][2] <= StartOf(seq, l)
         /\ \A j \in Items :
              \/ \E m \in 1 .. Len(seq) : seq[m][1] = j
              \/ j = r /\ u.kind[j] = "free"
              \/ /\ j # r /\ u.kind[j] = s.kind[j]
                 /\ u.own[j] = s.own[j] /\ u.position[j] = s.position[j]
                 /\ EndOf(u, j) = EndOf(s, j)
<1>1. /\ Shaped(s) /\ r \in Items /\ s.position[r] \in Nat
      /\ Cutting(s, u, p, k, r, seq, new, kind)
  BY DEF CutFrom, Whole
<1>2. \A j \in Items : /\ Len(s.own[j]) \in Nat
                     /\ s.kind[j] # "free" => s.position[j] \in Nat
  BY <1>1 DEF Shaped, Regular
<1>3. ASSUME NEW m \in 1 .. Len(seq)
      PROVE  /\ seq[m][1] \in Items
             /\ seq[m][2] \in Nat /\ StartOf(seq, m) \in Nat
             /\ StartOf(seq, m) <= seq[m][2]
             /\ seq[m][2] <= Len(s.own[r])
             /\ u.position[seq[m][1]] = s.position[r] + StartOf(seq, m)
             /\ EndOf(u, seq[m][1]) = s.position[r] + seq[m][2]
  <2>1. /\ seq[m][1] \in Items /\ seq[m][2] \in Nat
        /\ StartOf(seq, m) \in Nat /\ StartOf(seq, m) <= seq[m][2]
    BY CutLists
  <2>2. /\ u.position[seq[m][1]] = s.position[r] + StartOf(seq, m)
        /\ Len(u.own[seq[m][1]]) = seq[m][2] - StartOf(seq, m)
    BY <1>1 DEF Cutting
  <2>3. seq[m][2] <= Len(s.own[r])
    BY <1>1 DEF Cutting, Pieces
  <2>4. EndOf(u, seq[m][1]) = s.position[r] + seq[m][2]
    BY <1>1, <2>1, <2>2 DEF EndOf
  <2>5. QED
    BY <2>1, <2>2, <2>3, <2>4
<1>4. \A m, l \in 1 .. Len(seq) : m < l => seq[m][2] <= StartOf(seq, l)
  BY <1>1 DEF Cutting, Pieces
<1>5. ASSUME NEW j \in Items, \A m \in 1 .. Len(seq) : seq[m][1] # j
      PROVE  \/ j = r /\ u.kind[j] = "free"
             \/ /\ j # r /\ u.kind[j] = s.kind[j]
                /\ u.own[j] = s.own[j] /\ u.position[j] = s.position[j]
                /\ EndOf(u, j) = EndOf(s, j)
  <2>1. IF j = r THEN u.kind[j] = "free"
       ELSE /\ u.kind[j] = s.kind[j] /\ u.own[j] = s.own[j]
            /\ u.position[j] = s.position[j]
    BY <1>1, <1>5 DEF Cutting
  <2>2. QED
    BY <2>1 DEF EndOf
<1>6. Len(s.own[r]) \in Nat /\ EndOf(s, r) = s.position[r] + Len(s.own[r])
  BY <1>1, <1>2 DEF EndOf
<1>7. \A j \in Items :
        \/ \E m \in 1 .. Len(seq) : seq[m][1] = j
        \/ j = r /\ u.kind[j] = "free"
        \/ /\ j # r /\ u.kind[j] = s.kind[j]
           /\ u.own[j] = s.own[j] /\ u.position[j] = s.position[j]
           /\ EndOf(u, j) = EndOf(s, j)
  BY <1>5
<1>8. s.position[r] \in Nat
  BY <1>1
<1> HIDE DEF EndOf
<1>9. QED
  BY <1>2, <1>3, <1>4, <1>6, <1>7, <1>8

(* A raw item is split: what is raw is still apart from what is not.         *)
LEMMA CutRegular ==
  ASSUME NEW s, NEW u, NEW p, NEW k, NEW r, NEW seq, NEW new, NEW kind,
         CutFrom(s, u, p, k, r, seq, new, kind), Regular(s),
         Filled(s, r, seq, new, kind)
  PROVE  Regular(u)
<1> DEFINE P == s.position[r]
           L == Len(s.own[r])
           a(m) == StartOf(seq, m)
           b(m) == seq[m][2]
           Same(j) == /\ j # r /\ u.kind[j] = s.kind[j]
                      /\ u.own[j] = s.own[j] /\ u.position[j] = s.position[j]
                      /\ EndOf(u, j) = EndOf(s, j)
<1>1. /\ Shaped(s) /\ r \in Items /\ r \in RawsOf(s)
      /\ Cutting(s, u, p, k, r, seq, new, kind)
      /\ Relabelling(s, u, r, seq) /\ Remapping(s, u, r, seq)
      /\ s.kind[r] = "raw"
  BY DEF CutFrom, Whole, Cutting, RawsOf
<1>2. /\ P \in Nat /\ L \in Nat /\ EndOf(s, r) = P + L
      /\ \A j \in Items : /\ Len(s.own[j]) \in Nat
                           /\ s.kind[j] # "free" => s.position[j] \in Nat
  BY CutPlaces
<1>3. \A m \in 1 .. Len(seq) :
        /\ seq[m][1] \in Items
        /\ b(m) \in Nat /\ a(m) \in Nat /\ a(m) <= b(m) /\ b(m) <= L
        /\ u.position[seq[m][1]] = P + a(m)
        /\ EndOf(u, seq[m][1]) = P + b(m)
  BY CutPlaces
<1>4. \A m, l \in 1 .. Len(seq) : m < l => b(m) <= a(l)
  BY CutPlaces
<1>5. \A j \in Items :
        \/ \E m \in 1 .. Len(seq) : seq[m][1] = j
        \/ j = r /\ u.kind[j] = "free"
        \/ Same(j)
  BY CutPlaces
<1>6. \A m \in 1 .. Len(seq) :
        /\ seq[m][1] = r \/ s.kind[seq[m][1]] = "free"
        /\ Len(u.own[seq[m][1]]) = b(m) - a(m)
  BY <1>1 DEF Cutting
<1> HIDE DEF P, L, a, b
<1>7. ASSUME NEW i \in Items, u.kind[i] # "free"
      PROVE  u.position[i] \in Nat
  <2>1. CASE Same(i)
    BY <1>2, <1>7, <2>1
  <2>2. ASSUME NEW m \in 1 .. Len(seq), seq[m][1] = i
        PROVE  u.position[i] \in Nat
    BY <1>2, <1>3, <2>2
  <2>3. QED
    BY <1>5, <1>7, <2>1, <2>2
<1>8. {0, Size} \subseteq DOMAIN u.pmap
  BY <1>1 DEF Regular, Remapping
<1>9. ASSUME NEW i \in RawsOf(u)
      PROVE  EndOf(u, i) \in DOMAIN u.pmap
  <2>1. CASE Same(i)
    <3>1. EndOf(s, i) \in DOMAIN s.pmap
      BY <1>9, <2>1 DEF RawsOf, Regular
    <3>2. QED
      BY <1>1, <2>1, <3>1 DEF Remapping
  <2>2. ASSUME NEW m \in 1 .. Len(seq), seq[m][1] = i
        PROVE  EndOf(u, i) \in DOMAIN u.pmap
    <3>0. Len(seq) \in Nat /\ Pieces(seq, L)
      BY <1>1, CutLists DEF Cutting, L
    <3>1. CASE m = Len(seq)
      <4>1. b(m) = L
        BY <3>0, <3>1 DEF Pieces, b
      <4>2. EndOf(s, r) \in DOMAIN s.pmap
        BY <1>1 DEF Regular
      <4>3. QED
        BY <1>1, <1>2, <1>3, <2>2, <4>1, <4>2 DEF Remapping
    <3>2. CASE m # Len(seq)
      <4>1. m + 1 \in 1 .. Len(seq) /\ Len(seq) > 1
        BY <3>0, <3>2
      <4>2. a(m + 1) = b(m)
        <5>1. (m + 1) - 1 = m /\ m + 1 # 1
          OBVIOUS
        <5>2. QED
          BY <5>1 DEF a, b, StartOf
      <4>3. P + a(m + 1) \in Started(seq, P)
        BY <4>1 DEF Started, a
      <4>4. QED
        BY <1>1, <1>3, <2>2, <4>1, <4>2, <4>3 DEF Remapping, P
    <3>3. QED
      BY <3>1, <3>2
  <2>3. QED
    BY <1>5, <1>9, <2>1, <2>2 DEF RawsOf
<1>10. ASSUME NEW q \in DOMAIN u.pmap, u.pmap[q] \in RawsOf(u)
       PROVE  Len(u.own[u.pmap[q]]) > 0
  <2>1. CASE q \in DOMAIN s.pmap /\ s.pmap[q] # r
    <3>1. u.pmap[q] = s.pmap[q]
      BY <1>1, <2>1 DEF Remapping
    <3>2. s.pmap[q] \in Items /\ s.kind[s.pmap[q]] # "free"
      BY <2>1 DEF CutFrom, Whole, Shaped, Owned
    <3>3. \A m \in 1 .. Len(seq) : seq[m][1] # s.pmap[q]
      BY <1>6, <2>1, <3>2
    <3>4. Same(s.pmap[q])
      BY <1>5, <2>1, <3>2, <3>3
    <3>5. s.pmap[q] \in RawsOf(s)
      BY <1>10, <3>1, <3>4 DEF RawsOf
    <3>6. QED
      BY <2>1, <3>1, <3>4, <3>5 DEF Regular
  <2>2. CASE ~(q \in DOMAIN s.pmap /\ s.pmap[q] # r)
    <3>1. PICK m \in 1 .. Len(seq) :
            First(seq, P, q, m) /\ u.pmap[q] = seq[m][1]
      BY <1>1, <2>2 DEF Remapping, P
    <3>2. P + a(m) = q
      BY <3>1 DEF First, a
    <3>3. a(m) < b(m)
      <4>1. ASSUME ~(a(m) < b(m)) PROVE FALSE
        <5>1. seq[m][1] = new /\
              (kind = "raw" => P + a(m) \in DOMAIN s.pmap /\ s.pmap[P + a(m)] # r)
          BY <4>1 DEF Filled, a, b, P
        <5>2. kind = "raw"
          BY <1>1, <1>10, <3>1, <5>1 DEF Cutting, RawsOf
        <5>3. QED
          BY <2>2, <3>2, <5>1, <5>2
      <4>2. QED
        BY <4>1
    <3>4. QED
      BY <1>3, <1>6, <3>1, <3>3
  <2>3. QED
    BY <2>1, <2>2
<1>11. ASSUME NEW n \in Names, u.label[n] # Unset, u.label[n].item \in RawsOf(u)
       PROVE  u.label[n].offset < Len(u.own[u.label[n].item])
  <2>0. s.label[n] \in Pointers \union {Unset}
    BY <1>1 DEF Shaped
  <2>1. CASE n \in LabelsOf(s, r)
    <3>1. Shifting(s.label[n], u.label[n], seq)
      BY <1>1, <2>1 DEF Relabelling
    <3>2. PICK m \in 1 .. Len(seq) :
            /\ u.label[n] = [item |-> seq[m][1],
                             offset |-> s.label[n].offset - a(m)]
            /\ a(m) <= s.label[n].offset
            /\ \/ s.label[n].offset < b(m)
               \/ s.label[n].offset = b(m) /\ s.label[n].offset = a(m)
      BY <3>1 DEF Shifting, Holds, a, b
    <3>3. s.label[n].offset \in Nat
      BY <2>0, <2>1 DEF LabelsOf, Pointers
    <3>4. u.label[n].item = seq[m][1]
          /\ u.label[n].offset = s.label[n].offset - a(m)
      BY <3>2
    <3>5. s.label[n].offset < b(m)
      <4>1. ASSUME s.label[n].offset = b(m), s.label[n].offset = a(m)
            PROVE  FALSE
        <5>1. ~(a(m) < b(m))
          BY <1>3, <4>1
        <5>2. /\ seq[m][1] = new
              /\ kind = "raw" => \A l \in LabelsOf(s, r) : s.label[l].offset # a(m)
          BY <5>1 DEF Filled, a, b
        <5>3. kind = "raw"
          BY <1>1, <1>11, <3>4, <5>2 DEF Cutting, RawsOf
        <5>4. QED
          BY <2>1, <4>1, <5>2, <5>3
      <4>2. QED
        BY <3>2, <4>1
    <3>6. QED
      BY <1>3, <1>6, <3>3, <3>4, <3>5
  <2>2. CASE n \notin LabelsOf(s, r)
    <3>1. u.label[n] = s.label[n]
      BY <1>1, <2>2 DEF Relabelling
    <3>2. /\ s.label[n].item # r /\ s.label[n].item \in Items
          /\ s.kind[s.label[n].item] # "free"
      BY <1>11, <2>0, <2>2, <3>1 DEF LabelsOf, Pointers, CutFrom, Whole, Owned
    <3>3. \A m \in 1 .. Len(seq) : seq[m][1] # s.label[n].item
      BY <1>6, <3>2
    <3>4. Same(s.label[n].item)
      BY <1>5, <3>2, <3>3
    <3>5. s.label[n].item \in RawsOf(s)
      BY <1>11, <3>1, <3>4 DEF RawsOf
    <3>6. s.label[n].offset < Len(s.own[s.label[n].item])
      BY <1>11, <3>1, <3>5 DEF Regular
    <3>7. QED
      BY <3>1, <3>4, <3>6
  <2>3. QED
    BY <2>1, <2>2
<1>12. ASSUME NEW x \in RawsOf(u), NEW i \in Items \ {x}, u.kind[i] # "free"
       PROVE  u.position[i] <= u.position[x] \/ EndOf(u, x) <= u.position[i]
  <2>0. x \in Items /\ u.kind[x] # "free" /\ u.kind[x] = "raw"
    BY DEF RawsOf
  <2>1. CASE Same(x) /\ Same(i)
    <3>1. x \in RawsOf(s) /\ s.kind[i] # "free"
      BY <1>12, <2>0, <2>1 DEF RawsOf
    <3>2. s.position[i] <= s.position[x] \/ EndOf(s, x) <= s.position[i]
      BY <3>1 DEF Regular, Apart
    <3>3. QED
      BY <2>1, <3>2
  <2>2. ASSUME Same(x), NEW m \in 1 .. Len(seq), seq[m][1] = i
        PROVE  u.position[i] <= u.position[x] \/ EndOf(u, x) <= u.position[i]
    <3>1. x \in RawsOf(s) /\ x # r
      BY <2>0, <2>2 DEF RawsOf
    <3>2. EndOf(s, x) <= P \/ P + L <= s.position[x]
      BY <1>1, <1>2, <3>1 DEF Regular, Disjoint, P
    <3>3. s.position[x] \in Nat /\ EndOf(s, x) \in Nat
      BY <1>2, <2>0, <2>2 DEF EndOf
    <3>4. QED
      BY <1>2, <1>3, <2>2, <3>2, <3>3
  <2>3. ASSUME Same(i), NEW m \in 1 .. Len(seq), seq[m][1] = x
        PROVE  u.position[i] <= u.position[x] \/ EndOf(u, x) <= u.position[i]
    <3>1. s.position[i] <= P \/ P + L <= s.position[i]
      BY <1>1, <1>2, <1>12, <2>3 DEF Regular, Apart, P
    <3>2. s.position[i] \in Nat
      BY <1>2, <1>12, <2>3
    <3>3. QED
      BY <1>2, <1>3, <2>3, <3>1, <3>2
  <2>4. ASSUME NEW m \in 1 .. Len(seq), seq[m][1] = x,
               NEW l \in 1 .. Len(seq), seq[l][1] = i
        PROVE  u.position[i] <= u.position[x] \/ EndOf(u, x) <= u.position[i]
    <3>1. m < l \/ l < m
      BY <1>12, <2>4
    <3>2. b(m) <= a(l) \/ b(l) <= a(m)
      BY <1>4, <3>1
    <3>3. /\ b(m) \in Nat /\ a(m) \in Nat /\ a(m) <= b(m)
          /\ b(l) \in Nat /\ a(l) \in Nat /\ a(l) <= b(l)
          /\ u.position[x] = P + a(m) /\ EndOf(u, x) = P + b(m)
          /\ u.position[i] = P + a(l)
      BY <1>3, <2>4
    <3>4. QED
      BY <1>2, <3>2, <3>3
  <2> HIDE DEF Same
  <2>5. QED
    BY <1>5, <1>12, <2>0, <2>1, <2>2, <2>3, <2>4
<1>13. ASSUME NEW x \in RawsOf(u), NEW i \in RawsOf(u) \ {x}
       PROVE  EndOf(u, i) <= u.position[x] \/ EndOf(u, x) <= u.position[i]
  <2>0. /\ x \in Items /\ u.kind[x] # "free" /\ u.kind[x] = "raw"
        /\ i \in Items /\ u.kind[i] # "free" /\ u.kind[i] = "raw"
    BY DEF RawsOf
  <2> DEFINE Goal(y, z) == EndOf(u, y) <= u.position[z] \/ EndOf(u, z) <= u.position[y]
  <2>1. CASE Same(x) /\ Same(i)
    <3>1. x \in RawsOf(s) /\ i \in RawsOf(s)
      BY <2>0, <2>1 DEF RawsOf
    <3>2. EndOf(s, i) <= s.position[x] \/ EndOf(s, x) <= s.position[i]
      BY <3>1 DEF Regular, Disjoint
    <3>3. QED
      BY <2>1, <3>2
  <2>2. ASSUME NEW y \in Items, u.kind[y] = "raw", Same(y),
               NEW m \in 1 .. Len(seq)
        PROVE  Goal(y, seq[m][1])
    <3>1. y \in RawsOf(s) /\ y # r
      BY <2>2 DEF RawsOf
    <3>2. EndOf(s, y) <= P \/ P + L <= s.position[y]
      BY <1>1, <1>2, <3>1 DEF Regular, Disjoint, P
    <3>3. s.position[y] \in Nat /\ EndOf(s, y) \in Nat
      BY <1>2, <2>2, SMTT(30) DEF EndOf
    <3>4. QED
      BY <1>2, <1>3, <2>2, <3>2, <3>3
  <2>3. ASSUME NEW m \in 1 .. Len(seq), seq[m][1] = x,
               NEW l \in 1 .. Len(seq), seq[l][1] = i
        PROVE  EndOf(u, i) <= u.position[x] \/ EndOf(u, x) <= u.position[i]
    <3>1. m < l \/ l < m
      BY <2>3
    <3>2. b(m) <= a(l) \/ b(l) <= a(m)
      BY <1>4, <3>1
    <3>3. QED
      BY <1>2, <1>3, <2>3, <3>2, SMTT(30)
  <2> HIDE DEF Same
  <2>4. QED
    BY <1>5, <2>0, <2>1, <2>2, <2>3
<1>14. QED
  BY <1>7, <1>8, <1>9, <1>10, <1>11, <1>12, <1>13 DEF Regular, Apart, Disjoint

-----------------------------------------------------------------------------
(* The keys of the raw items *)

TopLevel(s, i) == \E k \in 1 .. Len(s.kids[Root]) : s.kids[Root][k] = i

(* Every raw item of the file, but for `except`, is found by its position.   *)
Keyed(s, except) ==
  \A r \in RawsOf(s) : TopLevel(s, r) /\ r # except =>
    s.position[r] \in DOMAIN s.pmap /\ s.pmap[s.position[r]] = r

(* A raw item that is found by its position is split: so are the pieces that *)
(* have bytes and do not start where an empty one does.                      *)
LEMMA CutKeyed ==
  ASSUME NEW s, NEW u, NEW p, NEW k, NEW r, NEW seq, NEW new, NEW kind,
         CutFrom(s, u, p, k, r, seq, new, kind), Regular(s),
         NEW except, Keyed(s, except), except = Root \/ except = r,
         NEW except2,
         \A m \in 1 .. Len(seq) :
           seq[m][1] # except2 /\ (seq[m][1] = new => kind = "raw") =>
             /\ StartOf(seq, m) < seq[m][2]
             /\ StartOf(seq, m) > 0 \/ except # r
             /\ \A l \in 1 .. Len(seq) :
                  l < m => StartOf(seq, l) # StartOf(seq, m)
  PROVE  Keyed(u, except2)
<1> DEFINE P == s.position[r]
           L == Len(s.own[r])
           a(m) == StartOf(seq, m)
           b(m) == seq[m][2]
           Same(j) == /\ j # r /\ u.kind[j] = s.kind[j]
                      /\ u.own[j] = s.own[j] /\ u.position[j] = s.position[j]
                      /\ EndOf(u, j) = EndOf(s, j)
<1>1. /\ Shaped(s) /\ r \in Items /\ r \in RawsOf(s) /\ r # Root
      /\ Once(s.kids) /\ s.kids \in [Lists -> Seq(Items)]
      /\ p \in Lists /\ k \in 1 .. Len(s.kids[p]) /\ r = s.kids[p][k]
      /\ Cutting(s, u, p, k, r, seq, new, kind)
      /\ Remapping(s, u, r, seq)
  BY DEF CutFrom, Whole, Owned, Shaped, Cutting, RawsOf, Items, Root
<1>2. /\ P \in Nat /\ L \in Nat /\ EndOf(s, r) = P + L
      /\ \A j \in Items : /\ Len(s.own[j]) \in Nat
                           /\ s.kind[j] # "free" => s.position[j] \in Nat
  BY CutPlaces
<1>3. \A m \in 1 .. Len(seq) :
        /\ seq[m][1] \in Items
        /\ b(m) \in Nat /\ a(m) \in Nat /\ a(m) <= b(m) /\ b(m) <= L
        /\ u.position[seq[m][1]] = P + a(m)
        /\ EndOf(u, seq[m][1]) = P + b(m)
  BY CutPlaces
<1>4. \A m, l \in 1 .. Len(seq) : m < l => b(m) <= a(l)
  BY CutPlaces
<1>5. \A j \in Items :
        \/ \E m \in 1 .. Len(seq) : seq[m][1] = j
        \/ j = r /\ u.kind[j] = "free"
        \/ Same(j)
  BY CutPlaces
<1>6. /\ \A m \in 1 .. Len(seq) :
           u.kind[seq[m][1]] = IF seq[m][1] = new THEN kind ELSE "raw"
      /\ \A m \in 1 .. Len(seq) : seq[m][1] = r \/ s.kind[seq[m][1]] = "free"
  BY <1>1 DEF Cutting
<1>7. \A m \in 1 .. Len(seq) :
           seq[m][1] # except2 /\ (seq[m][1] = new => kind = "raw") =>
             /\ a(m) < b(m)
             /\ a(m) > 0 \/ except # r
             /\ \A l \in 1 .. Len(seq) : l < m => a(l) # a(m)
  OBVIOUS
<1>8. u.kids \in [Lists -> Seq(Items)] /\ Once(u.kids)
  BY CutLists
<1>9. \A j \in Items : TopLevel(u, j) =>
        \/ \E m \in 1 .. Len(seq) : seq[m][1] = j
        \/ TopLevel(s, j) /\ j # r
  <2> SUFFICES ASSUME NEW j \in Items, TopLevel(u, j),
                      \A m \in 1 .. Len(seq) : seq[m][1] # j
               PROVE  TopLevel(s, j) /\ j # r
    OBVIOUS
  <2>0. Root \in Lists
    BY DEF Lists
  <2>1. Listed(u.kids, j)
    BY <2>0 DEF TopLevel, Listed
  <2>2. Listed(s.kids, j) /\ j # r
    BY <2>1, CutLists
  <2>3. PICK q \in Lists : \E l \in 1 .. Len(s.kids[q]) : s.kids[q][l] = j
    BY <2>2 DEF Listed
  <2>4. CASE q = Root
    BY <2>2, <2>3, <2>4 DEF TopLevel
  <2>5. CASE q # Root /\ q # p
    <3>1. u.kids[q] = s.kids[q]
      BY <1>1, <2>5 DEF Cutting
    <3>2. QED
      BY <1>8, <2>0, <2>3, <2>5, <3>1 DEF TopLevel, Once
  <2>6. CASE q # Root /\ q = p
    <3>1. u.kids[Root] = s.kids[Root]
      BY <1>1, <2>0, <2>6 DEF Cutting
    <3>2. QED
      BY <2>2, <3>1 DEF TopLevel
  <2>7. QED
    BY <2>4, <2>5, <2>6
<1> HIDE DEF P, L, a, b
<1> SUFFICES ASSUME NEW y \in RawsOf(u), TopLevel(u, y), y # except2
             PROVE  u.position[y] \in DOMAIN u.pmap /\ u.pmap[u.position[y]] = y
  BY DEF Keyed
<1>10. y \in Items /\ u.kind[y] = "raw"
  BY DEF RawsOf
<1>11. ASSUME NEW m \in 1 .. Len(seq), seq[m][1] = y
       PROVE  u.position[y] \in DOMAIN u.pmap /\ u.pmap[u.position[y]] = y
  <2>1. p = Root
    <3>1. ASSUME p # Root PROVE FALSE
      <4>1. u.kids[Root] = s.kids[Root] /\ Root \in Lists
        BY <1>1, <3>1 DEF Cutting, Lists
      <4>2. PICK l \in 1 .. Len(s.kids[Root]) : s.kids[Root][l] = y
        BY <4>1 DEF TopLevel
      <4>3. y # r
        BY <1>1, <3>1, <4>1, <4>2 DEF Once
      <4>4. s.kind[y] = "free" /\ Listed(s.kids, y)
        BY <1>6, <1>11, <4>1, <4>2, <4>3 DEF Listed
      <4>5. QED
        BY <1>10, <4>4 DEF CutFrom, Whole, Owned
    <3>2. QED
      BY <3>1
  <2>2. /\ a(m) < b(m)
        /\ a(m) > 0 \/ except # r
        /\ \A l \in 1 .. Len(seq) : l < m => a(l) # a(m)
    BY <1>6, <1>7, <1>10, <1>11
  <2>3. except # r => P \in DOMAIN s.pmap /\ s.pmap[P] = r
    <3>1. TopLevel(s, r)
      BY <1>1, <2>1 DEF TopLevel
    <3>2. QED
      BY <1>1, <3>1 DEF Keyed, P
  <2> DEFINE q == P + a(m)
  <2>4. u.position[y] = q /\ q \in Nat
    BY <1>2, <1>3, <1>11
  <2>5. q \in DOMAIN u.pmap
    <3>1. CASE Len(seq) > 1
      <4>1. q \in Started(seq, P)
        BY DEF Started, a
      <4>2. QED
        BY <1>1, <3>1, <4>1 DEF Remapping, P
    <3>2. CASE ~(Len(seq) > 1)
      <4>1. m = 1
        BY <3>2, CutLists
      <4>2. a(m) = 0
        BY <4>1 DEF a, StartOf
      <4>3. P \in DOMAIN s.pmap /\ q = P
        BY <1>2, <2>2, <2>3, <4>2
      <4>4. QED
        BY <1>1, <4>3 DEF Remapping
    <3>3. QED
      BY <3>1, <3>2
  <2>6. CASE q \in DOMAIN s.pmap /\ s.pmap[q] # r
    <3>1. /\ s.pmap[q] \in Items /\ s.position[s.pmap[q]] = q
          /\ s.kind[s.pmap[q]] # "free"
      BY <2>6 DEF CutFrom, Whole, Shaped, Owned
    <3>2. q <= P \/ P + L <= q
      <4> HIDE DEF q
      <4>1. s.pmap[q] \in Items \ {r}
        BY <2>6, <3>1
      <4>2. \/ s.position[s.pmap[q]] <= s.position[r]
            \/ EndOf(s, r) <= s.position[s.pmap[q]]
        BY <1>1, <3>1, <4>1 DEF Regular, Apart
      <4>3. QED
        BY <1>2, <3>1, <4>2 DEF P
    <3>3. a(m) = 0
      BY <1>2, <1>3, <2>2, <3>2
    <3>4. q = P
      BY <1>2, <3>3
    <3>5. QED
      BY <1>3, <2>2, <2>3, <2>6, <3>3, <3>4
  <2>7. CASE ~(q \in DOMAIN s.pmap /\ s.pmap[q] # r)
    <3> HIDE DEF q
    <3>1. PICK l \in 1 .. Len(seq) :
            First(seq, P, q, l) /\ u.pmap[q] = seq[l][1]
      BY <1>1, <2>5, <2>7 DEF Remapping, P
    <3>2. P + a(l) = q /\ \A x \in 1 .. Len(seq) : x < l => P + a(x) # q
      BY <3>1 DEF First, a
    <3>3. a(l) = a(m) /\ ~(m < l)
      BY <1>2, <1>3, <3>2 DEF q
    <3>4. l = m
      BY <2>2, <3>3
    <3>5. QED
      BY <1>11, <2>4, <2>5, <3>1, <3>4
  <2>8. QED
    BY <2>4, <2>5, <2>6, <2>7
<1>12. ASSUME \A m \in 1 .. Len(seq) : seq[m][1] # y
       PROVE  u.position[y] \in DOMAIN u.pmap /\ u.pmap[u.position[y]] = y
  <2>1. Same(y) /\ TopLevel(s, y)
    BY <1>5, <1>9, <1>10, <1>12
  <2>2. y \in RawsOf(s) /\ y # except
    BY <1>1, <1>10, <2>1 DEF RawsOf, Items, Root
  <2>3. s.position[y] \in DOMAIN s.pmap /\ s.pmap[s.position[y]] = y
    BY Zenon, <2>1, <2>2 DEF Keyed
  <2>4. QED
    BY <1>1, <2>1, <2>3 DEF Remapping
<1>13. QED
  BY Zenon, <1>11, <1>12

-----------------------------------------------------------------------------
(* Splitting while the file is parsed *)

(* A tree that is being parsed. *)
Good(s) == Whole(s, {}) /\ Regular(s)

(* `len` units from pos on can be cut out of r. *)
Cutable(s, r, pos, len) ==
  /\ r \in RawsOf(s) /\ pos \in Nat /\ len \in Nat
  /\ pos + len <= Len(s.own[r]) /\ Len(s.own[r]) > 0
  /\ Free(s) # {}
  /\ pos = 0 \/ pos + len = Len(s.own[r]) \/ Free(s) \ {Fresh(s)} # {}

(* u is s when `new` was cut out of r, the k-th child of p. *)
Splitting(s, u, p, k, r, pos, len, new, f, kind) ==
  /\ f # r /\ f # new /\ new # r /\ new \in Free(s)
  /\ pos \in Nat /\ len \in Nat /\ Len(s.own[r]) \in Nat
  /\ pos + len <= Len(s.own[r]) /\ Len(s.own[r]) > 0
  /\ CutFrom(s, u, p, k, r, PiecesOf(r, pos, pos + len, Len(s.own[r]), new, f),
             new, kind)

(* RawItem::Split, of a tree that is being parsed.                           *)
LEMMA SplitOf ==
  ASSUME NEW s, Good(s), NEW r, NEW pos, NEW len, Cutable(s, r, pos, len),
         NEW kind, kind # "free", NEW p \in Lists,
         NEW k \in 1 .. Len(s.kids[p]), r = s.kids[p][k]
  PROVE  \E f \in Nat : Splitting(s, Split(s, r, pos, len, kind), p, k, r, pos,
                                  len, Fresh(s), f, kind)
<1>1. /\ Whole(s, {}) /\ Shaped(s) /\ Regular(s)
      /\ r \in Items /\ s.kind[r] = "raw" /\ s.kind[r] # "free"
  BY DEF Good, Whole, Cutable, RawsOf
<1>2. s.position[r] \in Nat /\ DOMAIN s.pmap # {}
  BY <1>1 DEF Regular
<1>3. \A n \in LabelsOf(s, r) : s.label[n].offset < Len(s.own[r])
  BY <1>1 DEF Regular, LabelsOf, RawsOf
<1>4. Cuttable(s, r, pos, len)
  BY <1>1, <1>2, <1>3 DEF Cuttable, Cutable
<1>5. PICK f \in Nat :
        /\ f # r /\ f # Fresh(s)
        /\ Cutting(s, Split(s, r, pos, len, kind), p, k, r,
                   PiecesOf(r, pos, pos + len, Len(s.own[r]), Fresh(s), f),
                   Fresh(s), kind)
  BY <1>4, SplitCuts
<1>6. Fresh(s) \in Free(s) /\ Fresh(s) # r
  <2>1. Free(s) \subseteq Nat /\ Free(s) # {}
    BY DEF Free, Items, Cutable
  <2>2. Fresh(s) \in Free(s)
    BY <2>1, Least DEF Fresh
  <2>3. QED
    BY <1>1, <2>2 DEF Free
<1>7. EndOf(s, r) <= Size
  BY <1>1 DEF Regular, Shaped, RawsOf
<1>8. Len(s.own[r]) \in Nat
  BY <1>1 DEF Shaped
<1>9. QED
  BY <1>1, <1>2, <1>5, <1>6, <1>7, <1>8 DEF Splitting, CutFrom, Cutable

(* Where the pieces are.                                                     *)
LEMMA PiecesAt ==
  ASSUME NEW s, NEW u, NEW p, NEW k, NEW r, NEW pos, NEW len, NEW new, NEW f,
         NEW kind, Splitting(s, u, p, k, r, pos, len, new, f, kind),
         NEW seq, seq = PiecesOf(r, pos, pos + len, Len(s.own[r]), new, f)
  PROVE  /\ pos = 0 /\ pos + len = Len(s.own[r]) =>
              /\ Len(seq) = 1 /\ seq[1][1] = new
              /\ StartOf(seq, 1) = 0 /\ seq[1][2] = pos + len
         /\ pos = 0 /\ pos + len # Len(s.own[r]) =>
              /\ Len(seq) = 2 /\ seq[1][1] = new /\ seq[2][1] = r
              /\ StartOf(seq, 1) = 0 /\ seq[1][2] = pos + len
              /\ StartOf(seq, 2) = pos + len /\ seq[2][2] = Len(s.own[r])
         /\ pos # 0 /\ pos + len = Len(s.own[r]) =>
              /\ Len(seq) = 2 /\ seq[1][1] = r /\ seq[2][1] = new
              /\ StartOf(seq, 1) = 0 /\ seq[1][2] = pos
              /\ StartOf(seq, 2) = pos /\ seq[2][2] = pos + len
         /\ pos # 0 /\ pos + len # Len(s.own[r]) =>
              /\ Len(seq) = 3 /\ seq[1][1] = r /\ seq[2][1] = new
              /\ seq[3][1] = f
              /\ StartOf(seq, 1) = 0 /\ seq[1][2] = pos
              /\ StartOf(seq, 2) = pos /\ seq[2][2] = pos + len
              /\ StartOf(seq, 3) = pos + len /\ seq[3][2] = Len(s.own[r])
<1> DEFINE end == pos + len
           size == Len(s.own[r])
<1>0. seq = PiecesOf(r, pos, end, size, new, f)
  OBVIOUS
<1> HIDE DEF end, size
<1>1. ASSUME pos = 0, end = size
      PROVE  /\ Len(seq) = 1 /\ seq[1][1] = new
             /\ StartOf(seq, 1) = 0 /\ seq[1][2] = end
  <2>1. seq = << <<new, end>> >>
    BY <1>0, <1>1 DEF PiecesOf
  <2>2. QED
    BY <2>1 DEF StartOf
<1>2. ASSUME pos = 0, end # size
      PROVE  /\ Len(seq) = 2 /\ seq[1][1] = new /\ seq[2][1] = r
             /\ StartOf(seq, 1) = 0 /\ seq[1][2] = end
             /\ StartOf(seq, 2) = end /\ seq[2][2] = size
  <2>1. seq = << <<new, end>>, <<r, size>> >>
    BY <1>0, <1>2 DEF PiecesOf
  <2>2. /\ Len(seq) = 2 /\ seq[1][1] = new /\ seq[2][1] = r
        /\ seq[1][2] = end /\ seq[2][2] = size
    BY <2>1
  <2>3. QED
    BY <2>2 DEF StartOf
<1>3. ASSUME pos # 0, end = size
      PROVE  /\ Len(seq) = 2 /\ seq[1][1] = r /\ seq[2][1] = new
             /\ StartOf(seq, 1) = 0 /\ seq[1][2] = pos
             /\ StartOf(seq, 2) = pos /\ seq[2][2] = end
  <2>1. seq = << <<r, pos>>, <<new, end>> >>
    BY <1>0, <1>3 DEF PiecesOf
  <2>2. /\ Len(seq) = 2 /\ seq[1][1] = r /\ seq[2][1] = new
        /\ seq[1][2] = pos /\ seq[2][2] = end
    BY <2>1
  <2>3. QED
    BY <2>2 DEF StartOf
<1>4. ASSUME pos # 0, end # size
      PROVE  /\ Len(seq) = 3 /\ seq[1][1] = r /\ seq[2][1] = new
             /\ seq[3][1] = f
             /\ StartOf(seq, 1) = 0 /\ seq[1][2] = pos
             /\ StartOf(seq, 2) = pos /\ seq[2][2] = end
             /\ StartOf(seq, 3) = end /\ seq[3][2] = size
  <2>1. seq = << <<r, pos>>, <<new, end>>, <<f, size>> >>
    BY <1>0, <1>4 DEF PiecesOf
  <2>2. /\ Len(seq) = 3 /\ seq[1][1] = r /\ seq[2][1] = new
        /\ seq[3][1] = f
        /\ seq[1][2] = pos /\ seq[2][2] = end /\ seq[3][2] = size
    BY <2>1
  <2>3. QED
    BY <2>2 DEF StartOf
<1>5. QED
  BY <1>1, <1>2, <1>3, <1>4 DEF end, size

(* The places in a short sequence.                                           *)
LEMMA Upto ==
  ASSUME NEW l, NEW m \in 1 .. l
  PROVE  /\ l = 1 => m = 1
         /\ l = 2 => m = 1 \/ m = 2
         /\ l = 3 => m = 1 \/ m = 2 \/ m = 3
OBVIOUS

(* Piece m of r is what is left before the new item, the new item, or what   *)
(* is left behind it.                                                        *)
PieceAt(seq, m, r, pos, len, size, new, f) ==
  \/ /\ seq[m][1] = r /\ pos # 0 /\ m = 1
     /\ StartOf(seq, m) = 0 /\ seq[m][2] = pos
  \/ /\ seq[m][1] = new /\ (m = IF pos = 0 THEN 1 ELSE 2)
     /\ StartOf(seq, m) = pos /\ seq[m][2] = pos + len
  \/ /\ seq[m][1] = (IF pos = 0 THEN r ELSE f)
     /\ pos + len # size /\ (m = IF pos = 0 THEN 2 ELSE 3)
     /\ StartOf(seq, m) = pos + len /\ seq[m][2] = size

(* Each of the pieces.                                                       *)
LEMMA PieceIs ==
  ASSUME NEW s, NEW u, NEW p, NEW k, NEW r, NEW pos, NEW len, NEW new, NEW f,
         NEW kind, Splitting(s, u, p, k, r, pos, len, new, f, kind),
         NEW seq, seq = PiecesOf(r, pos, pos + len, Len(s.own[r]), new, f)
  PROVE  \A m \in 1 .. Len(seq) : PieceAt(seq, m, r, pos, len, Len(s.own[r]), new, f)
<1> SUFFICES ASSUME NEW m \in 1 .. Len(seq)
             PROVE  PieceAt(seq, m, r, pos, len, Len(s.own[r]), new, f)
  OBVIOUS
<1> DEFINE end == pos + len
           size == Len(s.own[r])
<1>1. /\ pos = 0 /\ end = size =>
           /\ Len(seq) = 1 /\ seq[1][1] = new
           /\ StartOf(seq, 1) = 0 /\ seq[1][2] = end
      /\ pos = 0 /\ end # size =>
           /\ Len(seq) = 2 /\ seq[1][1] = new /\ seq[2][1] = r
           /\ StartOf(seq, 1) = 0 /\ seq[1][2] = end
           /\ StartOf(seq, 2) = end /\ seq[2][2] = size
      /\ pos # 0 /\ end = size =>
           /\ Len(seq) = 2 /\ seq[1][1] = r /\ seq[2][1] = new
           /\ StartOf(seq, 1) = 0 /\ seq[1][2] = pos
           /\ StartOf(seq, 2) = pos /\ seq[2][2] = end
      /\ pos # 0 /\ end # size =>
           /\ Len(seq) = 3 /\ seq[1][1] = r /\ seq[2][1] = new
           /\ seq[3][1] = f
           /\ StartOf(seq, 1) = 0 /\ seq[1][2] = pos
           /\ StartOf(seq, 2) = pos /\ seq[2][2] = end
           /\ StartOf(seq, 3) = end /\ seq[3][2] = size
  BY PiecesAt
<1>2. pos \in Nat
  BY DEF Splitting
<1>3. SUFFICES
         \/ /\ seq[m][1] = r /\ pos # 0 /\ m = 1
            /\ StartOf(seq, m) = 0 /\ seq[m][2] = pos
         \/ /\ seq[m][1] = new /\ (m = IF pos = 0 THEN 1 ELSE 2)
            /\ StartOf(seq, m) = pos /\ seq[m][2] = end
         \/ /\ seq[m][1] = (IF pos = 0 THEN r ELSE f)
            /\ end # size /\ (m = IF pos = 0 THEN 2 ELSE 3)
            /\ StartOf(seq, m) = end /\ seq[m][2] = size
  BY DEF PieceAt
<1> HIDE DEF end, size
<1>4. CASE pos = 0 /\ end = size
  <2>0. Len(seq) = 1
    BY <1>1, <1>4
  <2>1. m = 1
    BY <2>0, Upto
  <2>2. QED
    BY <1>1, <1>4, <2>1
<1>5. CASE pos = 0 /\ end # size
  <2>0. Len(seq) = 2
    BY <1>1, <1>5
  <2>1. m = 1 \/ m = 2
    BY <2>0, Upto
  <2>2. QED
    BY <1>1, <1>5, <2>1
<1>6. CASE pos # 0 /\ end = size
  <2>0. Len(seq) = 2
    BY <1>1, <1>6
  <2>1. m = 1 \/ m = 2
    BY <2>0, Upto
  <2>2. QED
    BY <1>1, <1>6, <2>1
<1>7. CASE pos # 0 /\ end # size
  <2>0. Len(seq) = 3
    BY <1>1, <1>7
  <2>1. m = 1 \/ m = 2 \/ m = 3
    BY <2>0, Upto
  <2>2. QED
    BY <1>1, <1>7, <2>1
<1>8. QED
  BY <1>4, <1>5, <1>6, <1>7

-----------------------------------------------------------------------------
(* A split leaves a tree that can be parsed on.                              *)
LEMMA SplitGood ==
  ASSUME NEW s, NEW u, NEW p, NEW k, NEW r, NEW pos, NEW len, NEW new, NEW f,
         NEW kind, Splitting(s, u, p, k, r, pos, len, new, f, kind), Good(s),
         \/ kind # "raw" \/ len > 0
         \/ /\ pos = 0
            /\ \A n \in LabelsOf(s, r) : s.label[n].offset # 0
            /\ s.position[r] \in DOMAIN s.pmap /\ s.pmap[s.position[r]] # r
  PROVE  Good(u)
<1> DEFINE seq == PiecesOf(r, pos, pos + len, Len(s.own[r]), new, f)
           L == Len(s.own[r])
<1>1. /\ CutFrom(s, u, p, k, r, seq, new, kind) /\ Regular(s)
      /\ pos \in Nat /\ len \in Nat /\ L \in Nat
      /\ pos + len <= L /\ L > 0
      /\ s.position[r] \in Nat
  BY DEF Splitting, Good, CutFrom
<1>2. \A m \in 1 .. Len(seq) :
        \/ /\ seq[m][1] = r /\ pos # 0
           /\ StartOf(seq, m) = 0 /\ seq[m][2] = pos
        \/ /\ seq[m][1] = new
           /\ StartOf(seq, m) = pos /\ seq[m][2] = pos + len
        \/ /\ pos + len # L
           /\ StartOf(seq, m) = pos + len /\ seq[m][2] = L
  <2>1. \A m \in 1 .. Len(seq) :
          PieceAt(seq, m, r, pos, len, Len(s.own[r]), new, f)
    BY PieceIs, Zenon
  <2> HIDE DEF seq
  <2>2. QED
    BY <2>1 DEF PieceAt
<1> HIDE DEF seq, L
<1>3. Filled(s, r, seq, new, kind)
  <2>1. SUFFICES ASSUME NEW m \in 1 .. Len(seq), ~ (StartOf(seq, m) < seq[m][2])
                 PROVE  /\ seq[m][1] = new
                        /\ kind = "raw" =>
                             /\ \A n \in LabelsOf(s, r) :
                                  s.label[n].offset # StartOf(seq, m)
                             /\ s.position[r] + StartOf(seq, m) \in DOMAIN s.pmap
                             /\ s.pmap[s.position[r] + StartOf(seq, m)] # r
    BY DEF Filled
  <2>2. seq[m][1] = new /\ StartOf(seq, m) = pos /\ seq[m][2] = pos + len
    BY <1>1, <1>2, <2>1
  <2>3. ~ (len > 0)
    BY <1>1, <2>1, <2>2
  <2>4. s.position[r] + 0 = s.position[r]
    BY <1>1
  <2>5. QED
    BY <2>2, <2>3, <2>4
<1>4. QED
  BY <1>1, <1>3, CutWhole, CutRegular DEF Good

(* Nor can what is behind the new item be lost, if it has bytes: its         *)
(* position is a key.                                                        *)
LEMMA SplitKeyed ==
  ASSUME NEW s, NEW u, NEW p, NEW k, NEW r, NEW pos, NEW len, NEW new, NEW f,
         NEW kind, Splitting(s, u, p, k, r, pos, len, new, f, kind), Good(s)
  PROVE  /\ Keyed(s, Root) /\ len > 0 => Keyed(u, Root)
         /\ Keyed(s, Root) /\ kind # "raw" =>
              Keyed(u, IF pos = 0 THEN r ELSE f)
         /\ (Keyed(s, Root) \/ Keyed(s, r)) /\ len > 0 /\ pos = 0 => Keyed(u, new)
<1> DEFINE seq == PiecesOf(r, pos, pos + len, Len(s.own[r]), new, f)
           L == Len(s.own[r])
           b == IF pos = 0 THEN r ELSE f
<1>1. /\ CutFrom(s, u, p, k, r, seq, new, kind) /\ Regular(s)
      /\ pos \in Nat /\ len \in Nat /\ L \in Nat
      /\ pos + len <= L /\ L > 0
      /\ r # Root /\ new # r
  BY DEF Splitting, Good, CutFrom, Items, Root
<1>2. \A m \in 1 .. Len(seq) :
        \/ /\ seq[m][1] = r /\ pos # 0 /\ m = 1
           /\ StartOf(seq, m) = 0 /\ seq[m][2] = pos
        \/ /\ seq[m][1] = new /\ (m = IF pos = 0 THEN 1 ELSE 2)
           /\ StartOf(seq, m) = pos /\ seq[m][2] = pos + len
        \/ /\ seq[m][1] = b
           /\ pos + len # L /\ (m = IF pos = 0 THEN 2 ELSE 3)
           /\ StartOf(seq, m) = pos + len /\ seq[m][2] = L
  <2>1. \A m \in 1 .. Len(seq) :
          PieceAt(seq, m, r, pos, len, Len(s.own[r]), new, f)
    BY PieceIs, Zenon
  <2> HIDE DEF seq
  <2>2. QED
    BY <2>1 DEF PieceAt
<1> HIDE DEF seq, L
<1>0. \A m \in 1 .. Len(seq) : m \in Nat
  OBVIOUS
<1>3. ASSUME Keyed(s, Root), len > 0 PROVE Keyed(u, Root)
  <2>1. \A m \in 1 .. Len(seq) :
          /\ StartOf(seq, m) < seq[m][2]
          /\ \A l \in 1 .. Len(seq) : l < m => StartOf(seq, l) # StartOf(seq, m)
    BY <1>0, <1>1, <1>2, <1>3
  <2>2. QED
    BY <1>1, <1>3, <2>1, CutKeyed
<1>4. ASSUME Keyed(s, Root), kind # "raw"
      PROVE  Keyed(u, b)
  <2>1. ASSUME NEW m \in 1 .. Len(seq), seq[m][1] # b, seq[m][1] # new
        PROVE  /\ StartOf(seq, m) < seq[m][2]
               /\ \A l \in 1 .. Len(seq) :
                    l < m => StartOf(seq, l) # StartOf(seq, m)
    <3>1. seq[m][1] = r /\ pos # 0 /\ m = 1 /\ StartOf(seq, m) = 0 /\ seq[m][2] = pos
      BY <1>2, <2>1
    <3>2. QED
      BY <1>1, <1>0, <3>1
  <2> HIDE DEF b
  <2>2. QED
    BY <1>1, <1>4, <2>1, CutKeyed
<1>5. ASSUME Keyed(s, Root) \/ Keyed(s, r), len > 0, pos = 0
      PROVE  Keyed(u, new)
  <2>1. ASSUME NEW m \in 1 .. Len(seq), seq[m][1] # new
        PROVE  /\ StartOf(seq, m) < seq[m][2] /\ StartOf(seq, m) > 0
               /\ \A l \in 1 .. Len(seq) :
                    l < m => StartOf(seq, l) # StartOf(seq, m)
    <3>1. m = 2 /\ StartOf(seq, m) = len /\ seq[m][2] = L /\ len # L
      BY <1>1, <1>2, <1>5, <2>1
    <3>2. \A l \in 1 .. Len(seq) : l < m => StartOf(seq, l) = 0
      BY <1>0, <1>1, <1>2, <1>5, <3>1
    <3>3. QED
      BY <1>1, <1>5, <3>1, <3>2
  <2>2. CASE Keyed(s, Root)
    BY <1>1, <2>1, <2>2, CutKeyed
  <2>3. CASE Keyed(s, r)
    BY <1>1, <2>1, <2>3, CutKeyed
  <2>4. QED
    BY <1>5, <2>2, <2>3
<1>6. QED
  BY <1>3, <1>4, <1>5

(* Where the new item and what is behind it are, and that the rest is where  *)
(* it was.                                                                   *)
LEMMA SplitPlaces ==
  ASSUME NEW s, NEW u, NEW p, NEW k, NEW r, NEW pos, NEW len, NEW new, NEW f,
         NEW kind, Splitting(s, u, p, k, r, pos, len, new, f, kind), Good(s)
  PROVE  /\ new \in Items /\ u.kind[new] = kind /\ Len(u.own[new]) = len
         /\ u.position[new] = s.position[r] + pos
         /\ u.kids[new] = <<>> /\ new # p
         /\ \A q \in Lists : q # p => u.kids[q] = s.kids[q]
         /\ pos # 0 => /\ u.kind[r] = "raw" /\ Len(u.own[r]) = pos
                       /\ u.position[r] = s.position[r]
         /\ \A j \in Items :
              \/ j = r
              \/ j = new
              \/ j = f /\ pos # 0 /\ pos + len # Len(s.own[r])
              \/ /\ u.kind[j] = s.kind[j] /\ u.own[j] = s.own[j]
                 /\ u.position[j] = s.position[j]
         /\ Free(s) \ {new, f} \subseteq Free(u)
         /\ pos = 0 => Free(s) \ {new} \subseteq Free(u)
<1> DEFINE seq == PiecesOf(r, pos, pos + len, Len(s.own[r]), new, f)
           L == Len(s.own[r])
           b == IF pos = 0 THEN r ELSE f
<1>1. /\ CutFrom(s, u, p, k, r, seq, new, kind) /\ Whole(s, {})
      /\ Cutting(s, u, p, k, r, seq, new, kind)
      /\ pos \in Nat /\ len \in Nat /\ L \in Nat
      /\ pos + len <= L /\ L > 0 /\ s.position[r] \in Nat
      /\ r \in Items /\ new \in Items /\ s.kind[new] = "free"
      /\ s.kind[r] = "raw" /\ new # r /\ f # new /\ f # r
      /\ p \in Lists /\ k \in 1 .. Len(s.kids[p]) /\ r = s.kids[p][k]
  BY DEF Splitting, Good, CutFrom, Free
<1>2. \A m \in 1 .. Len(seq) :
        \/ /\ seq[m][1] = r /\ pos # 0
           /\ StartOf(seq, m) = 0 /\ seq[m][2] = pos
        \/ /\ seq[m][1] = new
           /\ StartOf(seq, m) = pos /\ seq[m][2] = pos + len
        \/ /\ seq[m][1] = b /\ pos + len # L
           /\ StartOf(seq, m) = pos + len /\ seq[m][2] = L
  <2>1. \A m \in 1 .. Len(seq) :
          PieceAt(seq, m, r, pos, len, Len(s.own[r]), new, f)
    BY PieceIs, Zenon
  <2> HIDE DEF seq
  <2>2. QED
    BY <2>1 DEF PieceAt
<1>3. pos # 0 => \E m \in 1 .. Len(seq) : seq[m][1] = r
  <2>1. pos # 0 /\ pos + len = Len(s.own[r]) => Len(seq) = 2 /\ seq[1][1] = r
    BY PiecesAt
  <2>2. pos # 0 /\ pos + len # Len(s.own[r]) => Len(seq) = 3 /\ seq[1][1] = r
    BY PiecesAt
  <2> HIDE DEF seq
  <2>3. QED
    BY <2>1, <2>2
<1> HIDE DEF seq, L
<1>4. \A m \in 1 .. Len(seq) :
        /\ u.kind[seq[m][1]] = IF seq[m][1] = new THEN kind ELSE "raw"
        /\ Len(u.own[seq[m][1]]) = seq[m][2] - StartOf(seq, m)
        /\ u.position[seq[m][1]] = s.position[r] + StartOf(seq, m)
  BY <1>1 DEF Cutting
<1>5. /\ u.kind[new] = kind /\ Len(u.own[new]) = len
      /\ u.position[new] = s.position[r] + pos
  <2>1. PICK m \in 1 .. Len(seq) : seq[m][1] = new
    BY <1>1 DEF Cutting
  <2>2. StartOf(seq, m) = pos /\ seq[m][2] = pos + len
    BY <1>1, <1>2, <2>1
  <2>3. /\ u.kind[new] = kind /\ Len(u.own[new]) = (pos + len) - pos
        /\ u.position[new] = s.position[r] + pos
    BY <1>4, <2>1, <2>2
  <2>4. (pos + len) - pos = len
    BY <1>1
  <2>5. QED
    BY <2>3, <2>4
<1>6. pos # 0 => /\ u.kind[r] = "raw" /\ Len(u.own[r]) = pos
                 /\ u.position[r] = s.position[r]
  <2> SUFFICES ASSUME pos # 0
               PROVE  /\ u.kind[r] = "raw" /\ Len(u.own[r]) = pos
                      /\ u.position[r] = s.position[r]
    OBVIOUS
  <2>1. PICK m \in 1 .. Len(seq) : seq[m][1] = r
    BY <1>3
  <2>2. StartOf(seq, m) = 0 /\ seq[m][2] = pos
    BY <1>1, <1>2, <2>1
  <2>3. /\ u.kind[r] = "raw" /\ Len(u.own[r]) = pos - 0
        /\ u.position[r] = s.position[r] + 0
    BY <1>1, <1>4, <2>1, <2>2
  <2>4. pos - 0 = pos /\ s.position[r] + 0 = s.position[r]
    BY <1>1
  <2>5. QED
    BY <2>3, <2>4
<1>7. \A q \in Lists : q # p => u.kids[q] = s.kids[q]
  BY <1>1 DEF Cutting
<1>8. new # p /\ u.kids[new] = <<>>
  <2>1. s.kids[new] = <<>>
    BY <1>1 DEF Whole, Owned, Childless
  <2>2. new # p
    BY <1>1, <2>1
  <2>3. QED
    BY <1>1, <1>7, <2>1, <2>2 DEF Lists
<1>9. \A j \in Items :
        (\A m \in 1 .. Len(seq) : seq[m][1] # j) =>
           IF j = r THEN u.kind[j] = "free"
           ELSE /\ u.kind[j] = s.kind[j] /\ u.own[j] = s.own[j]
                /\ u.position[j] = s.position[j]
  BY <1>1 DEF Cutting
<1>10. ASSUME NEW j \in Items, j # r, j # new,
              ~ (j = f /\ pos # 0 /\ pos + len # L)
       PROVE  /\ u.kind[j] = s.kind[j] /\ u.own[j] = s.own[j]
              /\ u.position[j] = s.position[j]
  <2>1. \A m \in 1 .. Len(seq) : seq[m][1] # j
    BY <1>2, <1>10
  <2>2. QED
    BY <1>9, <1>10, <2>1
<1>11. Free(s) \ {new, f} \subseteq Free(u)
  BY <1>1, <1>10 DEF Free
<1>12. pos = 0 => Free(s) \ {new} \subseteq Free(u)
  BY <1>1, <1>10 DEF Free
<1>13. QED
  BY <1>1, <1>5, <1>6, <1>7, <1>8, <1>10, <1>11, <1>12 DEF L

(* b is the item right behind `node`, the k-th child of p. *)
Beside(s, p, k, node, b) ==
  /\ p \in Lists /\ k \in 1 .. Len(s.kids[p]) /\ k + 1 \in 1 .. Len(s.kids[p])
  /\ s.kids[p][k] = node /\ s.kids[p][k + 1] = b

(* The raw item b starts at `at` and has `rest` units. *)
Resting(s, b, at, rest) ==
  /\ b \in Items /\ s.kind[b] = "raw" /\ Len(s.own[b]) = rest
  /\ s.position[b] = at

(* What is behind the new item.                                              *)
LEMMA SplitBehind ==
  ASSUME NEW s, NEW u, NEW p, NEW k, NEW r, NEW pos, NEW len, NEW new, NEW f,
         NEW kind, Splitting(s, u, p, k, r, pos, len, new, f, kind), Good(s),
         pos + len # Len(s.own[r]),
         NEW b, b = (IF pos = 0 THEN r ELSE f)
  PROVE  /\ b # new
         /\ \E l \in Nat : Beside(u, p, l, new, b)
         /\ Resting(u, b, s.position[r] + (pos + len),
                    Len(s.own[r]) - (pos + len))
<1> DEFINE seq == PiecesOf(r, pos, pos + len, Len(s.own[r]), new, f)
           L == Len(s.own[r])
           items == PieceItems(seq)
<1>1. /\ CutFrom(s, u, p, k, r, seq, new, kind)
      /\ Cutting(s, u, p, k, r, seq, new, kind)
      /\ s.kids \in [Lists -> Seq(Items)]
      /\ pos \in Nat /\ len \in Nat /\ L \in Nat
      /\ pos + len <= L /\ L > 0 /\ s.position[r] \in Nat
      /\ f # new /\ new # r
      /\ p \in Lists /\ k \in 1 .. Len(s.kids[p]) /\ r = s.kids[p][k]
  BY DEF Splitting, Good, CutFrom, Whole, Shaped
<1>2. pos = 0 => /\ Len(seq) = 2 /\ seq[1][1] = new /\ seq[2][1] = b
                 /\ StartOf(seq, 2) = pos + len /\ seq[2][2] = L
  <2>1. pos = 0 /\ pos + len # Len(s.own[r]) =>
          /\ Len(seq) = 2 /\ seq[1][1] = new /\ seq[2][1] = r
          /\ StartOf(seq, 2) = pos + len /\ seq[2][2] = Len(s.own[r])
    BY PiecesAt
  <2> HIDE DEF seq
  <2>2. QED
    BY <2>1
<1>3. pos # 0 => /\ Len(seq) = 3 /\ seq[2][1] = new /\ seq[3][1] = b
                 /\ StartOf(seq, 3) = pos + len /\ seq[3][2] = L
  <2>1. pos # 0 /\ pos + len # Len(s.own[r]) =>
          /\ Len(seq) = 3 /\ seq[2][1] = new /\ seq[3][1] = f
          /\ StartOf(seq, 3) = pos + len /\ seq[3][2] = Len(s.own[r])
    BY PiecesAt
  <2> HIDE DEF seq
  <2>2. QED
    BY <2>1
<1> HIDE DEF seq
<1>4. /\ DOMAIN seq = 1 .. Len(seq) /\ Len(seq) \in Nat
      /\ \A m \in 1 .. Len(seq) : seq[m][1] \in Items
      /\ u.kids \in [Lists -> Seq(Items)]
  BY <1>1, CutLists
<1>5. /\ items \in Seq(Items) /\ Len(items) = Len(seq)
      /\ \A m \in 1 .. Len(seq) : items[m] = seq[m][1]
  BY <1>4 DEF PieceItems
<1>6. u.kids[p] = Spliced(s.kids[p], k, items)
  BY <1>1 DEF Cutting
<1> HIDE DEF items, L
<1>7. /\ Len(u.kids[p]) = Len(s.kids[p]) - 1 + Len(items)
      /\ \A j \in 1 .. Len(u.kids[p]) :
           k <= j /\ j < k + Len(items) => u.kids[p][j] = items[(j - k) + 1]
  <2>1. s.kids[p] \in Seq(Items) /\ Len(s.kids[p]) \in Nat
    BY <1>1
  <2>2. /\ Len(Spliced(s.kids[p], k, items)) = Len(s.kids[p]) - 1 + Len(items)
        /\ \A j \in 1 .. Len(Spliced(s.kids[p], k, items)) :
             Spliced(s.kids[p], k, items)[j] =
               IF j < k THEN s.kids[p][j]
               ELSE IF j < k + Len(items) THEN items[(j - k) + 1]
               ELSE s.kids[p][(j - Len(items)) + 1]
    <3>1. s.kids[p] \in Seq(Items) /\ k \in 1 .. Len(s.kids[p])
      BY <1>1
    <3>2. items \in Seq(Items)
      BY <1>5
    <3>3. QED
      BY <3>1, <3>2, SplicedSeq, Zenon
  <2>3. \A j \in 1 .. Len(u.kids[p]) : k <= j => ~ (j < k)
    BY <1>1, <2>1
  <2>4. QED
    BY <1>6, <2>2, <2>3
<1>8. \E m \in 1 .. Len(seq) :
        /\ seq[m][1] = b /\ StartOf(seq, m) = pos + len /\ seq[m][2] = L
        /\ m > 1 /\ seq[m - 1][1] = new
  <2>1. CASE pos = 0
    <3>0. Len(seq) = 2
      BY <1>2, <2>1
    <3>1. 2 \in 1 .. Len(seq) /\ 2 > 1 /\ 2 - 1 = 1
      BY <3>0
    <3>2. QED
      BY <1>2, <2>1, <3>1
  <2>2. CASE pos # 0
    <3>0. Len(seq) = 3
      BY <1>3, <2>2
    <3>1. 3 \in 1 .. Len(seq) /\ 3 > 1 /\ 3 - 1 = 2
      BY <3>0
    <3>2. QED
      BY <1>3, <2>2, <3>1
  <2>3. QED
    BY <2>1, <2>2
<1>9. PICK m \in 1 .. Len(seq) :
        /\ seq[m][1] = b /\ StartOf(seq, m) = pos + len /\ seq[m][2] = L
        /\ m > 1 /\ seq[m - 1][1] = new
  BY <1>8
<1>10. b # new
  BY <1>1
<1>11. Resting(u, b, s.position[r] + (pos + len), L - (pos + len))
  <2>1. /\ u.kind[b] = "raw" /\ Len(u.own[b]) = L - (pos + len)
        /\ u.position[b] = s.position[r] + (pos + len)
    BY ZenonT(30), <1>1, <1>9, <1>10 DEF Cutting
  <2>2. b \in Items
    BY <1>4, <1>9
  <2>3. QED
    BY Zenon, <2>1, <2>2 DEF Resting
<1>12. \E l \in Nat : Beside(u, p, l, new, b)
  <2> DEFINE l == k + (m - 2)
             K == Len(s.kids[p])
             N == Len(items)
  <2>1. /\ m \in 1 .. N /\ m > 1 /\ N \in Nat
        /\ k \in 1 .. K /\ K \in Nat /\ Len(u.kids[p]) = K - 1 + N
    BY <1>1, <1>4, <1>5, <1>7, <1>9
  <2> HIDE DEF K, N
  <2>2. /\ l \in Nat /\ l \in 1 .. Len(u.kids[p])
        /\ l + 1 \in 1 .. Len(u.kids[p])
        /\ k <= l /\ l < k + N /\ k <= l + 1 /\ l + 1 < k + N
        /\ (l - k) + 1 = m - 1 /\ ((l + 1) - k) + 1 = m
        /\ m - 1 \in 1 .. N
    BY <2>1
  <2> HIDE DEF l
  <2>3. u.kids[p][l] = items[m - 1] /\ u.kids[p][l + 1] = items[m]
    BY <1>7, <2>2 DEF N
  <2>4. u.kids[p][l] = new /\ u.kids[p][l + 1] = b
    BY <1>5, <1>9, <2>2, <2>3 DEF N
  <2>5. QED
    BY <1>1, <2>2, <2>4 DEF Beside
<1>13. QED
  BY <1>10, <1>11, <1>12 DEF L

-----------------------------------------------------------------------------
(* Children that are made of what is behind a node *)

(* w is v when c, which nothing finds any more, became the only child of     *)
(* `node`.                                                                   *)
Moving(v, w, node, c) ==
  /\ w.kind = v.kind /\ w.own = v.own /\ w.position = v.position
  /\ w.label = v.label /\ w.kids[node] = <<c>>
  /\ DOMAIN w.pmap = {q \in DOMAIN v.pmap : v.pmap[q] # c}
  /\ \A q \in DOMAIN w.pmap : w.pmap[q] = v.pmap[q]
  /\ \A x \in Items : TopLevel(w, x) => TopLevel(v, x) /\ x # c

(* An item goes from one list to another.                                    *)
LEMMA MovedFields ==
  ASSUME NEW v, Whole(v, {}), NEW node \in Items, v.kind[node] = "node",
         v.kids[node] = <<>>, NEW p \in Lists, NEW k \in 1 .. Len(v.kids[p]),
         NEW c, c = v.kids[p][k],
         NEW w, w = Moved(v, node, c, p)
  PROVE  Whole(w, {}) /\ Moving(v, w, node, c)
<1> DEFINE s == Removed(v, {c})
           kids1 == [s.kids EXCEPT ![p] = RemoveAt(@, IndexIn(@, c))]
           kids2 == [kids1 EXCEPT ![node] = Append(s.kids[node], c)]
<1>1. /\ Shaped(v) /\ Owned(v, {}) /\ Fields \subseteq DOMAIN v
      /\ v.kids \in [Lists -> Seq(Items)] /\ Once(v.kids)
      /\ node \in Lists /\ Root \in Lists /\ node # Root
  BY DEF Whole, Owned, Shaped, Lists, Items, Root
<1>2. Removing(v, s, {c})
  BY <1>1, RemovedFields
<1>3. /\ c \in Items /\ Distinct(v.kids[p]) /\ IndexIn(v.kids[p], c) = k
  BY <1>1, Placed
<1>4. Listed(v.kids, c) /\ p # node
  BY DEF Listed
<1>5. /\ w.kids = kids2
      /\ DOMAIN w = DOMAIN s /\ w.kind = s.kind /\ w.own = s.own
      /\ w.position = s.position /\ w.label = s.label /\ w.pmap = s.pmap
  <2> HIDE DEF s
  <2>1. "kids" \in DOMAIN s
    BY <1>1, <1>2 DEF Removing, Fields
  <2>2. w = [s EXCEPT !.kids[p] = RemoveAt(s.kids[p], IndexIn(s.kids[p], c)),
                      !.kids[node] = Append(s.kids[node], c)]
    BY <1>4 DEF Moved, s
  <2>3. QED
    BY <2>1, <2>2
<1>6. /\ s.kids = v.kids /\ s.kind = v.kind /\ s.own = v.own
      /\ s.position = v.position /\ s.label = v.label
      /\ DOMAIN s.pmap = {q \in DOMAIN v.pmap : v.pmap[q] # c}
      /\ \A q \in DOMAIN s.pmap : s.pmap[q] = v.pmap[q]
      /\ DOMAIN s = DOMAIN v
  BY <1>1, <1>2 DEF Removing, Shaped
<1> HIDE DEF s
<1>7. /\ kids1 \in [Lists -> Seq(Items)]
      /\ Exchanging(v.kids, kids1, p, k, <<>>)
  <2>1. v.kids[p] \in Seq(Items)
    BY <1>1
  <2>2. RemoveAt(v.kids[p], k) = Spliced(v.kids[p], k, <<>>)
    BY <1>3, <2>1, SplicedForms
  <2>3. <<>> \in Seq(Items) /\ Len(<<>>) = 0
    OBVIOUS
  <2>4. Spliced(v.kids[p], k, <<>>) \in Seq(Items)
    BY <2>1, <2>3, SplicedSeq
  <2>5. kids1 = [v.kids EXCEPT ![p] = Spliced(v.kids[p], k, <<>>)]
    BY <1>1, <1>3, <1>6, <2>2
  <2> HIDE DEF kids1
  <2>6. kids1 \in [Lists -> Seq(Items)]
    BY <1>1, <2>4, <2>5
  <2>7. \A j \in Lists :
          kids1[j] = IF j = p THEN Spliced(v.kids[p], k, <<>>) ELSE v.kids[j]
    BY <1>1, <2>5
  <2>8. Distinct(<<>>) /\ \A m \in 1 .. Len(<<>>) :
          <<>>[m] = v.kids[p][k] \/ ~ Listed(v.kids, <<>>[m])
    BY <2>3 DEF Distinct
  <2>9. QED
    BY <2>3, <2>6, <2>7, <2>8 DEF Exchanging
<1>8. /\ Once(kids1)
      /\ \A j \in Items : Listed(kids1, j) <=> Listed(v.kids, j) /\ j # c
  <2>1. Exchanged(v.kids, kids1, c, <<>>)
    BY <1>1, <1>7, Exchange
  <2>2. Len(<<>>) = 0
    OBVIOUS
  <2> HIDE DEF kids1
  <2>3. QED
    BY <2>1, <2>2 DEF Exchanged
<1>9. kids1[node] = <<>> /\ \A j \in Lists : j # p => kids1[j] = v.kids[j]
  BY <1>1, <1>4, <1>7 DEF Exchanging
<1> HIDE DEF kids1
<1>10. /\ kids2 \in [Lists -> Seq(Items)] /\ Once(kids2)
       /\ \A j \in Items : Listed(kids2, j) <=> Listed(kids1, j) \/ j = c
  <2>1. ~ Listed(kids1, c)
    BY <1>3, <1>8
  <2>2. kids2 = [kids1 EXCEPT ![node] = Append(kids1[node], c)]
    BY <1>1, <1>4, <1>6, <1>7, <1>9
  <2> HIDE DEF kids2
  <2>3. Attaching(kids1, kids2, node, c)
    BY <1>1, <1>3, <1>7, <1>8, <2>1, <2>2 DEF Attaching
  <2>4. QED
    BY <2>3, Attached
<1>11. kids2[node] = <<c>> /\ \A j \in Lists : j # node => kids2[j] = kids1[j]
  <2>1. s.kids[node] = <<>> /\ Append(<<>>, c) = <<c>>
    BY <1>6
  <2>2. kids2 = [kids1 EXCEPT ![node] = <<c>>]
    BY <2>1
  <2> HIDE DEF kids2
  <2>3. QED
    BY <1>1, <1>7, <2>2
<1> HIDE DEF kids2
<1>12. Whole(w, {})
  <2>1. Shaped(w)
    <3>1. DOMAIN w.pmap \subseteq 0 .. Size
      BY <1>1, <1>5, <1>6 DEF Shaped
    <3>2. \A q \in DOMAIN w.pmap :
            w.pmap[q] \in Items /\ w.position[w.pmap[q]] = q
      BY <1>1, <1>5, <1>6 DEF Shaped
    <3>3. Fields \subseteq DOMAIN w /\ w.kids \in [Lists -> Seq(Items)]
      BY <1>1, <1>5, <1>6, <1>10
    <3>4. QED
      BY <1>1, <1>5, <1>6, <3>1, <3>2, <3>3 DEF Shaped
  <2>2. \A j \in Items : Listed(w.kids, j) <=> Listed(v.kids, j)
    BY <1>4, <1>5, <1>8, <1>10
  <2>3. \A i \in Items : w.kind[i] \in Childless => w.kids[i] = <<>>
    <3>1. TAKE i \in Items
    <3>2. HAVE w.kind[i] \in Childless
    <3>3. i # node /\ v.kids[i] = <<>>
      BY <1>1, <1>5, <1>6, <3>2 DEF Owned, Childless
    <3>4. i # p
      BY <3>3
    <3>5. QED
      BY <1>5, <1>9, <1>11, <3>3, <3>4 DEF Lists
  <2>4. \A n \in Names : w.label[n] # Unset => Listed(w.kids, w.label[n].item)
    <3>1. TAKE n \in Names
    <3>2. HAVE w.label[n] # Unset
    <3>3. w.label[n].item \in Items /\ Listed(v.kids, w.label[n].item)
      BY <1>1, <1>5, <1>6, <3>2 DEF Owned, Shaped, Pointers
    <3>4. QED
      BY <2>2, <3>3
  <2>5. \A q \in DOMAIN w.pmap : Listed(w.kids, w.pmap[q])
    BY <1>1, <1>5, <1>6, <2>2, SMTT(30) DEF Owned, Shaped
  <2>6. QED
    BY <1>1, <1>5, <1>6, <1>10, <2>1, <2>2, <2>3, <2>4, <2>5 DEF Whole, Owned
<1>13. ASSUME NEW x \in Items, TopLevel(w, x)
       PROVE  TopLevel(v, x) /\ x # c
  <2>1. w.kids[Root] = kids1[Root]
    BY <1>1, <1>5, <1>11
  <2>2. Listed(kids1, x)
    BY <1>1, <1>13, <2>1 DEF TopLevel, Listed
  <2>3. x # c /\ Listed(v.kids, x)
    BY <1>8, <2>2
  <2>4. PICK q \in Lists : \E l \in 1 .. Len(v.kids[q]) : v.kids[q][l] = x
    BY <2>3 DEF Listed
  <2>5. CASE q = Root
    BY <2>3, <2>4, <2>5 DEF TopLevel
  <2>6. CASE q # Root /\ q # p
    <3>1. kids1[q] = v.kids[q]
      BY <1>9, <2>6
    <3>2. QED
      BY <1>1, <1>8, <1>13, <2>1, <2>4, <2>6, <3>1, SMTT(30) DEF TopLevel, Once
  <2>7. CASE q # Root /\ q = p
    <3>1. kids1[Root] = v.kids[Root]
      BY <1>1, <1>9, <2>7
    <3>2. QED
      BY <1>13, <2>1, <2>3, <3>1 DEF TopLevel
  <2>8. QED
    BY <2>5, <2>6, <2>7
<1>14. QED
  BY <1>5, <1>6, <1>11, <1>12, <1>13 DEF Moving

(* `node`, which has no children, is the k-th child of p, and b is the raw   *)
(* item behind it, of which `size` units can be cut.                         *)
Nestable(s, node, p, k, b, size) ==
  /\ Good(s) /\ Beside(s, p, k, node, b)
  /\ node \in Items /\ s.kind[node] = "node" /\ s.kids[node] = <<>>
  /\ b \in RawsOf(s) /\ Len(s.own[b]) > 0
  /\ size \in Nat /\ size <= Len(s.own[b]) /\ Free(s) # {}

(* The position of b is the key of an item that has no byte there. *)
Taken(s, b) == s.position[b] \in DOMAIN s.pmap /\ s.pmap[s.position[b]] # b

(* No raw item ends where b starts. *)
Alone(s, b) ==
  /\ s.position[b] # 0
  /\ \A x \in RawsOf(s) \ {b} : EndOf(s, x) # s.position[b]

(* w is s when c, `size` units of the item behind it, became the child of    *)
(* `node`.                                                                   *)
Nesting(s, w, node, c, size) ==
  /\ Good(w) /\ w.kids[node] = <<c>> /\ w.kind[node] = "node"
  /\ c \in RawsOf(w) /\ Len(w.own[c]) = size
  /\ \A q \in DOMAIN w.pmap : w.pmap[q] # c
  /\ Free(s) \ {c} \subseteq Free(w)

(* A piece of a raw item that becomes the child of a node takes its key, if  *)
(* it has one, out of the pointer map: nothing else may end there.           *)
LEMMA MovedGood ==
  ASSUME NEW s, NEW v, NEW p, NEW k, NEW b, NEW size, NEW c, NEW f,
         Splitting(s, v, p, k, b, 0, size, c, f, "raw"), Good(s), Good(v),
         Taken(s, b) \/ (size > 0 /\ Alone(s, b)),
         NEW w, NEW node, Moving(v, w, node, c), Whole(w, {})
  PROVE  Good(w)
<1>1. /\ CutFrom(s, v, p, k, b, PiecesOf(b, 0, 0 + size, Len(s.own[b]), c, f),
                 c, "raw")
      /\ size \in Nat /\ Len(s.own[b]) \in Nat /\ Len(s.own[b]) > 0
      /\ s.position[b] \in Nat /\ b \in RawsOf(s) /\ b # c /\ c \in Items
      /\ size <= Len(s.own[b])
  BY DEF Splitting, CutFrom, RawsOf, Free
<1> DEFINE P == s.position[b]
           L == Len(s.own[b])
           seq == PiecesOf(b, 0, 0 + size, L, c, f)
<1>2. Remapping(s, v, b, seq)
  BY Zenon, <1>1 DEF CutFrom, Cutting
<1> HIDE DEF seq
<1>3. /\ v.kind[c] = "raw" /\ Len(v.own[c]) = size /\ v.position[c] = P
      /\ \A j \in Items :
           \/ j = b
           \/ j = c
           \/ /\ v.kind[j] = s.kind[j] /\ v.own[j] = s.own[j]
              /\ v.position[j] = s.position[j]
  <2>1. /\ v.kind[c] = "raw" /\ Len(v.own[c]) = size
        /\ v.position[c] = s.position[b] + 0
        /\ \A j \in Items :
             \/ j = b
             \/ j = c
             \/ j = f /\ 0 # 0 /\ 0 + size # Len(s.own[b])
             \/ /\ v.kind[j] = s.kind[j] /\ v.own[j] = s.own[j]
                /\ v.position[j] = s.position[j]
    BY SplitPlaces
  <2>2. s.position[b] + 0 = s.position[b]
    BY <1>1
  <2>3. QED
    BY <2>1, <2>2
<1>4. size # L => v.kind[b] = "raw" /\ EndOf(v, b) = P + L /\ v.position[b] = P + size
  <2> SUFFICES ASSUME size # L
               PROVE v.kind[b] = "raw" /\ EndOf(v, b) = P + L /\ v.position[b] = P + size
    OBVIOUS
  <2>1. 0 + size # Len(s.own[b]) /\ 0 + size = size
    BY <1>1
  <2>2. Resting(v, b, s.position[b] + (0 + size), Len(s.own[b]) - (0 + size))
    BY <2>1, SplitBehind
  <2>3. v.kind[b] = "raw" /\ Len(v.own[b]) = L - size /\ v.position[b] = P + size
    BY <2>1, <2>2 DEF Resting
  <2> HIDE DEF P, L
  <2>4. QED
    BY <1>1, <2>3, SMTT(30) DEF EndOf, P, L
<1>5. /\ Shaped(s) /\ Shaped(v) /\ Regular(s) /\ Regular(v)
  BY DEF Good, Whole
<1>6. ASSUME NEW q \in DOMAIN v.pmap, v.pmap[q] = c
      PROVE  q = P /\ ~ Taken(s, b)
  <2>1. q = P
    BY <1>3, <1>5, <1>6 DEF Shaped
  <2>2. ASSUME Taken(s, b) PROVE FALSE
    <3>1. P \in DOMAIN s.pmap /\ s.pmap[P] # b
      BY <2>2 DEF Taken
    <3>2. v.pmap[P] = s.pmap[P]
      BY <1>2, <1>6, <2>1, <3>1 DEF Remapping
    <3>3. s.pmap[P] = c
      BY <1>6, <2>1, <3>2
    <3>4. s.kind[c] # "free"
      BY <3>1, <3>3, <1>1 DEF Good, Whole, Owned
    <3>5. QED
      BY <3>4 DEF Splitting, Free
  <2>3. QED
    BY <2>1, <2>2
<1> HIDE DEF P, L
<1>7. ASSUME NEW q \in DOMAIN v.pmap,
             q = 0 \/ q = Size \/ \E x \in RawsOf(v) : q = EndOf(v, x)
      PROVE  v.pmap[q] # c
  <2> SUFFICES ASSUME v.pmap[q] = c PROVE FALSE
    OBVIOUS
  <2>1. q = P /\ size > 0 /\ Alone(s, b)
    BY <1>6
  <2>2. P # 0 /\ \A x \in RawsOf(s) \ {b} : EndOf(s, x) # P
    BY <2>1 DEF Alone, P
  <2>3. P \in Nat /\ L \in Nat /\ L > 0 /\ size \in Nat /\ size <= L
    BY <1>1 DEF P, L
  <2>4. P # Size
    <3>1. EndOf(s, b) <= Size
      BY <1>1 DEF CutFrom
    <3>2. P + L <= Size
      BY <3>1 DEF EndOf, P, L
    <3>3. QED
      BY <2>3, <3>2, ItemTreeAssumption
  <2>5. ASSUME NEW x \in RawsOf(v), P = EndOf(v, x) PROVE FALSE
    <3>1. CASE x = c
      <4>1. EndOf(v, x) = P + size
        BY <1>3, <3>1 DEF EndOf
      <4>2. QED
        BY <2>1, <2>3, <2>5, <4>1
    <3>2. CASE x = b /\ size # L
      BY <1>4, <2>3, <2>5, <3>2
    <3>3. CASE x = b /\ size = L
      <4>1. v.kind[b] = "free"
        <5>1. \A m \in 1 .. Len(seq) : seq[m][1] # b
          <6>1. Len(seq) = 1 /\ seq[1][1] = c
            <7>1. 0 = 0 /\ 0 + size = Len(s.own[b]) =>
                    Len(seq) = 1 /\ seq[1][1] = c
              BY PiecesAt DEF seq, L
            <7>2. 0 + size = Len(s.own[b])
              BY <1>1, <3>3 DEF L
            <7>3. QED
              BY <7>1, <7>2
          <6>2. \A m \in 1 .. Len(seq) : m = 1
            BY <6>1
          <6>3. QED
            BY <1>1, <6>1, <6>2
        <5>2. \A j \in Items : (\A m \in 1 .. Len(seq) : seq[m][1] # j) =>
                (j = b => v.kind[j] = "free")
          BY Zenon, <1>1 DEF CutFrom, Cutting, seq, L
        <5>3. QED
          BY <1>1, <5>1, <5>2 DEF RawsOf
      <4>2. QED
        BY <2>5, <3>3, <4>1 DEF RawsOf
    <3>4. CASE x # b /\ x # c
      <4>1. x \in RawsOf(s) /\ EndOf(s, x) = EndOf(v, x)
        BY <1>3, <3>4 DEF RawsOf, EndOf
      <4>2. QED
        BY <2>2, <2>5, <3>4, <4>1
    <3>5. QED
      BY <3>1, <3>2, <3>3, <3>4
  <2>6. QED
    BY <1>7, <2>1, <2>2, <2>4, <2>5
<1>8. /\ w.kind = v.kind /\ w.own = v.own /\ w.position = v.position
      /\ w.label = v.label
      /\ DOMAIN w.pmap = {q \in DOMAIN v.pmap : v.pmap[q] # c}
      /\ \A q \in DOMAIN w.pmap : w.pmap[q] = v.pmap[q]
  BY DEF Moving
<1>9. RawsOf(w) = RawsOf(v) /\ \A i \in Items : EndOf(w, i) = EndOf(v, i)
  BY <1>8 DEF RawsOf, EndOf
<1>10. Regular(w)
  <2>1. \A i \in Items : w.kind[i] # "free" => w.position[i] \in Nat
    BY <1>5, <1>8 DEF Regular
  <2>2. {0, Size} \subseteq DOMAIN w.pmap
    <3>1. 0 \in DOMAIN v.pmap /\ Size \in DOMAIN v.pmap
      BY <1>5 DEF Regular
    <3>2. v.pmap[0] # c /\ v.pmap[Size] # c
      BY <1>7, <3>1
    <3>3. QED
      BY <1>8, <3>1, <3>2
  <2>3. \A r \in RawsOf(w) : EndOf(w, r) \in DOMAIN w.pmap
    <3>1. TAKE r \in RawsOf(w)
    <3>2. r \in RawsOf(v) /\ EndOf(w, r) = EndOf(v, r)
      BY <1>9 DEF RawsOf
    <3>3. EndOf(v, r) \in DOMAIN v.pmap
      BY <1>5, <3>2 DEF Regular
    <3>4. v.pmap[EndOf(v, r)] # c
      BY <1>7, <3>2, <3>3
    <3>5. QED
      BY <1>8, <3>2, <3>3, <3>4
  <2>4. \A q \in DOMAIN w.pmap :
          w.pmap[q] \in RawsOf(w) => Len(w.own[w.pmap[q]]) > 0
    BY <1>5, <1>8, <1>9 DEF Regular
  <2>5. \A n \in Names :
          w.label[n] # Unset /\ w.label[n].item \in RawsOf(w) =>
            w.label[n].offset < Len(w.own[w.label[n].item])
    BY <1>5, <1>8, <1>9 DEF Regular
  <2>6. Apart(w)
    <3>1. Apart(v)
      BY <1>5 DEF Regular
    <3>2. \A r \in RawsOf(v) : r \in Items
      BY DEF RawsOf
    <3>3. QED
      BY <1>8, <1>9, <3>1, <3>2 DEF Apart
  <2>7. Disjoint(w)
    <3>1. Disjoint(v)
      BY <1>5 DEF Regular
    <3>2. \A r \in RawsOf(v) : r \in Items
      BY DEF RawsOf
    <3>3. QED
      BY <1>8, <1>9, <3>1, <3>2 DEF Disjoint
  <2>8. QED
    BY <2>1, <2>2, <2>3, <2>4, <2>5, <2>6, <2>7 DEF Regular
<1>11. QED
  BY <1>10 DEF Good

(* ItemWithChildren::MoveNextToChild.                                        *)
LEMMA Nested ==
  ASSUME NEW s, NEW node, NEW p, NEW k, NEW b, NEW size,
         Nestable(s, node, p, k, b, size),
         \/ size > 0 /\ (Alone(s, b) \/ Taken(s, b))
         \/ Taken(s, b) /\ \A n \in LabelsOf(s, b) : s.label[n].offset # 0,
         NEW w, w = MoveNextToChild(s, node, size)
  PROVE  /\ Nesting(s, w, node, Fresh(s), size)
         /\ size > 0 /\ (Keyed(s, Root) \/ Keyed(s, b)) => Keyed(w, Root)
<1> DEFINE c == Fresh(s)
           v == Split(s, b, 0, size, "raw")
<1>1. /\ Good(s) /\ Whole(s, {}) /\ s.kids \in [Lists -> Seq(Items)]
      /\ Once(s.kids)
      /\ p \in Lists /\ k \in 1 .. Len(s.kids[p])
      /\ k + 1 \in 1 .. Len(s.kids[p])
      /\ s.kids[p][k] = node /\ b = s.kids[p][k + 1]
      /\ node \in Items /\ s.kind[node] = "node" /\ s.kids[node] = <<>>
      /\ b \in RawsOf(s) /\ Len(s.own[b]) > 0
      /\ size \in Nat /\ size <= Len(s.own[b]) /\ Free(s) # {}
      /\ b \in Items /\ s.kind[b] = "raw" /\ node # p
  <2>1. Good(s) /\ Beside(s, p, k, node, b)
    BY DEF Nestable
  <2>2. Whole(s, {}) /\ s.kids \in [Lists -> Seq(Items)] /\ Once(s.kids)
    BY <2>1 DEF Good, Whole, Owned, Shaped
  <2>3. /\ p \in Lists /\ k \in 1 .. Len(s.kids[p])
        /\ k + 1 \in 1 .. Len(s.kids[p])
        /\ s.kids[p][k] = node /\ b = s.kids[p][k + 1]
    BY <2>1 DEF Beside
  <2>4. /\ node \in Items /\ s.kind[node] = "node" /\ s.kids[node] = <<>>
        /\ b \in RawsOf(s) /\ Len(s.own[b]) > 0
        /\ size \in Nat /\ size <= Len(s.own[b]) /\ Free(s) # {}
    BY DEF Nestable
  <2>5. b \in Items /\ s.kind[b] = "raw"
    BY <2>4 DEF RawsOf
  <2>6. node # p
    <3>1. ~ (k \in 1 .. Len(<<>>))
      OBVIOUS
    <3>2. QED
      BY <2>3, <2>4, <3>1
  <2> HIDE DEF v, c
  <2>7. QED
    BY <2>1, <2>2, <2>3, <2>4, <2>5, <2>6
<1>2. Parent(s, node) = p /\ Behind(s, node) = b
  <2>1. Parent(s, node) = p /\ IndexIn(s.kids[p], node) = k
    BY <1>1, Placed
  <2>2. QED
    BY <1>1, <2>1 DEF Behind
<1>3. w = Moved(v, node, c, p)
  BY <1>2 DEF MoveNextToChild, Applied
<1>4. PICK f \in Nat : Splitting(s, v, p, k + 1, b, 0, size, c, f, "raw")
  <2>1. Cutable(s, b, 0, size)
    BY <1>1, SMTT(30) DEF Cutable
  <2> HIDE DEF v, c
  <2>2. QED
    BY <1>1, <2>1, SplitOf DEF v, c
<1> HIDE DEF v, c
<1>5. Good(v)
  BY <1>1, <1>4, SplitGood DEF Taken
<1>6. /\ c \in Items /\ v.kind[c] = "raw" /\ Len(v.own[c]) = size
      /\ v.position[c] = s.position[b] + 0
      /\ \A q \in Lists : q # p => v.kids[q] = s.kids[q]
      /\ \A j \in Items :
           \/ j = b
           \/ j = c
           \/ j = f /\ 0 # 0 /\ 0 + size # Len(s.own[b])
           \/ /\ v.kind[j] = s.kind[j] /\ v.own[j] = s.own[j]
              /\ v.position[j] = s.position[j]
      /\ 0 = 0 => Free(s) \ {c} \subseteq Free(v)
  BY <1>1, <1>4, SplitPlaces
<1>7. v.kids[node] = <<>> /\ v.kind[node] = "node"
  <2>1. node # b
    BY <1>1
  <2>2. node # c
    BY <1>1, <1>4 DEF Splitting, Free
  <2>3. QED
    BY <1>1, <1>6, <2>1, <2>2 DEF Lists
<1>8. \E l \in 1 .. Len(v.kids[p]) : v.kids[p][l] = c
  <2>1. Listed(v.kids, c)
    BY <1>5, <1>6 DEF Good, Whole, Owned
  <2>2. PICK q \in Lists : \E l \in 1 .. Len(v.kids[q]) : v.kids[q][l] = c
    BY <2>1 DEF Listed
  <2>3. ASSUME q # p PROVE FALSE
    <3>1. v.kids[q] = s.kids[q]
      BY <1>6, <2>3
    <3>2. Listed(s.kids, c)
      BY <2>2, <3>1 DEF Listed
    <3>3. QED
      BY <1>1, <1>4, <1>6, <3>2 DEF Whole, Owned, Splitting, Free
  <2>4. QED
    BY <2>2, <2>3
<1>9. PICK l \in 1 .. Len(v.kids[p]) : v.kids[p][l] = c
  BY <1>8
<1>10. Whole(w, {}) /\ Moving(v, w, node, c)
  <2>1. Whole(v, {}) /\ c = v.kids[p][l]
    BY <1>5, <1>9 DEF Good
  <2>2. QED
    BY <1>1, <1>3, <1>7, <2>1, MovedFields
<1>11. Good(w)
  <2>1. Taken(s, b) \/ (size > 0 /\ Alone(s, b))
    OBVIOUS
  <2>2. QED
    BY <1>1, <1>4, <1>5, <1>10, <2>1, MovedGood
<1>12. Nesting(s, w, node, c, size)
  <2>1. c \in RawsOf(w) /\ Len(w.own[c]) = size /\ w.kind[node] = "node"
    BY <1>6, <1>7, <1>10 DEF Moving, RawsOf
  <2>2. \A q \in DOMAIN w.pmap : w.pmap[q] # c
    BY <1>10 DEF Moving
  <2>3. Free(s) \ {c} \subseteq Free(w)
    BY <1>6, <1>10 DEF Moving, Free
  <2>4. QED
    BY <1>10, <1>11, <2>1, <2>2, <2>3 DEF Nesting, Moving
<1>13. ASSUME size > 0, Keyed(s, Root) \/ Keyed(s, b)
       PROVE  Keyed(w, Root)
  <2>1. Keyed(v, c)
    <3>1. (Keyed(s, Root) \/ Keyed(s, b)) /\ size > 0 /\ 0 = 0 => Keyed(v, c)
      BY <1>1, <1>4, SplitKeyed
    <3>2. QED
      BY <1>13, <3>1
  <2>2. SUFFICES ASSUME NEW r \in RawsOf(w), TopLevel(w, r)
                 PROVE  /\ w.position[r] \in DOMAIN w.pmap
                        /\ w.pmap[w.position[r]] = r
    BY DEF Keyed
  <2>3. r \in Items /\ r \in RawsOf(v) /\ w.position[r] = v.position[r]
    BY <1>10 DEF RawsOf, Moving
  <2>4. TopLevel(v, r) /\ r # c
    BY <1>10, <2>2, <2>3 DEF Moving
  <2>5. v.position[r] \in DOMAIN v.pmap /\ v.pmap[v.position[r]] = r
    BY <2>1, <2>3, <2>4 DEF Keyed
  <2>6. QED
    BY <1>10, <2>3, <2>4, <2>5 DEF Moving
<1>14. QED
  BY <1>12, <1>13 DEF c

-----------------------------------------------------------------------------
(* New items in place of others *)

(* i, which is not raw, can be replaced: what it has is found by nothing. *)
Replaceable(s, i) ==
  /\ Good(s) /\ Free(s) # {} /\ i \in Items
  /\ s.kind[i] # "free" /\ s.kind[i] # "raw"
  /\ \A c \in Range(s.kids[i]) :
       /\ s.kids[c] = <<>>
       /\ \A n \in Names : s.label[n] = Unset \/ s.label[n].item # c
       /\ \A q \in DOMAIN s.pmap : s.pmap[q] # c

(* Context::Create and Item::Replace.                                        *)
LEMMA ReplacedGood ==
  ASSUME NEW s, NEW i, Replaceable(s, i), NEW own \in Seq(Nat),
         NEW u, u = Replaced(Create(s, "leaf", own), i, Fresh(s))
  PROVE  Good(u) /\ (Keyed(s, Root) => Keyed(u, Root))
<1> DEFINE new == Fresh(s)
           s1 == Create(s, "leaf", own)
           gone == {i} \union Range(s.kids[i])
<1>1. /\ Good(s) /\ Whole(s, {}) /\ Shaped(s) /\ Owned(s, {}) /\ Regular(s)
      /\ Free(s) # {} /\ i \in Items
      /\ s.kind[i] # "free" /\ s.kind[i] # "raw"
      /\ s.kids \in [Lists -> Seq(Items)]
      /\ i \in Lists
  BY DEF Replaceable, Good, Whole, Shaped, Lists
<1>2. \A c \in Range(s.kids[i]) :
        /\ c \in Items /\ Listed(s.kids, c)
        /\ s.kids[c] = <<>>
        /\ \A n \in Names : s.label[n] = Unset \/ s.label[n].item # c
        /\ \A q \in DOMAIN s.pmap : s.pmap[q] # c
  <2>1. \A c \in Range(s.kids[i]) : c \in Items /\ Listed(s.kids, c)
    BY <1>1, KidsOf
  <2>2. QED
    BY <2>1 DEF Replaceable
<1>3. Creating(s, s1, new, {}, "leaf", own)
  BY <1>1, Created
<1> HIDE DEF s1, new
<1>4. /\ new \in Items /\ s.kind[new] = "free" /\ ~ Listed(s.kids, new)
      /\ s1.kids = s.kids /\ s1.position = s.position
      /\ s1.pmap = s.pmap /\ s1.label = s.label
      /\ s1.kind = [s.kind EXCEPT ![new] = "leaf"]
      /\ Whole(s1, {new})
  <2>1. {} \union {new} = {new}
    OBVIOUS
  <2>2. QED
    BY <1>3, <2>1 DEF Creating
<1>5. /\ Listed(s.kids, i) /\ s.position[i] \in Nat /\ new # i
      /\ new \notin gone
  BY <1>1, <1>2, <1>4 DEF Owned, Regular
<1>6. \E p \in Lists : \E k \in 1 .. Len(s.kids[p]) : i = s.kids[p][k]
  BY <1>5 DEF Listed
<1>7. PICK p \in Lists : \E k \in 1 .. Len(s.kids[p]) : i = s.kids[p][k]
  BY <1>6
<1>8. PICK k \in 1 .. Len(s.kids[p]) : i = s.kids[p][k]
  BY <1>7
<1>9. Replacing(s1, u, p, k, i, new, gone)
  <2>1. Shaped(s1) /\ Once(s1.kids)
    BY <1>4 DEF Whole, Owned
  <2>2. k \in 1 .. Len(s1.kids[p]) /\ i = s1.kids[p][k]
    BY <1>4, <1>8
  <2>3. gone = {i} \union Range(s1.kids[i])
        /\ \A c \in Range(s1.kids[i]) : s1.kids[c] = <<>>
    BY <1>2, <1>4
  <2>4. u = Replaced(s1, i, new)
    BY DEF s1, new
  <2> HIDE DEF gone
  <2>5. QED
    <3>1. Replacing(s1, Replaced(s1, i, new), p, k, i, new, gone)
      BY <1>4, <1>5, <2>1, <2>2, <2>3, ReplacedFields
    <3>2. QED
      BY <2>4, <3>1
<1>10. Whole(u, {})
  <2>1. k \in 1 .. Len(s1.kids[p]) /\ i = s1.kids[p][k] /\ s1.position[i] \in Nat
    BY <1>4, <1>5, <1>8
  <2>2. gone = {i} \union Range(s1.kids[i])
        /\ \A c \in Range(s1.kids[i]) :
             s1.kids[c] = <<>> /\ \A n \in Names :
               s1.label[n] = Unset \/ s1.label[n].item # c
    BY <1>2, <1>4
  <2> DEFINE loose == {new}
  <2>3. Whole(s1, loose) /\ new \in loose /\ loose \ {new} = {}
    BY <1>4
  <2> HIDE DEF gone, loose
  <2>4. Whole(u, loose \ {new})
    BY <1>9, <2>1, <2>2, <2>3, ReplacedWhole
  <2>5. QED
    BY <2>3, <2>4
<1>11. \A j \in Items :
         /\ u.kind[j] = IF j \in gone THEN "free"
                        ELSE IF j = new THEN "leaf" ELSE s.kind[j]
         /\ j \notin gone /\ j # new =>
              u.own[j] = s.own[j] /\ u.position[j] = s.position[j]
         /\ j = new => u.position[j] = s.position[i]
  <2>1. \A j \in Items :
       /\ u.kind[j] = IF j \in gone THEN "free" ELSE s1.kind[j]
       /\ u.own[j] = IF j \in gone THEN <<>> ELSE s1.own[j]
       /\ u.position[j] = IF j \in gone THEN 0
                          ELSE IF j = new THEN s1.position[i] ELSE s1.position[j]
    BY <1>9 DEF Replacing
  <2>2. \A j \in Items :
          /\ s1.kind[j] = IF j = new THEN "leaf" ELSE s.kind[j]
          /\ j # new => s1.own[j] = s.own[j]
    BY <1>1, <1>3 DEF Creating, Shaped
  <2> HIDE DEF gone
  <2>3. QED
    BY <1>4, <1>5, <2>1, <2>2
<1>12. /\ DOMAIN u.pmap = DOMAIN s.pmap
       /\ \A q \in DOMAIN u.pmap :
            u.pmap[q] = IF s.pmap[q] = i THEN new ELSE s.pmap[q]
  <2>1. /\ DOMAIN u.pmap = {q \in DOMAIN s.pmap : s.pmap[q] \notin gone \ {i}}
        /\ \A q \in DOMAIN u.pmap :
             u.pmap[q] = IF s.pmap[q] = i THEN new ELSE s.pmap[q]
    BY <1>4, <1>9 DEF Replacing
  <2>2. \A q \in DOMAIN s.pmap : s.pmap[q] \notin gone \ {i}
    BY <1>2
  <2>3. QED
    BY <2>1, <2>2
<1>13. u.label = [n \in Names |->
         IF n \in LabelsOf(s, i) THEN [s.label[n] EXCEPT !.item = new]
         ELSE s.label[n]]
  <2>1. LabelsOf(s1, i) = LabelsOf(s, i)
    BY <1>4 DEF LabelsOf
  <2>2. QED
    BY <1>4, <1>9, <2>1 DEF Replacing
<1>14. \A r \in RawsOf(u) :
         /\ r \in RawsOf(s) /\ r \in Items /\ r # i /\ r # new /\ r \notin gone
         /\ u.own[r] = s.own[r] /\ u.position[r] = s.position[r]
         /\ EndOf(u, r) = EndOf(s, r)
  BY <1>11 DEF RawsOf, EndOf
<1> HIDE DEF gone
<1>15. Regular(u)
  <2>1. \A j \in Items : u.kind[j] # "free" => u.position[j] \in Nat
    BY <1>1, <1>5, <1>11 DEF Regular
  <2>2. {0, Size} \subseteq DOMAIN u.pmap
    BY <1>1, <1>12 DEF Regular
  <2>3. \A r \in RawsOf(u) : EndOf(u, r) \in DOMAIN u.pmap
    BY <1>1, <1>12, <1>14 DEF Regular
  <2>4. \A q \in DOMAIN u.pmap :
          u.pmap[q] \in RawsOf(u) => Len(u.own[u.pmap[q]]) > 0
    BY <1>1, <1>12, <1>14, SMTT(30) DEF Regular
  <2>5. ASSUME NEW n \in Names, u.label[n] # Unset, u.label[n].item \in RawsOf(u)
        PROVE  u.label[n].offset < Len(u.own[u.label[n].item])
    <3>1. CASE n \in LabelsOf(s, i)
      <4>1. s.label[n] \in Pointers
        BY <1>1, <3>1 DEF LabelsOf, Shaped
      <4>2. u.label[n].item = new
        BY <1>13, <3>1, <4>1 DEF Pointers
      <4>3. QED
        BY <1>14, <2>5, <4>2
    <3>2. CASE n \notin LabelsOf(s, i)
      <4>1. u.label[n] = s.label[n]
        BY <1>13, <3>2
      <4>2. QED
        BY <1>1, <1>14, <2>5, <4>1 DEF Regular
    <3>3. QED
      BY <3>1, <3>2
  <2>6. Apart(u)
    <3>1. SUFFICES ASSUME NEW r \in RawsOf(u), NEW j \in Items \ {r},
                          u.kind[j] # "free"
                   PROVE  \/ u.position[j] <= u.position[r]
                          \/ EndOf(u, r) <= u.position[j]
      BY DEF Apart
    <3>2. /\ r \in RawsOf(s) /\ r # i /\ u.position[r] = s.position[r]
          /\ EndOf(u, r) = EndOf(s, r)
      BY <1>14
    <3>3. \A x \in Items \ {r} : s.kind[x] # "free" =>
            s.position[x] <= s.position[r] \/ EndOf(s, r) <= s.position[x]
      BY <1>1, <3>2 DEF Regular, Apart
    <3>4. CASE j = new
      BY <1>1, <1>11, <3>2, <3>3, <3>4
    <3>5. CASE j # new
      BY <1>11, <3>1, <3>2, <3>3, <3>5
    <3>6. QED
      BY <3>4, <3>5
  <2>7. Disjoint(u)
    <3>1. Disjoint(s)
      BY <1>1 DEF Regular
    <3>2. QED
      BY <1>14, <3>1 DEF Disjoint
  <2>8. QED
    BY <2>1, <2>2, <2>3, <2>4, <2>5, <2>6, <2>7 DEF Regular
<1>16. ASSUME Keyed(s, Root) PROVE Keyed(u, Root)
  <2>1. SUFFICES ASSUME NEW r \in RawsOf(u), TopLevel(u, r), r # Root
                 PROVE  /\ u.position[r] \in DOMAIN u.pmap
                        /\ u.pmap[u.position[r]] = r
    BY DEF Keyed
  <2>2. /\ r \in RawsOf(s) /\ r \in Items /\ r # i /\ r # new
        /\ u.position[r] = s.position[r]
    BY <1>14
  <2>3. TopLevel(s, r)
    <3> DEFINE L == s.kids[p]
               N == Spliced(L, k, <<new>>)
    <3>0. Root \in Lists
      BY DEF Lists
    <3>1. u.kids[Root] = IF Root = p THEN N ELSE s.kids[Root]
      <4>1. u.kids[Root] = IF Root \in gone THEN <<>>
                           ELSE IF Root = p THEN N ELSE s.kids[Root]
        BY <1>4, <1>9, <3>0 DEF Replacing
      <4>2. Root \notin gone
        BY <1>1, <1>2 DEF Items, Root, gone
      <4>3. QED
        BY <4>1, <4>2
    <3>2. PICK m \in 1 .. Len(u.kids[Root]) : u.kids[Root][m] = r
      BY <2>1 DEF TopLevel
    <3>3. CASE p # Root
      BY <3>1, <3>2, <3>3 DEF TopLevel
    <3>4. CASE p = Root
      <4>1. L \in Seq(Items) /\ k \in 1 .. Len(L)
        BY <1>1
      <4>2. <<new>> \in Seq(Items) /\ Len(<<new>>) = 1 /\ <<new>>[1] = new
        BY <1>4
      <4> HIDE DEF L
      <4>3. /\ Len(N) = Len(L) - 1 + Len(<<new>>)
            /\ \A j \in 1 .. Len(N) :
                 N[j] = IF j < k THEN L[j]
                        ELSE IF j < k + Len(<<new>>) THEN <<new>>[(j - k) + 1]
                        ELSE L[(j - Len(<<new>>)) + 1]
        BY <4>1, <4>2, SplicedSeq, ZenonT(40)
      <4>4. m \in 1 .. Len(N) /\ N[m] = r
        BY <3>1, <3>2, <3>4
      <4> HIDE DEF N
      <4>5. Len(L) \in Nat /\ Len(N) = Len(L)
        BY <4>1, <4>2, <4>3
      <4>6. N[m] = IF m < k THEN L[m] ELSE IF m < k + 1 THEN <<new>>[(m - k) + 1]
                   ELSE L[(m - 1) + 1]
        BY <4>2, <4>3, <4>4
      <4>7. CASE m < k
        BY <3>4, <4>4, <4>5, <4>6, <4>7 DEF TopLevel, L
      <4>8. CASE m > k
        <5>1. N[m] = L[m] /\ m \in 1 .. Len(L)
          BY <4>1, <4>4, <4>5, <4>6, <4>8
        <5>2. QED
          BY <3>4, <4>4, <5>1 DEF TopLevel, L
      <4>9. CASE m = k
        <5>1. (m - k) + 1 = 1
          BY <4>1, <4>9
        <5>2. N[m] = new
          BY <4>1, <4>2, <4>6, <4>9, <5>1
        <5>3. QED
          BY <2>2, <4>4, <5>2
      <4>10. QED
        BY <4>1, <4>4, <4>7, <4>8, <4>9
    <3>5. QED
      BY <3>3, <3>4
  <2>4. s.position[r] \in DOMAIN s.pmap /\ s.pmap[s.position[r]] = r
    BY <1>16, <2>1, <2>2, <2>3 DEF Keyed
  <2>5. QED
    BY <1>12, <2>2, <2>4
<1>17. QED
  BY <1>10, <1>15, <1>16 DEF Good

-----------------------------------------------------------------------------
(* The calls of a parser *)

(* One of the items that can be created is used.                             *)
LEMMA Spared ==
  ASSUME NEW S, S \subseteq Items, NEW n \in Nat, Cardinality(S) >= n, NEW x
  PROVE  /\ n > 0 => S # {} /\ Cardinality(S \ {x}) >= n - 1
         /\ n > 1 => S \ {x} # {}
<1>1. IsFiniteSet(S) /\ IsFiniteSet(S \ {x})
  <2>1. IsFiniteSet(Items)
    BY FS_Interval, ItemTreeAssumption DEF Items
  <2>2. S \ {x} \subseteq Items
    OBVIOUS
  <2>3. QED
    BY <2>1, <2>2, FS_Subset
<1>2. /\ Cardinality(S) \in Nat /\ Cardinality(S \ {x}) \in Nat
      /\ Cardinality({}) = 0
  BY <1>1, FS_CardinalityType, FS_EmptySet
<1>3. Cardinality(S \ {x}) >= Cardinality(S) - 1
  <2>1. CASE x \in S
    <3>1. Cardinality(S \ {x}) = Cardinality(S) - 1
      BY <1>1, <2>1, FS_RemoveElement
    <3> DEFINE a == Cardinality(S)
               c == Cardinality(S \ {x})
    <3>2. a \in Nat /\ c \in Nat /\ c = a - 1
      BY <1>2, <3>1
    <3> HIDE DEF a, c
    <3>3. c >= a - 1
      BY <3>2
    <3>4. QED
      BY <3>3 DEF a, c
  <2>2. CASE x \notin S
    <3>1. S \ {x} = S
      BY <2>2
    <3> DEFINE a == Cardinality(S)
    <3>2. a \in Nat /\ Cardinality(S \ {x}) = a
      BY <1>2, <3>1
    <3> HIDE DEF a
    <3>3. a >= a - 1
      BY <3>2
    <3>4. QED
      BY <3>2, <3>3 DEF a
  <2>3. QED
    BY <2>1, <2>2
<1>4. S = {} => Cardinality(S) = 0
  BY <1>2
<1>5. S \ {x} = {} => Cardinality(S \ {x}) = 0
  BY <1>2
<1> DEFINE a == Cardinality(S)
           b == Cardinality(S \ {x})
<1>6. a \in Nat /\ b \in Nat /\ b >= a - 1 /\ a >= n /\ n \in Nat
  BY <1>2, <1>3
<1>7. (S = {} => a = 0) /\ (S \ {x} = {} => b = 0)
  BY <1>4, <1>5
<1> HIDE DEF a, b
<1>8. n > 0 => S # {} /\ b >= n - 1
  BY <1>6, <1>7
<1>9. n > 1 => S \ {x} # {}
  BY <1>6, <1>7
<1>10. QED
  BY <1>8, <1>9 DEF b

(* What is left if no more are used.                                         *)
LEMMA Left ==
  ASSUME NEW S, NEW T, S \subseteq T, T \subseteq Items,
         NEW n \in Nat, Cardinality(S) >= n
  PROVE  Cardinality(T) >= n
<1>1. IsFiniteSet(Items)
  BY FS_Interval, ItemTreeAssumption DEF Items
<1>2. IsFiniteSet(T)
  BY <1>1, FS_Subset
<1>3. IsFiniteSet(S) /\ Cardinality(S) <= Cardinality(T)
  BY <1>2, FS_Subset
<1>4. Cardinality(S) \in Nat /\ Cardinality(T) \in Nat
  BY <1>2, <1>3, FS_CardinalityType
<1>5. QED
  BY <1>3, <1>4

(* RawItem::Split, wherever the raw item is.                                 *)
LEMMA SplitAny ==
  ASSUME NEW s, Good(s), NEW r, NEW pos, NEW len, Cutable(s, r, pos, len),
         NEW kind, kind # "free"
  PROVE  \E p \in Lists : \E k \in Nat : \E f \in Nat :
           Splitting(s, Split(s, r, pos, len, kind), p, k, r, pos, len,
                     Fresh(s), f, kind)
<1>1. Listed(s.kids, r)
  BY DEF Good, Whole, Owned, Cutable, RawsOf
<1>2. PICK p \in Lists : \E k \in 1 .. Len(s.kids[p]) : s.kids[p][k] = r
  BY <1>1 DEF Listed
<1>3. PICK k \in 1 .. Len(s.kids[p]) : r = s.kids[p][k]
  BY <1>2
<1>4. k \in Nat
  OBVIOUS
<1>5. \E f \in Nat : Splitting(s, Split(s, r, pos, len, kind), p, k, r, pos, len,
                               Fresh(s), f, kind)
  BY <1>3, SplitOf
<1>6. QED
  BY <1>4, <1>5

(* What the calls of a parser keep: unless empty items occur, every raw item *)
(* is found by its position.                                                 *)
Parsing(s) == Good(s) /\ ("empty" \notin Odd => Keyed(s, Root))

(* The raw items, and the items left, where a call is made. *)
LEMMA CutsOf ==
  ASSUME NEW r \in Raws, NEW len \in Nat, NEW pos \in Cuts(r, len),
         Parsing(t), Room(2)
  PROVE  /\ Cutable(t, r, pos, len) /\ pos \in Nat /\ Len(t.own[r]) \in Nat
         /\ pos < Len(t.own[r])
<1>1. Len(t.own[r]) \in Nat
  BY DEF Parsing, Good, Whole, Shaped, Raws
<1>2. pos \in Nat /\ pos + len <= Len(t.own[r]) /\ pos < Len(t.own[r])
  BY <1>1 DEF Cuts
<1>3. Free(t) # {} /\ Free(t) \ {Fresh(t)} # {}
  <2>1. Free(t) \subseteq Items /\ Cardinality(Free(t)) >= 2
    BY DEF Free, Room
  <2>2. 2 \in Nat /\ 2 > 0 /\ 2 > 1
    OBVIOUS
  <2>3. QED
    BY <2>1, <2>2, Spared
<1>4. QED
  BY <1>1, <1>2, <1>3 DEF Cutable, Raws, RawsOf

(* CreateAndInsert of an item without children.                              *)
LEMMA CreateLeafKeeps ==
  ASSUME Parsing(t), CreateLeaf
  PROVE  Parsing(t')
<1>1. PICK r \in Raws, len \in 0 .. Size :
        /\ len > 0 \/ "empty" \in Odd
        /\ \E pos \in Cuts(r, len) : t' = Split(t, r, pos, len, "leaf")
  BY DEF CreateLeaf
<1>2. PICK pos \in Cuts(r, len) : t' = Split(t, r, pos, len, "leaf")
  BY <1>1
<1>3. len \in Nat /\ Room(2)
  BY ItemTreeAssumption DEF CreateLeaf
<1>4. Cutable(t, r, pos, len)
  BY <1>3, CutsOf
<1>5. Good(t) /\ "leaf" # "free" /\ "leaf" # "raw"
  BY DEF Parsing
<1>6. PICK p \in Lists, k \in Nat, f \in Nat :
        Splitting(t, t', p, k, r, pos, len, Fresh(t), f, "leaf")
  BY <1>2, <1>4, <1>5, SplitAny
<1>7. Good(t')
  BY <1>5, <1>6, SplitGood
<1>8. Keyed(t, Root) /\ len > 0 => Keyed(t', Root)
  BY <1>5, <1>6, SplitKeyed
<1>9. QED
  BY <1>1, <1>7, <1>8 DEF Parsing

(* CollectionLinkHeaderItem::CreateAndInsert                                 *)
LEMMA ReplaceEofKeeps ==
  ASSUME Parsing(t), ReplaceEof
  PROVE  Parsing(t')
<1>1. PICK eof \in Items :
        /\ t.kind[eof] = "eof"
        /\ t' = Replaced(Create(t, "leaf", <<>>), eof, Fresh(t))
  BY DEF ReplaceEof
<1>2. Good(t)
  BY DEF Parsing
<1>3. Free(t) # {}
  <2>1. Free(t) \subseteq Items /\ Cardinality(Free(t)) >= 1
    BY DEF Free, Room, ReplaceEof
  <2>2. 1 \in Nat /\ 1 > 0
    OBVIOUS
  <2>3. QED
    BY <2>1, <2>2, Spared
<1>4. Range(t.kids[eof]) = {}
  <2>1. t.kids[eof] = <<>>
    BY <1>1, <1>2 DEF Good, Whole, Owned, Childless
  <2>2. QED
    BY <2>1 DEF Range
<1>5. Replaceable(t, eof)
  BY <1>1, <1>2, <1>3, <1>4 DEF Replaceable
<1> DEFINE own == <<>>
<1>6. own \in Seq(Nat) /\ t' = Replaced(Create(t, "leaf", own), eof, Fresh(t))
  BY <1>1
<1> HIDE DEF own
<1>7. Good(t') /\ (Keyed(t, Root) => Keyed(t', Root))
  BY <1>5, <1>6, ReplacedGood
<1>8. QED
  BY <1>7 DEF Parsing

(* What GetPointer returns.                                                  *)
LEMMA PointerOf ==
  ASSUME NEW s, DOMAIN s.pmap \subseteq 0 .. Size, 0 \in DOMAIN s.pmap,
         NEW at \in Nat
  PROVE  \E key \in DOMAIN s.pmap :
           /\ key <= at /\ \A q \in DOMAIN s.pmap : q <= at => q <= key
           /\ GetPointer(s, at) = [item |-> s.pmap[key], offset |-> at - key]
<1> DEFINE S == {q \in DOMAIN s.pmap : q <= at}
<1>1. S \subseteq Nat /\ S # {} /\ \A q \in S : q <= at
  BY ItemTreeAssumption
<1>2. GetPointer(s, at) = [item |-> s.pmap[Max(S)], offset |-> at - Max(S)]
  BY DEF GetPointer
<1>3. Max(S) \in S /\ \A q \in S : q <= Max(S)
  <2> HIDE DEF S
  <2>1. QED
    BY <1>1, Greatest
<1>4. Max(S) \in DOMAIN s.pmap /\ Max(S) <= at
  BY <1>3
<1>5. \A q \in DOMAIN s.pmap : q <= at => q <= Max(S)
  <2>1. TAKE q \in DOMAIN s.pmap
  <2>2. HAVE q <= at
  <2>3. q \in S
    BY <2>2
  <2> HIDE DEF S
  <2>4. QED
    BY <1>3, <2>3
<1> HIDE DEF S
<1>6. QED
  BY <1>2, <1>4, <1>5

(* A label that points to an item that is there, and into its bytes if that  *)
(* is raw.                                                                   *)
LEMMA LabelGood ==
  ASSUME NEW s, Good(s), NEW n \in Names, NEW l \in Pointers,
         Listed(s.kids, l.item),
         l.item \in RawsOf(s) => l.offset < Len(s.own[l.item]),
         NEW u, u = [s EXCEPT !.label[n] = l]
  PROVE  /\ Good(u) /\ (Keyed(s, Root) => Keyed(u, Root))
         /\ u.kids = s.kids /\ u.kind = s.kind /\ u.own = s.own
<1>1. /\ Whole(s, {}) /\ Shaped(s) /\ Owned(s, {}) /\ Regular(s)
  BY DEF Good, Whole
<1>2. /\ u.label = [s.label EXCEPT ![n] = l]
      /\ u.kids = s.kids /\ u.kind = s.kind /\ u.own = s.own
      /\ u.position = s.position /\ u.pmap = s.pmap
      /\ DOMAIN u = DOMAIN s
  BY <1>1 DEF Shaped, Fields
<1>3. \A m \in Names : u.label[m] = IF m = n THEN l ELSE s.label[m]
  BY <1>1, <1>2 DEF Shaped
<1>4. Shaped(u)
  <2>1. u.label \in [Names -> Pointers \union {Unset}]
    BY <1>1, <1>2 DEF Shaped
  <2>2. QED
    BY <1>1, <1>2, <2>1 DEF Shaped
<1>5. Owned(u, {})
  <2>1. \A m \in Names : u.label[m] # Unset => Listed(u.kids, u.label[m].item)
    BY <1>1, <1>2, <1>3 DEF Owned
  <2>2. QED
    BY <1>1, <1>2, <2>1 DEF Owned
<1>6. /\ RawsOf(u) = RawsOf(s) /\ \A j \in Items : EndOf(u, j) = EndOf(s, j)
      /\ \A r \in RawsOf(s) : r \in Items
  BY <1>2 DEF RawsOf, EndOf
<1>7. Regular(u)
  <2>1. \A m \in Names :
          u.label[m] # Unset /\ u.label[m].item \in RawsOf(u) =>
            u.label[m].offset < Len(u.own[u.label[m].item])
    BY <1>1, <1>2, <1>3, <1>6 DEF Regular
  <2>2. Apart(u) /\ Disjoint(u)
    <3>1. Apart(s) /\ Disjoint(s)
      BY <1>1 DEF Regular
    <3>2. QED
      BY <1>2, <1>6, <3>1 DEF Apart, Disjoint
  <2>3. \A r \in RawsOf(u) : EndOf(u, r) \in DOMAIN u.pmap
    BY <1>1, <1>2, <1>6 DEF Regular
  <2>4. QED
    BY <1>1, <1>2, <1>6, <2>1, <2>2, <2>3 DEF Regular
<1>8. Keyed(s, Root) => Keyed(u, Root)
  BY <1>2, <1>6 DEF Keyed, TopLevel
<1>9. QED
  BY <1>2, <1>4, <1>5, <1>7, <1>8 DEF Good, Whole

(* Context::CreateLabelFallback, CreateLabel: the label points to an item    *)
(* that is there, and into its bytes if it is raw.                           *)
LEMMA CreateLabelKeeps ==
  ASSUME Parsing(t), NEW n \in Names, CreateLabel(n)
  PROVE  Parsing(t')
<1>1. /\ Good(t) /\ Whole(t, {}) /\ Shaped(t) /\ Owned(t, {}) /\ Regular(t)
  BY DEF Parsing, Good, Whole
<1>2. PICK at \in 0 .. Size : t' = [t EXCEPT !.label[n] = GetPointer(t, at)]
  BY DEF CreateLabel
<1>3. at \in Nat /\ DOMAIN t.pmap \subseteq 0 .. Size /\ 0 \in DOMAIN t.pmap
  BY <1>1, ItemTreeAssumption DEF Shaped, Regular
<1>4. PICK key \in DOMAIN t.pmap :
        /\ key <= at /\ \A q \in DOMAIN t.pmap : q <= at => q <= key
        /\ GetPointer(t, at) = [item |-> t.pmap[key], offset |-> at - key]
  BY <1>3, PointerOf
<1> DEFINE l == GetPointer(t, at)
           i == t.pmap[key]
<1>5. /\ key \in Nat /\ i \in Items /\ t.position[i] = key
      /\ Listed(t.kids, i)
  BY <1>1, <1>3, ItemTreeAssumption DEF Shaped, Owned
<1>6. l.item = i /\ l.offset = at - key /\ l \in Pointers
  BY <1>3, <1>4, <1>5 DEF Pointers
<1>7. ASSUME i \in RawsOf(t) PROVE l.offset < Len(t.own[i])
  <2> DEFINE L == Len(t.own[i])
  <2>1. L \in Nat /\ L > 0
    BY <1>1, <1>5, <1>7 DEF Regular, Shaped
  <2>2. EndOf(t, i) \in DOMAIN t.pmap /\ EndOf(t, i) = key + L
    BY <1>1, <1>5, <1>7 DEF Regular, EndOf
  <2> HIDE DEF L
  <2>3. ~ (key + L <= at)
    <3>1. ASSUME key + L <= at PROVE FALSE
      <4>1. key + L <= key
        BY <1>4, <2>2, <3>1
      <4>2. QED
        BY <1>5, <2>1, <4>1
    <3>2. QED
      BY <3>1
  <2>4. at - key < L
    BY <1>3, <1>5, <2>1, <2>3
  <2>5. QED
    BY <1>6, <2>4 DEF L
<1>8. t' = [t EXCEPT !.label[n] = l] /\ Listed(t.kids, l.item)
  BY <1>2, <1>5, <1>6
<1>9. l.item \in RawsOf(t) => l.offset < Len(t.own[l.item])
  BY <1>6, <1>7
<1> HIDE DEF l, i
<1>10. Good(t') /\ (Keyed(t, Root) => Keyed(t', Root))
  BY <1>1, <1>6, <1>8, <1>9, LabelGood
<1>11. QED
  BY <1>10 DEF Parsing

(* DataItem::CreateAndInsert, InstructionItem::CreateAndInsert: the child    *)
(* that is cut out starts where no other item ends.                          *)
LEMMA NodeMade ==
  ASSUME NEW s, Good(s), NEW u, NEW p, NEW k, NEW r, NEW pos, NEW node, NEW f,
         Splitting(s, u, p, k, r, pos, 1, node, f, "node"),
         NEW length \in Nat, pos + (1 + length) <= Len(s.own[r]), length > 0,
         Free(u) # {}
  PROVE  \E b, l : /\ Nestable(u, node, p, l, b, length)
                   /\ Alone(u, b)
<1> DEFINE P == s.position[r]
           L == Len(s.own[r])
           b == IF pos = 0 THEN r ELSE f
<1>1. /\ pos \in Nat /\ L \in Nat /\ P \in Nat /\ r \in RawsOf(s) /\ r \in Items
      /\ Regular(s) /\ pos + (1 + length) <= L
  BY DEF Splitting, CutFrom, RawsOf, Good
<1>2. Good(u)
  BY SplitGood
<1>3. /\ node \in Items /\ u.kind[node] = "node" /\ u.kids[node] = <<>>
      /\ pos # 0 => /\ u.kind[r] = "raw" /\ Len(u.own[r]) = pos
                    /\ u.position[r] = P
      /\ \A j \in Items :
           \/ j = r
           \/ j = node
           \/ j = f /\ pos # 0 /\ pos + 1 # Len(s.own[r])
           \/ /\ u.kind[j] = s.kind[j] /\ u.own[j] = s.own[j]
              /\ u.position[j] = s.position[j]
  BY SplitPlaces
<1>4. /\ \E l \in Nat : Beside(u, p, l, node, b)
      /\ Resting(u, b, P + (pos + 1), L - (pos + 1))
  <2>1. pos + 1 # Len(s.own[r])
    <3> HIDE DEF P
    <3>1. pos + 1 # L
      <4> HIDE DEF L
      <4>1. QED
        BY <1>1
    <3>2. QED
      BY <3>1
  <2> HIDE DEF b, P, L
  <2>2. /\ \E l \in Nat : Beside(u, p, l, node, b)
        /\ Resting(u, b, s.position[r] + (pos + 1), Len(s.own[r]) - (pos + 1))
    BY <2>1, SplitBehind DEF b
  <2>3. QED
    BY <2>2 DEF P, L
<1> HIDE DEF P, L
<1>5. PICK l \in Nat : Beside(u, p, l, node, b)
  BY <1>4
<1>6. /\ b \in RawsOf(u) /\ Len(u.own[b]) = L - (pos + 1)
      /\ u.position[b] = P + (pos + 1)
  BY <1>4 DEF Resting, RawsOf
<1>7. length <= Len(u.own[b]) /\ Len(u.own[b]) > 0
  BY <1>1, <1>6
<1>8. Nestable(u, node, p, l, b, length)
  BY <1>2, <1>3, <1>5, <1>6, <1>7 DEF Nestable
<1>9. Alone(u, b)
  <2>1. u.position[b] # 0
    BY <1>1, <1>6
  <2>2. ASSUME NEW x \in RawsOf(u), x # b, EndOf(u, x) = P + (pos + 1)
        PROVE  FALSE
    <3>0. x \in Items /\ u.kind[x] = "raw" /\ x # node
      BY <1>3 DEF RawsOf
    <3>1. CASE x = r
      <4>1. pos # 0
        BY <2>2, <3>1
      <4>2. EndOf(u, x) = P + pos
        BY <1>3, <3>1, <4>1 DEF EndOf
      <4>3. QED
        BY <1>1, <2>2, <4>2
    <3>2. CASE x # r
      <4>1. /\ u.kind[x] = s.kind[x] /\ u.own[x] = s.own[x]
            /\ u.position[x] = s.position[x]
        BY <1>3, <2>2, <3>0, <3>2
      <4>2. x \in RawsOf(s) /\ EndOf(u, x) = EndOf(s, x)
        BY <3>0, <4>1 DEF RawsOf, EndOf
      <4>3. EndOf(s, x) <= P \/ P + L <= s.position[x]
        BY <1>1, <3>2, <4>2 DEF Regular, Disjoint, EndOf, P, L
      <4>4. s.position[x] \in Nat /\ Len(s.own[x]) \in Nat
        BY <1>1, <3>0, <4>1 DEF Regular, Good, Whole, Shaped
      <4>5. EndOf(s, x) = s.position[x] + Len(s.own[x])
        BY DEF EndOf
      <4>6. EndOf(s, x) = P + (pos + 1)
        BY <2>2, <4>2
      <4> DEFINE e == EndOf(s, x)
                 h == s.position[x]
                 o == Len(s.own[x])
      <4>7. /\ e <= P \/ P + L <= h
            /\ h \in Nat /\ o \in Nat /\ e = h + o /\ e = P + (pos + 1)
        BY <4>3, <4>4, <4>5, <4>6
      <4> HIDE DEF e, h, o
      <4>8. QED
        BY <1>1, <4>7
    <3>3. QED
      BY <3>1, <3>2
  <2>3. QED
    BY <1>6, <2>1, <2>2 DEF Alone
<1> HIDE DEF b
<1>10. QED
  BY <1>8, <1>9

(* StringDataItem::MaybeCreateAndReplace                                     *)
LEMMA StringReplacedKeeps ==
  ASSUME NEW s, NEW u, NEW node, NEW c, NEW size, Nesting(s, u, node, c, size),
         Free(u) # {}, node \in Items, NEW w, w \in StringReplaced(u, node)
  PROVE  Good(w) /\ (Keyed(u, Root) => Keyed(w, Root))
<1>1. /\ Good(u) /\ u.kids[node] = <<c>> /\ u.kind[node] = "node"
      /\ c \in RawsOf(u) /\ \A q \in DOMAIN u.pmap : u.pmap[q] # c
  BY DEF Nesting
<1> DEFINE body == u.own[c]
           own(pad) == u.own[node] \o SubSeq(body, 1, Len(body) - pad)
<1>2. Head(u.kids[node]) = c
  BY <1>1
<1>3. PICK pad \in {0, 1} :
        /\ Len(body) > 1 /\ LabelsOf(u, c) = {}
        /\ w = Replaced(Create(u, "leaf", own(pad)), node, Fresh(u))
  BY <1>2 DEF StringReplaced
<1>4. own(pad) \in Seq(Nat)
  <2>1. u.own[node] \in Seq(Nat) /\ body \in Seq(Nat)
    BY <1>1 DEF Good, Whole, Shaped, RawsOf
  <2> HIDE DEF body
  <2>2. Len(body) - pad \in 0 .. Len(body)
    BY <1>3, <2>1
  <2>3. SubSeq(body, 1, Len(body) - pad) \in Seq(Nat)
    BY <2>1, <2>2
  <2>4. QED
    BY <2>1, <2>3
<1>5. \A x \in Range(u.kids[node]) : x = c
  <2>1. Len(<<c>>) = 1 /\ <<c>>[1] = c /\ DOMAIN <<c>> = 1 .. 1
    OBVIOUS
  <2>2. QED
    BY <1>1, <2>1 DEF Range
<1>6. u.kids[c] = <<>>
  BY <1>1 DEF Good, Whole, Owned, Childless, RawsOf
<1>7. \A n \in Names : u.label[n] = Unset \/ u.label[n].item # c
  BY <1>3 DEF LabelsOf
<1>8. Replaceable(u, node)
  BY <1>1, <1>5, <1>6, <1>7 DEF Replaceable
<1> HIDE DEF own
<1>9. QED
  BY <1>3, <1>4, <1>8, ReplacedGood

(* DataItem::CreateAndInsert, DataFactory::Check,                            *)
(* InstructionItem::CreateAndInsert                                          *)
LEMMA CreateDataKeeps ==
  ASSUME Parsing(t), CreateData
  PROVE  Parsing(t')
<1>1. Good(t) /\ Room(4) /\ ("empty" \notin Odd => Keyed(t, Root))
  BY DEF Parsing, CreateData
<1> DEFINE node == Fresh(t)
           made(r, pos) == Split(t, r, pos, 1, "node")
           full(r, pos, length) == MoveNextToChild(made(r, pos), node, length)
<1>2. PICK r \in Raws, length \in 0 .. Size - 1 :
        \E pos \in Cuts(r, 1 + length) :
          IF length = 0 THEN t' = made(r, pos)
          ELSE t' \in {full(r, pos, length)} \union
                        StringReplaced(full(r, pos, length), node)
  BY DEF CreateData
<1>3. PICK pos \in Cuts(r, 1 + length) :
        IF length = 0 THEN t' = made(r, pos)
        ELSE t' \in {full(r, pos, length)} \union
                      StringReplaced(full(r, pos, length), node)
  BY <1>2
<1> DEFINE u == made(r, pos)
           w == full(r, pos, length)
<1>4. length \in Nat /\ 1 + length \in Nat
  BY ItemTreeAssumption
<1>5. Cutable(t, r, pos, 1 + length)
  <2>1. Room(2)
    <3>1. Cardinality(Free(t)) >= 4
      BY <1>1 DEF Room
    <3>2. IsFiniteSet(Items) /\ Free(t) \subseteq Items
      BY FS_Interval, ItemTreeAssumption DEF Items, Free
    <3>3. Cardinality(Free(t)) \in Nat
      BY <3>2, FS_Subset, FS_CardinalityType
    <3>4. QED
      BY <3>1, <3>3 DEF Room
  <2>2. QED
    BY <1>4, <2>1, CutsOf
<1>6. /\ pos \in Nat /\ Len(t.own[r]) \in Nat /\ r \in RawsOf(t)
      /\ pos + (1 + length) <= Len(t.own[r])
  BY <1>1, <1>5 DEF Cutable, Good, Whole, Shaped, RawsOf
<1>7. Cutable(t, r, pos, 1)
  <2>1. \/ pos = 0 \/ Free(t) \ {Fresh(t)} # {}
    <3>1. Free(t) \subseteq Items /\ Cardinality(Free(t)) >= 4
      BY <1>1 DEF Free, Room
    <3>2. 4 \in Nat /\ 4 > 1
      OBVIOUS
    <3>3. QED
      BY <3>1, <3>2, Spared
  <2>2. pos + 1 <= Len(t.own[r]) /\ Len(t.own[r]) > 0
    <3> DEFINE L == Len(t.own[r])
    <3>1. L \in Nat /\ pos + (1 + length) <= L
      BY <1>6
    <3> HIDE DEF L
    <3>2. pos + 1 <= L /\ L > 0
      BY <1>4, <1>6, <3>1
    <3>3. QED
      BY <3>2 DEF L
  <2>3. QED
    BY <1>5, <1>6, <2>1, <2>2 DEF Cutable
<1>8. "node" # "free" /\ "node" # "raw"
  OBVIOUS
<1>9. PICK p \in Lists, k \in Nat, f \in Nat :
        Splitting(t, u, p, k, r, pos, 1, node, f, "node")
  BY <1>1, <1>7, <1>8, SplitAny
<1> HIDE DEF made, full, node
<1>10. Good(u)
  BY <1>1, <1>8, <1>9, SplitGood
<1>11. Keyed(t, Root) => Keyed(u, Root)
  <2>1. Keyed(t, Root) /\ 1 > 0 => Keyed(u, Root)
    BY <1>1, <1>9, SplitKeyed
  <2>2. QED
    BY <2>1
<1>12. CASE length = 0
  BY <1>1, <1>3, <1>10, <1>11, <1>12 DEF Parsing
<1>13. CASE length # 0
  <2>1. Cardinality(Free(u)) >= 2
    <3>1. Free(t) \subseteq Items /\ Free(u) \subseteq Items
          /\ Cardinality(Free(t)) >= 4
      BY <1>1 DEF Free, Room
    <3>2. 4 \in Nat /\ 4 > 0 /\ 4 - 1 = 3 /\ 3 \in Nat /\ 3 > 0 /\ 3 - 1 = 2
          /\ 2 \in Nat
      OBVIOUS
    <3>3. Cardinality(Free(t) \ {node}) >= 3
      <4>1. Cardinality(Free(t) \ {node}) >= 4 - 1
        BY <3>1, <3>2, Spared, Zenon
      <4>2. QED
        BY <3>2, <4>1
    <3>4. Free(t) \ {node} \subseteq Items
      BY <3>1
    <3>5. Cardinality((Free(t) \ {node}) \ {f}) >= 2
      <4>1. Cardinality((Free(t) \ {node}) \ {f}) >= 3 - 1
        BY <3>2, <3>3, <3>4, Spared, Zenon
      <4>2. QED
        BY <3>2, <4>1
    <3>6. (Free(t) \ {node}) \ {f} \subseteq Free(u)
      <4>1. Free(t) \ {node, f} \subseteq Free(u)
        BY <1>1, <1>9, SplitPlaces
      <4>2. QED
        BY <4>1
    <3>7. QED
      BY <3>1, <3>2, <3>5, <3>6, Left
  <2>2. 2 \in Nat /\ 2 > 0 /\ 2 > 1 /\ 2 - 1 = 1 /\ 1 > 0 /\ 1 \in Nat
    OBVIOUS
  <2>3. Free(u) \subseteq Items /\ Free(u) # {}
    <3>1. Free(u) \subseteq Items
      BY DEF Free
    <3>2. QED
      BY <2>1, <2>2, <3>1, Spared
  <2>4. length > 0
    BY <1>4, <1>13
  <2>5. PICK b, l : Nestable(u, node, p, l, b, length) /\ Alone(u, b)
    BY <1>1, <1>4, <1>6, <1>9, <2>3, <2>4, NodeMade
  <2> DEFINE c == Fresh(u)
  <2>6. /\ Nesting(u, w, node, c, length)
        /\ length > 0 /\ (Keyed(u, Root) \/ Keyed(u, b)) => Keyed(w, Root)
    <3>1. w = MoveNextToChild(u, node, length)
      BY DEF full
    <3> HIDE DEF u, w
    <3>2. QED
      BY <2>4, <2>5, <3>1, Nested
  <2>7. Good(w) /\ Free(u) \ {c} \subseteq Free(w)
    BY <2>6 DEF Nesting
  <2>8. Free(w) # {}
    <3>1. Free(u) \ {c} # {}
      BY <2>1, <2>2, <2>3, Spared
    <3>2. QED
      BY <2>7, <3>1
  <2>9. node \in Items
    BY <2>5 DEF Nestable
  <2> HIDE DEF u, w, c
  <2>10. t' = w \/ t' \in StringReplaced(w, node)
    BY <1>3, <1>13 DEF w
  <2>11. CASE t' = w
    BY <1>1, <1>11, <2>4, <2>6, <2>7, <2>11 DEF Parsing
  <2>12. CASE t' \in StringReplaced(w, node)
    <3>1. Good(t') /\ (Keyed(w, Root) => Keyed(t', Root))
      BY <2>6, <2>8, <2>9, <2>12, StringReplacedKeeps
    <3>2. QED
      BY <1>1, <1>11, <2>4, <2>6, <3>1 DEF Parsing
  <2>13. QED
    BY <2>10, <2>11, <2>12
<1>14. QED
  BY <1>12, <1>13

(* ExpansionsItem::CreateAndInsert: at the place of a node of no units the   *)
(* pointer map does not have what is behind the node, and no label points to *)
(* the first unit of that.                                                   *)
LEMMA EmptyNodeMade ==
  ASSUME NEW s, Good(s), NEW u, NEW p, NEW k, NEW r, NEW pos, NEW node, NEW f,
         Splitting(s, u, p, k, r, pos, 0, node, f, "node"),
         NEW size \in Nat, pos + size <= Len(s.own[r]), pos < Len(s.own[r]),
         Free(u) # {}, NEW b, b = (IF pos = 0 THEN r ELSE f)
  PROVE  /\ \E l : Nestable(u, node, p, l, b, size)
         /\ Taken(u, b) /\ \A n \in LabelsOf(u, b) : u.label[n].offset # 0
<1> DEFINE P == s.position[r]
           L == Len(s.own[r])
           seq == PiecesOf(r, pos, pos + 0, L, node, f)
           mn == IF pos = 0 THEN 1 ELSE 2
           mb == IF pos = 0 THEN 2 ELSE 3
<1>1. /\ pos \in Nat /\ L \in Nat /\ P \in Nat /\ r \in RawsOf(s) /\ r \in Items
      /\ Regular(s) /\ Whole(s, {}) /\ f # r /\ f # node /\ node # r
      /\ pos + 0 = pos /\ pos + 0 # L
  <2>1. /\ pos \in Nat /\ Len(s.own[r]) \in Nat /\ f # r /\ f # node /\ node # r
        /\ s.position[r] \in Nat /\ r \in Items /\ s.kind[r] = "raw"
    BY DEF Splitting, CutFrom
  <2> DEFINE LL == Len(s.own[r])
  <2>2. LL \in Nat /\ pos < LL
    BY <2>1
  <2> HIDE DEF LL
  <2>3. pos + 0 = pos /\ pos + 0 # LL
    BY <2>1, <2>2
  <2>4. QED
    BY <2>1, <2>3 DEF RawsOf, Good, LL
<1>2. Good(u)
  BY SplitGood
<1>3. /\ node \in Items /\ u.kind[node] = "node" /\ u.kids[node] = <<>>
      /\ u.position[node] = P + pos
  BY SplitPlaces
<1>4. /\ \E l \in Nat : Beside(u, p, l, node, b)
      /\ Resting(u, b, P + pos, L - pos) /\ b # node
  <2>1. /\ b # node /\ \E l \in Nat : Beside(u, p, l, node, b)
        /\ Resting(u, b, P + (pos + 0), L - (pos + 0))
    <3>1. pos + 0 # Len(s.own[r])
      BY <1>1
    <3>2. QED
      BY <3>1, SplitBehind
  <2>2. QED
    BY <1>1, <2>1
<1>5. /\ mn \in 1 .. Len(seq) /\ mb \in 1 .. Len(seq) /\ mn < mb /\ Len(seq) > 1
      /\ seq[mn][1] = node /\ seq[mb][1] = b
      /\ StartOf(seq, mn) = pos /\ seq[mn][2] = pos /\ StartOf(seq, mb) = pos
      /\ \A m \in 1 .. Len(seq) : m # mb => seq[m][1] # b
  <2>1. pos = 0 => /\ Len(seq) = 2 /\ seq[1][1] = node /\ seq[2][1] = b
                   /\ StartOf(seq, 1) = 0 /\ seq[1][2] = pos
                   /\ StartOf(seq, 2) = pos
    <3>1. pos = 0 /\ pos + 0 # Len(s.own[r]) =>
            /\ Len(seq) = 2 /\ seq[1][1] = node /\ seq[2][1] = r
            /\ StartOf(seq, 2) = pos + 0
      BY PiecesAt
    <3>2. pos = 0 /\ pos + 0 # Len(s.own[r]) => seq[1][2] = pos + 0
      BY PiecesAt
    <3> HIDE DEF seq
    <3>3. StartOf(seq, 1) = 0
      BY DEF StartOf
    <3>4. QED
      BY <1>1, <3>1, <3>2, <3>3
  <2>2. pos # 0 => /\ Len(seq) = 3 /\ seq[1][1] = r /\ seq[2][1] = node
                   /\ seq[3][1] = b
                   /\ StartOf(seq, 2) = pos /\ seq[2][2] = pos
                   /\ StartOf(seq, 3) = pos
    <3>1. pos # 0 /\ pos + 0 # Len(s.own[r]) =>
            /\ Len(seq) = 3 /\ seq[1][1] = r /\ seq[2][1] = node
            /\ seq[3][1] = f
            /\ StartOf(seq, 2) = pos /\ seq[2][2] = pos + 0
            /\ StartOf(seq, 3) = pos + 0
      BY PiecesAt
    <3> HIDE DEF seq
    <3>2. QED
      BY <1>1, <3>1
  <2> HIDE DEF seq
  <2>3. CASE pos = 0
    <3>1. Len(seq) = 2 /\ mn = 1 /\ mb = 2
      BY <2>1, <2>3
    <3>2. mn \in 1 .. Len(seq) /\ mb \in 1 .. Len(seq) /\ Len(seq) > 1
      BY <3>1
    <3>3. \A m \in 1 .. Len(seq) : m # mb => seq[m][1] # b
      <4>1. \A m \in 1 .. Len(seq) : m = 1 \/ m = 2
        BY <3>1
      <4>2. QED
        BY <1>4, <2>1, <2>3, <3>1, <4>1
    <3>4. QED
      BY <2>1, <2>3, <3>1, <3>2, <3>3
  <2>4. CASE pos # 0
    <3>1. Len(seq) = 3 /\ mn = 2 /\ mb = 3
      BY <2>2, <2>4
    <3>2. mn \in 1 .. Len(seq) /\ mb \in 1 .. Len(seq) /\ Len(seq) > 1
      BY <3>1
    <3>3. \A m \in 1 .. Len(seq) : m # mb => seq[m][1] # b
      <4>1. \A m \in 1 .. Len(seq) : m = 1 \/ m = 2 \/ m = 3
        BY <3>1
      <4>2. b = f
        BY <2>4
      <4>3. QED
        BY <1>1, <1>4, <2>2, <2>4, <3>1, <4>1, <4>2
    <3>4. QED
      BY <2>2, <2>4, <3>1, <3>2, <3>3
  <2>5. QED
    BY <2>3, <2>4
<1>6. CutFrom(s, u, p, k, r, seq, node, "node") /\ Cutting(s, u, p, k, r, seq, node, "node")
  BY DEF Splitting, CutFrom
<1> HIDE DEF seq, mn, mb, P, L
<1>7. b = r \/ s.kind[b] = "free"
  BY <1>5, <1>6 DEF Cutting
<1>8. Relabelling(s, u, r, seq) /\ Remapping(s, u, r, seq)
  BY <1>6 DEF Cutting
<1>9. b \in Items /\ ~ (b # r /\ Listed(s.kids, b))
  BY <1>1, <1>4, <1>7 DEF Resting, Whole, Owned
<1>10. \E l : Nestable(u, node, p, l, b, size)
  <2>1. PICK l \in Nat : Beside(u, p, l, node, b)
    BY <1>4
  <2>2. b \in RawsOf(u) /\ Len(u.own[b]) = L - pos
    BY <1>4 DEF Resting, RawsOf
  <2>3. pos + size <= L /\ pos < L
    BY DEF L
  <2>4. size <= Len(u.own[b]) /\ Len(u.own[b]) > 0
    BY <1>1, <2>2, <2>3
  <2>5. Nestable(u, node, p, l, b, size)
    BY <1>2, <1>3, <2>1, <2>2, <2>4 DEF Nestable
  <2>6. QED
    BY <2>5
<1>11. Taken(u, b)
  <2>1. u.position[b] = P + pos
    BY <1>4 DEF Resting
  <2>2. P + pos \in DOMAIN u.pmap
    BY <1>5, <1>8 DEF Remapping, Started, P
  <2>3. CASE P + pos \in DOMAIN s.pmap /\ s.pmap[P + pos] # r
    <3>1. u.pmap[P + pos] = s.pmap[P + pos]
      BY <1>8, <2>2, <2>3 DEF Remapping
    <3>2. Listed(s.kids, s.pmap[P + pos])
      BY <1>1, <2>3 DEF Whole, Owned
    <3>3. QED
      BY <1>9, <2>1, <2>2, <2>3, <3>1, <3>2 DEF Taken
  <2>4. CASE ~ (P + pos \in DOMAIN s.pmap /\ s.pmap[P + pos] # r)
    <3>1. \E m \in 1 .. Len(seq) :
            First(seq, P, P + pos, m) /\ u.pmap[P + pos] = seq[m][1]
      BY <1>8, <2>2, <2>4 DEF Remapping, P
    <3>2. PICK m \in 1 .. Len(seq) :
            First(seq, P, P + pos, m) /\ u.pmap[P + pos] = seq[m][1]
      BY <3>1
    <3>3. m # mb
      BY <1>5, <3>2 DEF First
    <3>4. QED
      BY <1>5, <2>1, <2>2, <3>2, <3>3 DEF Taken
  <2>5. QED
    BY <2>3, <2>4
<1>12. ASSUME NEW n \in LabelsOf(u, b), u.label[n].offset = 0
       PROVE  FALSE
  <2>1. n \in Names /\ u.label[n] # Unset /\ u.label[n].item = b
    BY <1>12 DEF LabelsOf
  <2>2. CASE n \in LabelsOf(s, r)
    <3>1. Shifting(s.label[n], u.label[n], seq)
      BY <1>8, <2>1, <2>2 DEF Relabelling
    <3>2. PICK m \in 1 .. Len(seq) :
            /\ u.label[n] = [item |-> seq[m][1],
                             offset |-> s.label[n].offset - StartOf(seq, m)]
            /\ \A j \in 1 .. Len(seq) : j < m => ~ Holds(seq, j, s.label[n].offset)
      BY <3>1 DEF Shifting
    <3>3. seq[m][1] = b /\ s.label[n].offset - StartOf(seq, m) = 0
      BY <1>12, <2>1, <3>2
    <3>4. m = mb
      BY <1>5, <3>3
    <3>5. s.label[n].offset \in Nat
      BY <1>1, <2>1, <2>2 DEF Whole, Shaped, LabelsOf, Pointers
    <3> DEFINE o == s.label[n].offset
    <3>6. o - pos = 0 /\ o \in Nat
      BY <1>5, <3>3, <3>4, <3>5
    <3> HIDE DEF o
    <3>7. o = pos
      BY <1>1, <3>6
    <3>8. Holds(seq, mn, o)
      BY <1>5, <3>7 DEF Holds
    <3>9. QED
      BY <1>5, <3>2, <3>4, <3>8 DEF o
  <2>3. CASE n \notin LabelsOf(s, r)
    <3>1. u.label[n] = s.label[n]
      BY <1>8, <2>1, <2>3 DEF Relabelling
    <3>2. b # r
      BY <2>1, <2>3, <3>1 DEF LabelsOf
    <3>3. Listed(s.kids, b)
      BY <1>1, <2>1, <3>1 DEF Whole, Owned
    <3>4. QED
      BY <1>9, <3>2, <3>3
  <2>4. QED
    BY <2>2, <2>3
<1>13. QED
  BY <1>10, <1>11, <1>12

(* `rest` units are left, in the last child of `node`, for as many items.    *)
Expanding(s, node, rest) ==
  /\ Good(s) /\ node \in Items /\ rest \in Nat /\ Cardinality(Free(s)) >= rest
  /\ rest > 0 => /\ Len(s.kids[node]) > 0
                 /\ Last(s.kids[node]) \in RawsOf(s)
                 /\ Len(s.own[Last(s.kids[node])]) = rest

(* ExpansionsItem::CreateAndInsert: an ExpansionItem is made.                *)
LEMMA ExpansionKeeps ==
  ASSUME NEW s, NEW node, NEW rest \in Nat, Expanding(s, node, rest + 1),
         NEW n \in Names, NEW w, w = WithExpansion(s, node, n)
  PROVE  /\ Expanding(w, node, rest) /\ (Keyed(s, Root) => Keyed(w, Root))
         /\ rest > 0 => /\ Last(w.kids[node]) = Last(s.kids[node])
                        /\ w.position[Last(s.kids[node])] =
                             s.position[Last(s.kids[node])] + 1
<1> DEFINE it == Last(s.kids[node])
           K == Len(s.kids[node])
           l == [item |-> it, offset |-> 0]
           u == [s EXCEPT !.label[n] = l]
           new == Fresh(u)
<1>1. /\ Good(s) /\ node \in Items /\ node \in Lists
      /\ s.kids[node] \in Seq(Items) /\ K \in Nat /\ K > 0
      /\ it \in RawsOf(s) /\ it \in Items /\ it = s.kids[node][K]
      /\ Len(s.own[it]) = rest + 1 /\ Cardinality(Free(s)) >= rest + 1
  <2>1. rest + 1 > 0
    OBVIOUS
  <2>2. Good(s) /\ node \in Items /\ node \in Lists
    BY DEF Expanding, Lists
  <2>3. s.kids[node] \in Seq(Items)
    BY <2>2 DEF Good, Whole, Shaped
  <2>4. /\ K > 0 /\ it \in RawsOf(s) /\ Len(s.own[it]) = rest + 1
        /\ Cardinality(Free(s)) >= rest + 1
    BY <2>1 DEF Expanding
  <2>5. it = s.kids[node][K]
    BY DEF Last
  <2>6. QED
    BY <2>2, <2>3, <2>4, <2>5 DEF RawsOf
<1>2. w = Split(u, it, 0, 1, "leaf")
  BY DEF WithExpansion
<1>3. l \in Pointers /\ l.item = it /\ l.offset = 0 /\ Listed(s.kids, it)
  BY <1>1 DEF Pointers, Listed
<1>4. Len(s.own[it]) > 0
  BY <1>1
<1> HIDE DEF it, l, K
<1>17. u.position = s.position
  BY <1>1 DEF Good, Whole, Shaped, Fields
<1>5. /\ Good(u) /\ (Keyed(s, Root) => Keyed(u, Root))
      /\ u.kids = s.kids /\ u.kind = s.kind /\ u.own = s.own
  <2>1. l.item \in RawsOf(s) => l.offset < Len(s.own[l.item])
    BY <1>3, <1>4
  <2>2. Listed(s.kids, l.item)
    BY <1>3
  <2>3. QED
    BY <1>1, <1>3, <2>1, <2>2, LabelGood
<1>6. RawsOf(u) = RawsOf(s) /\ Free(u) = Free(s)
  BY <1>5 DEF RawsOf, Free
<1> HIDE DEF u
<1>7. /\ Free(u) # {} /\ Cardinality(Free(u) \ {new}) >= rest
  <2>1. Free(u) \subseteq Items
    BY DEF Free
  <2>2. rest + 1 \in Nat /\ rest + 1 > 0 /\ (rest + 1) - 1 = rest
    OBVIOUS
  <2>3. Cardinality(Free(u)) >= rest + 1
    BY <1>1, <1>6
  <2>4. Free(u) # {} /\ Cardinality(Free(u) \ {new}) >= (rest + 1) - 1
    BY <2>1, <2>2, <2>3, Spared, Zenon
  <2>5. QED
    BY <2>2, <2>4
<1>8. Cutable(u, it, 0, 1)
  <2>1. 0 + 1 <= rest + 1 /\ rest + 1 > 0
    OBVIOUS
  <2>2. QED
    BY <1>1, <1>5, <1>6, <1>7, <2>1 DEF Cutable
<1>9. K \in 1 .. Len(u.kids[node]) /\ it = u.kids[node][K]
  BY <1>1, <1>5 DEF K
<1>10. PICK f \in Nat : Splitting(u, w, node, K, it, 0, 1, new, f, "leaf")
  <2>1. "leaf" # "free"
    OBVIOUS
  <2>2. QED
    BY <1>1, <1>2, <1>5, <1>8, <1>9, <2>1, SplitOf
<1>11. Good(w)
  <2>1. "leaf" # "raw"
    OBVIOUS
  <2>2. QED
    BY <1>5, <1>10, <2>1, SplitGood
<1>12. Keyed(u, Root) => Keyed(w, Root)
  <2>1. Keyed(u, Root) /\ 1 > 0 => Keyed(w, Root)
    BY <1>5, <1>10, SplitKeyed
  <2>2. QED
    BY <2>1
<1>13. Cardinality(Free(w)) >= rest
  <2>1. 0 = 0 => Free(u) \ {new} \subseteq Free(w)
    BY <1>5, <1>10, SplitPlaces
  <2>2. Free(w) \subseteq Items
    BY DEF Free
  <2>3. Free(u) \ {new} \subseteq Free(w)
    BY <2>1
  <2> DEFINE S == Free(u) \ {new}
  <2>4. S \subseteq Free(w) /\ Cardinality(S) >= rest
    BY <1>7, <2>3
  <2> HIDE DEF S
  <2>5. QED
    BY <2>2, <2>4, Left
<1>14. ASSUME rest > 0
       PROVE  /\ Len(w.kids[node]) > 0 /\ Last(w.kids[node]) = it
              /\ it \in RawsOf(w) /\ Len(w.own[it]) = rest
              /\ w.position[it] = s.position[it] + 1
  <2> DEFINE z == 0
             L == Len(u.own[it])
             seq == PiecesOf(it, z, z + 1, Len(u.own[it]), new, f)
             items == PieceItems(seq)
             b == IF z = 0 THEN it ELSE f
  <2>0. Splitting(u, w, node, K, it, z, 1, new, f, "leaf") /\ z = 0 /\ b = it
    BY <1>10
  <2>1. z + 1 # Len(u.own[it]) /\ L - (z + 1) = rest
    <3>1. L = rest + 1
      BY <1>1, <1>5
    <3> HIDE DEF L
    <3>2. z + 1 # L /\ L - (z + 1) = rest
      BY <1>14, <3>1
    <3>3. QED
      BY <3>2 DEF L
  <2> HIDE DEF z
  <2>2. Resting(w, b, u.position[it] + (z + 1), Len(u.own[it]) - (z + 1))
    <3> DEFINE bb == b
    <3>1. bb = IF z = 0 THEN it ELSE f
      OBVIOUS
    <3> HIDE DEF bb
    <3>2. Resting(w, bb, u.position[it] + (z + 1), Len(u.own[it]) - (z + 1))
      BY <1>5, <2>0, <2>1, <3>1, SplitBehind
    <3>3. QED
      BY <3>2 DEF bb
  <2>3. /\ it \in RawsOf(w) /\ Len(w.own[it]) = rest
        /\ w.position[it] = s.position[it] + 1
    <3>1. it \in RawsOf(w) /\ Len(w.own[it]) = rest
          /\ w.position[it] = u.position[it] + (z + 1)
      BY <2>0, <2>1, <2>2 DEF Resting, RawsOf
    <3>2. z + 1 = 1
      BY <2>0
    <3>3. QED
      BY <1>17, <3>1, <3>2
  <2>4. Len(seq) = 2 /\ seq[2][1] = it
    <3>1. seq = << <<new, z + 1>>, <<it, Len(u.own[it])>> >>
      BY <2>0, <2>1 DEF PiecesOf
    <3> HIDE DEF seq
    <3>2. QED
      BY <3>1
  <2>5. CutFrom(u, w, node, K, it, seq, new, "leaf")
    BY <2>0 DEF Splitting
  <2> HIDE DEF seq, b, L
  <2>6. /\ DOMAIN seq = 1 .. Len(seq) /\ Len(seq) \in Nat
        /\ \A m \in 1 .. Len(seq) : seq[m][1] \in Items
    BY <2>5, CutLists
  <2>7. items \in Seq(Items) /\ Len(items) = 2 /\ items[2] = it
    <3>1. /\ items \in Seq(Items) /\ Len(items) = Len(seq)
          /\ \A m \in 1 .. Len(seq) : items[m] = seq[m][1]
      BY <2>6 DEF PieceItems
    <3> HIDE DEF items
    <3>2. 2 \in 1 .. Len(seq)
      BY <2>4
    <3>3. QED
      BY <2>4, <3>1, <3>2
  <2>8. w.kids[node] = Spliced(u.kids[node], K, items)
    BY <1>1, <2>5 DEF CutFrom, Cutting
  <2> HIDE DEF items
  <2> DEFINE before == u.kids[node]
  <2>9. before \in Seq(Items) /\ K \in 1 .. Len(before) /\ Len(before) = K
    BY <1>1, <1>5, <1>9 DEF K
  <2> HIDE DEF before
  <2>10. /\ Len(Spliced(before, K, items)) = Len(before) - 1 + Len(items)
         /\ \A j \in 1 .. Len(Spliced(before, K, items)) :
              Spliced(before, K, items)[j] =
                IF j < K THEN before[j]
                ELSE IF j < K + Len(items) THEN items[(j - K) + 1]
                ELSE before[(j - Len(items)) + 1]
    BY <2>7, <2>9, SplicedSeq, Zenon
  <2>11. /\ Len(w.kids[node]) = K + 1
         /\ w.kids[node][K + 1] = it
    <3>1. Len(before) - 1 + Len(items) = K + 1
      BY <1>1, <2>7, <2>9
    <3>2. /\ K + 1 \in 1 .. K + 1 /\ ~ (K + 1 < K) /\ K + 1 < K + Len(items)
          /\ ((K + 1) - K) + 1 = 2
      BY <1>1, <2>7
    <3>3. QED
      BY <2>7, <2>8, <2>10, <3>1, <3>2 DEF before
  <2>12. Len(w.kids[node]) > 0
    BY <1>1, <2>11
  <2>13. QED
    BY <2>3, <2>11, <2>12 DEF Last
<1>15. Expanding(w, node, rest)
  <2> HIDE DEF new
  <2>1. QED
    BY <1>1, <1>11, <1>13, <1>14 DEF Expanding
<1>16. QED
  BY <1>5, <1>12, <1>14, <1>15 DEF it

(* What is made of s by the first k of the names. *)
Expands(made, s, node, order) ==
  made = [k \in 0 .. Len(order) |->
            IF k = 0 THEN s ELSE WithExpansion(made[k - 1], node, order[k])]

(* The function WithExpansions is defined by exists.                         *)
LEMMA ExpandedEquation ==
  ASSUME NEW s, NEW node, NEW order, Len(order) \in Nat
  PROVE  \E made : Expands(made, s, node, order)
<1> DEFINE K == Len(order)
           Upon(g, m) == g = [k \in 0 .. m |->
             IF k = 0 THEN s ELSE WithExpansion(g[k - 1], node, order[k])]
           Missing == {m \in 0 .. K : ~ \E g : Upon(g, m)}
<1> HIDE DEF K
<1>0. K \in Nat
  BY DEF K
<1>1. ASSUME Missing # {} PROVE FALSE
  <2>1. Missing \subseteq Nat
    BY <1>0
  <2>2. Min(Missing) \in Missing /\ \A m \in Missing : Min(Missing) <= m
    <3> HIDE DEF Missing
    <3>1. QED
      BY <1>1, <2>1, Least
  <2>3. PICK m \in Missing : \A j \in Missing : m <= j
    <3> HIDE DEF Missing
    <3>1. QED
      BY <2>2
  <2>4. m \in 0 .. K /\ ~ \E g : Upon(g, m)
    BY <2>3
  <2>5. CASE m = 0
    <3> DEFINE g == [k \in 0 .. m |-> s]
    <3>1. Upon(g, m)
      BY <2>5
    <3>2. QED
      BY <2>4, <3>1
  <2>6. CASE m # 0
    <3>1. m - 1 \in 0 .. K /\ m - 1 \notin Missing
      <4> HIDE DEF Missing
      <4>1. m - 1 \in 0 .. K /\ ~ (m <= m - 1)
        BY <1>0, <2>4, <2>6
      <4>2. QED
        BY <2>3, <4>1
    <3>2. PICK g : Upon(g, m - 1)
      BY <3>1
    <3> DEFINE h == [k \in 0 .. m |->
                 IF k < m THEN g[k] ELSE WithExpansion(g[m - 1], node, order[m])]
    <3>3. ASSUME NEW k \in 0 .. m
          PROVE  h[k] = IF k = 0 THEN s ELSE WithExpansion(h[k - 1], node, order[k])
      <4>1. CASE k = m
        <5>1. h[k] = WithExpansion(g[m - 1], node, order[m]) /\ k # 0
          BY <2>6, <4>1
        <5>2. h[k - 1] = g[m - 1]
          <6>1. k - 1 \in 0 .. m /\ k - 1 < m /\ k - 1 = m - 1
            BY <1>0, <2>4, <2>6, <4>1
          <6>2. QED
            BY <6>1
        <5>3. QED
          BY <4>1, <5>1, <5>2
      <4>2. CASE k # m
        <5>1. k < m /\ k \in 0 .. m - 1
          BY <1>0, <2>4, <4>2
        <5>2. h[k] = g[k]
          BY <5>1
        <5>3. g[k] = IF k = 0 THEN s ELSE WithExpansion(g[k - 1], node, order[k])
          BY <3>2, <5>1
        <5>4. k # 0 => h[k - 1] = g[k - 1]
          <6>1. k # 0 => k - 1 \in 0 .. m /\ k - 1 < m
            BY <1>0, <2>4, <5>1
          <6>2. QED
            BY <6>1
        <5> HIDE DEF h
        <5>5. QED
          BY <5>2, <5>3, <5>4
      <4>3. QED
        BY <4>1, <4>2
    <3>4. h = [k \in 0 .. m |-> h[k]]
      OBVIOUS
    <3> HIDE DEF h
    <3>5. Upon(h, m)
      BY <3>3, <3>4
    <3>6. QED
      BY <2>4, <3>5
  <2>7. QED
    BY <2>5, <2>6
<1>2. K \in 0 .. K
  BY <1>0
<1>3. \E g : Upon(g, K)
  BY <1>1, <1>2
<1>4. QED
  BY <1>3 DEF K, Expands

(* ExpansionsItem::CreateAndInsert: an ExpansionItem after another is made.  *)
LEMMA ExpandedKeeps ==
  ASSUME NEW s, NEW node, NEW K \in Nat, NEW order, order \in Seq(Names),
         Len(order) = K, Expanding(s, node, K),
         NEW w, w = WithExpansions(s, node, order)
  PROVE  Good(w) /\ (Keyed(s, Root) => Keyed(w, Root))
<1> DEFINE made == CHOOSE made : made = [k \in 0 .. Len(order) |->
             IF k = 0 THEN s ELSE WithExpansion(made[k - 1], node, order[k])]
           Kept(u, rest) == /\ Expanding(u, node, rest)
                            /\ Keyed(s, Root) => Keyed(u, Root)
           Failed == {k \in 0 .. K : ~ Kept(made[k], K - k)}
<1>1. made = [k \in 0 .. Len(order) |->
                IF k = 0 THEN s ELSE WithExpansion(made[k - 1], node, order[k])]
  <2>1. Len(order) \in Nat
    OBVIOUS
  <2> HIDE DEF Kept, Failed
  <2>2. \E f : Expands(f, s, node, order)
    BY <2>1, ExpandedEquation
  <2>3. QED
    BY <2>2 DEF Expands
<1>2. w = made[Len(order)]
  BY DEF WithExpansions
<1> HIDE DEF made
<1>3. /\ made[0] = s /\ w = made[K]
      /\ \A k \in 0 .. K :
           k # 0 => made[k] = WithExpansion(made[k - 1], node, order[k])
  BY <1>1, <1>2
<1>4. ASSUME Failed # {} PROVE FALSE
  <2>1. Failed \subseteq Nat
    OBVIOUS
  <2>2. PICK k \in Failed : \A j \in Failed : k <= j
    <3> HIDE DEF Failed
    <3>1. Min(Failed) \in Failed /\ \A m \in Failed : Min(Failed) <= m
      BY <1>4, <2>1, Least
    <3>2. QED
      BY <3>1
  <2>3. k \in 0 .. K /\ ~ Kept(made[k], K - k)
    BY <2>2
  <2>4. CASE k = 0
    <3>1. K - k = K
      BY <2>4
    <3>2. Kept(made[k], K - k)
      BY <1>3, <2>4, <3>1
    <3>3. QED
      BY <2>3, <3>2
  <2>5. CASE k # 0
    <3>1. k - 1 \in 0 .. K /\ ~ (k <= k - 1) /\ k \in 1 .. K
      BY <2>3, <2>5
    <3>2. Kept(made[k - 1], K - (k - 1))
      <4>1. k - 1 \notin Failed
        <5> HIDE DEF Failed
        <5>1. QED
          BY <2>2, <3>1
      <4>2. QED
        BY <3>1, <4>1
    <3>3. K - (k - 1) = (K - k) + 1 /\ K - k \in Nat
      BY <2>3
    <3>4. Expanding(made[k - 1], node, (K - k) + 1)
      BY <3>2, <3>3
    <3>5. order[k] \in Names
      BY <3>1
    <3>6. made[k] = WithExpansion(made[k - 1], node, order[k])
      BY <1>3, <2>3, <2>5
    <3> DEFINE rest == K - k
               n == order[k]
    <3>7. /\ rest \in Nat /\ n \in Names
          /\ Expanding(made[k - 1], node, rest + 1)
          /\ made[k] = WithExpansion(made[k - 1], node, n)
      BY <3>3, <3>4, <3>5, <3>6
    <3> HIDE DEF rest, n
    <3>8. /\ Expanding(made[k], node, rest)
          /\ Keyed(made[k - 1], Root) => Keyed(made[k], Root)
      BY <3>7, ExpansionKeeps
    <3>9. Kept(made[k], rest)
      BY <3>2, <3>8
    <3>10. QED
      BY <2>3, <3>9 DEF rest
  <2>6. QED
    BY <2>4, <2>5
<1>5. Kept(made[K], K - K)
  <2>1. K \in 0 .. K
    OBVIOUS
  <2>2. QED
    BY <1>4, <2>1
<1>6. QED
  BY <1>3, <1>5 DEF Expanding

(* The names in an order.                                                    *)
LEMMA OrderOf ==
  ASSUME NEW N \in SUBSET Names
  PROVE  /\ Cardinality(N) \in Nat /\ (N # {} => Cardinality(N) > 0)
         /\ SetToSeq(N) \in Seq(Names) /\ Len(SetToSeq(N)) = Cardinality(N)
         /\ \A j, k \in 1 .. Cardinality(N) :
              SetToSeq(N)[j] = SetToSeq(N)[k] => j = k
         /\ N = {SetToSeq(N)[k] : k \in 1 .. Cardinality(N)}
<1> DEFINE K == Cardinality(N)
<1>1. IsFiniteSet(N)
  BY FS_Subset, ItemTreeAssumption
<1>2. K \in Nat /\ ExistsBijection(1 .. K, N) /\ (K = 0 <=> N = {})
  BY <1>1, FS_CardinalityType, FS_EmptySet
<1> HIDE DEF K
<1>3. \E f \in [1 .. K -> N] : IsInjective(f)
  BY <1>2 DEF ExistsBijection, Bijection, Injection
<1>4. SetToSeq(N) \in [1 .. K -> N] /\ IsInjective(SetToSeq(N))
  BY <1>3 DEF SetToSeq, K
<1>9. SetToSeq(N) \in Surjection(1 .. K, N)
  <2>1. SetToSeq(N) \in Injection(1 .. K, N)
    BY <1>4 DEF Injection
  <2>2. Cardinality(1 .. K) = Cardinality(N)
    BY <1>2, FS_Interval DEF K
  <2>3. QED
    BY <1>1, <2>1, <2>2, FS_Injection
<1>10. /\ \A j, k \in 1 .. K : SetToSeq(N)[j] = SetToSeq(N)[k] => j = k
       /\ N = {SetToSeq(N)[k] : k \in 1 .. K}
  <2>1. \A j, k \in 1 .. K : SetToSeq(N)[j] = SetToSeq(N)[k] => j = k
    BY <1>4 DEF IsInjective
  <2>2. \A n \in N : \E k \in 1 .. K : SetToSeq(N)[k] = n
    BY <1>9 DEF Surjection
  <2>3. QED
    BY <1>4, <2>1, <2>2
<1>5. SetToSeq(N) \in [1 .. K -> Names]
  BY <1>4
<1> DEFINE order == SetToSeq(N)
<1>6. order \in Seq(Names) /\ Len(order) = K
  <2>1. order \in [1 .. K -> Names]
    BY <1>5
  <2> HIDE DEF order
  <2>2. QED
    BY <1>2, <2>1
<1>7. N # {} => K > 0
  BY <1>2
<1>8. QED
  BY <1>2, <1>6, <1>7, <1>10 DEF K

(* ExpansionsItem::CreateAndInsert                                           *)
LEMMA CreateExpansionsKeeps ==
  ASSUME Parsing(t), CreateExpansions
  PROVE  Parsing(t')
<1> DEFINE node == Fresh(t)
           made(r, pos) == Split(t, r, pos, 0, "node")
           full(r, pos, K) == MoveNextToChild(made(r, pos), node, K)
<1>1. PICK N \in SUBSET {n \in Names : t.label[n] = Unset} :
        \E r \in Raws :
          /\ (N # {} \/ "empty" \in Odd) /\ Room(3 + Cardinality(N))
          /\ \E pos \in Cuts(r, Cardinality(N)) :
               t' = WithExpansions(full(r, pos, Cardinality(N)), node, SetToSeq(N))
  BY DEF CreateExpansions
<1>2. PICK r \in Raws :
        /\ (N # {} \/ "empty" \in Odd) /\ Room(3 + Cardinality(N))
        /\ \E pos \in Cuts(r, Cardinality(N)) :
             t' = WithExpansions(full(r, pos, Cardinality(N)), node, SetToSeq(N))
  BY <1>1
<1> DEFINE K == Cardinality(N)
           order == SetToSeq(N)
<1>3. PICK pos \in Cuts(r, K) : t' = WithExpansions(full(r, pos, K), node, order)
  BY <1>2
<1> DEFINE u == made(r, pos)
           w == full(r, pos, K)
<1>4. /\ K \in Nat /\ (N # {} => K > 0)
      /\ order \in Seq(Names) /\ Len(order) = K
  <2>1. N \in SUBSET Names
    OBVIOUS
  <2>2. QED
    BY <2>1, OrderOf
<1>5. Good(t) /\ Cardinality(Free(t)) >= 3 + K /\ r \in RawsOf(t)
      /\ ("empty" \notin Odd => Keyed(t, Root))
  BY <1>2 DEF Parsing, Room, Raws, RawsOf
<1> HIDE DEF K, order
<1>6. pos \in Nat /\ pos + K <= Len(t.own[r]) /\ pos < Len(t.own[r])
      /\ Len(t.own[r]) \in Nat
  <2>1. Len(t.own[r]) \in Nat
    BY <1>5 DEF Good, Whole, Shaped, RawsOf
  <2> DEFINE L == Len(t.own[r])
  <2>2. pos \in 0 .. L - 1 /\ pos + K <= L
    BY DEF Cuts
  <2>3. L \in Nat
    BY <2>1
  <2> HIDE DEF L
  <2>4. pos \in Nat /\ pos < L /\ pos + K <= L
    BY <2>2, <2>3
  <2>5. QED
    BY <2>1, <2>4 DEF L
<1>7. /\ Free(t) # {} /\ Free(t) \ {node} # {}
      /\ \A f : Cardinality((Free(t) \ {node}) \ {f}) >= 1 + K
  <2>1. Free(t) \subseteq Items /\ Free(t) \ {node} \subseteq Items
    BY DEF Free
  <2>2. /\ 3 + K \in Nat /\ 3 + K > 0 /\ 3 + K > 1 /\ (3 + K) - 1 = 2 + K
        /\ 2 + K \in Nat /\ 2 + K > 0 /\ (2 + K) - 1 = 1 + K
    BY <1>4
  <2>3. /\ Free(t) # {} /\ Free(t) \ {node} # {}
        /\ Cardinality(Free(t) \ {node}) >= (3 + K) - 1
    BY <1>5, <2>1, <2>2, Spared, Zenon
  <2>4. Cardinality(Free(t) \ {node}) >= 2 + K
    BY <2>2, <2>3
  <2>5. \A f : Cardinality((Free(t) \ {node}) \ {f}) >= (2 + K) - 1
    BY <2>1, <2>2, <2>4, Spared, Zenon
  <2>6. QED
    BY <2>2, <2>3, <2>5
<1>8. Cutable(t, r, pos, 0)
  <2> DEFINE L == Len(t.own[r])
  <2>1. pos \in Nat /\ L \in Nat /\ pos < L
    BY <1>6
  <2> HIDE DEF L
  <2>2. pos + 0 <= L /\ L > 0
    BY <2>1
  <2>3. QED
    BY <1>5, <1>6, <1>7, <2>2 DEF Cutable, L
<1>9. "node" # "free" /\ "node" # "raw"
  OBVIOUS
<1>10. PICK p \in Lists, k \in Nat, f \in Nat :
         Splitting(t, u, p, k, r, pos, 0, node, f, "node")
  BY <1>5, <1>8, <1>9, SplitAny
<1> HIDE DEF made, full, node
<1>11. Good(u)
  BY <1>5, <1>9, <1>10, SplitGood
<1> DEFINE b == IF pos = 0 THEN r ELSE f
           c == Fresh(u)
<1>12. Keyed(t, Root) => Keyed(u, b)
  BY <1>5, <1>9, <1>10, SplitKeyed
<1>13. Cardinality(Free(u)) >= 1 + K /\ Free(u) \subseteq Items
  <2>1. Free(u) \subseteq Items
    BY DEF Free
  <2>2. Free(t) \ {node, f} \subseteq Free(u)
    BY <1>5, <1>10, SplitPlaces
  <2> DEFINE S == (Free(t) \ {node}) \ {f}
  <2>3. 1 + K \in Nat
    BY <1>4
  <2>4. S \subseteq Free(u)
    BY <2>2
  <2>5. Cardinality(S) >= 1 + K
    BY <1>7
  <2> HIDE DEF S
  <2>6. QED
    BY <2>1, <2>3, <2>4, <2>5, Left
<1>14. Free(u) # {} /\ Cardinality(Free(u) \ {c}) >= K
  <2>1. 1 + K \in Nat /\ 1 + K > 0 /\ (1 + K) - 1 = K
    BY <1>4
  <2>2. Free(u) # {} /\ Cardinality(Free(u) \ {c}) >= (1 + K) - 1
    <3> HIDE DEF c
    <3>1. QED
      BY <1>13, <2>1, Spared, Zenon
  <2>3. QED
    BY <2>1, <2>2
<1> HIDE DEF b, u
<1>15. /\ \E l : Nestable(u, node, p, l, b, K)
       /\ Taken(u, b) /\ \A n \in LabelsOf(u, b) : u.label[n].offset # 0
  BY <1>4, <1>5, <1>6, <1>10, <1>14, EmptyNodeMade DEF b
<1>16. PICK l : Nestable(u, node, p, l, b, K)
  BY <1>15
<1>17. w = MoveNextToChild(u, node, K)
  BY DEF full, u
<1> HIDE DEF w, c
<1>18. /\ Nesting(u, w, node, c, K)
       /\ K > 0 /\ (Keyed(u, Root) \/ Keyed(u, b)) => Keyed(w, Root)
  BY <1>15, <1>16, <1>17, Nested DEF c
<1>19. Expanding(w, node, K)
  <2>1. Good(w) /\ w.kids[node] = <<c>> /\ c \in RawsOf(w)
        /\ Len(w.own[c]) = K /\ Free(u) \ {c} \subseteq Free(w)
    BY <1>18 DEF Nesting
  <2>2. Len(w.kids[node]) > 0 /\ Last(w.kids[node]) = c
    BY <2>1 DEF Last
  <2>3. Cardinality(Free(w)) >= K
    <3>1. Free(w) \subseteq Items
      BY DEF Free
    <3> DEFINE S == Free(u) \ {c}
    <3>2. S \subseteq Free(w) /\ Cardinality(S) >= K
      BY <1>14, <2>1
    <3> HIDE DEF S
    <3>3. QED
      BY <1>4, <3>1, <3>2, Left
  <2>4. node \in Items
    BY <1>16 DEF Nestable
  <2>5. QED
    BY <1>4, <2>1, <2>2, <2>3, <2>4 DEF Expanding
<1>20. t' = WithExpansions(w, node, order)
  BY <1>3 DEF w
<1>21. Good(t') /\ (Keyed(w, Root) => Keyed(t', Root))
  BY <1>4, <1>19, <1>20, ExpandedKeeps
<1>22. "empty" \notin Odd => Keyed(w, Root)
  <2>1. ASSUME "empty" \notin Odd PROVE K > 0
    BY <1>2, <1>4, <2>1
  <2>2. QED
    BY <1>5, <1>12, <1>18, <2>1
<1>23. QED
  BY <1>21, <1>22 DEF Parsing

-----------------------------------------------------------------------------
(* Edits, the collection of what nothing points to, and the new positions *)

(* The items of `top` but for the garbage, in their order. *)
Keeps(kept, top, garbage) ==
  kept = [k \in 0 .. Len(top) |->
            IF k = 0 THEN <<>>
            ELSE IF top[k] \in garbage THEN kept[k - 1]
            ELSE Append(kept[k - 1], top[k])]

(* The function that Gc is defined by exists.                                *)
LEMMA KeptEquation ==
  ASSUME NEW top, NEW garbage, Len(top) \in Nat
  PROVE  \E kept : Keeps(kept, top, garbage)
<1> DEFINE K == Len(top)
           Upon(g, m) == g = [k \in 0 .. m |->
             IF k = 0 THEN <<>>
             ELSE IF top[k] \in garbage THEN g[k - 1]
             ELSE Append(g[k - 1], top[k])]
           Missing == {m \in 0 .. K : ~ \E g : Upon(g, m)}
<1> HIDE DEF K
<1>0. K \in Nat
  BY DEF K
<1>1. ASSUME Missing # {} PROVE FALSE
  <2>1. Missing \subseteq Nat
    BY <1>0
  <2>2. Min(Missing) \in Missing /\ \A m \in Missing : Min(Missing) <= m
    <3> HIDE DEF Missing
    <3>1. QED
      BY <1>1, <2>1, Least
  <2>3. PICK m \in Missing : \A j \in Missing : m <= j
    <3> HIDE DEF Missing
    <3>1. QED
      BY <2>2
  <2>4. m \in 0 .. K /\ ~ \E g : Upon(g, m)
    BY <2>3
  <2>5. CASE m = 0
    <3> DEFINE g == [k \in 0 .. m |-> <<>>]
    <3>1. Upon(g, m)
      BY <2>5
    <3>2. QED
      BY <2>4, <3>1
  <2>6. CASE m # 0
    <3>1. m - 1 \in 0 .. K /\ m - 1 \notin Missing
      <4> HIDE DEF Missing
      <4>1. m - 1 \in 0 .. K /\ ~ (m <= m - 1)
        BY <1>0, <2>4, <2>6
      <4>2. QED
        BY <2>3, <4>1
    <3>2. PICK g : Upon(g, m - 1)
      BY <3>1
    <3> DEFINE last == IF top[m] \in garbage THEN g[m - 1]
                       ELSE Append(g[m - 1], top[m])
               h == [k \in 0 .. m |-> IF k < m THEN g[k] ELSE last]
    <3>3. ASSUME NEW k \in 0 .. m
          PROVE  h[k] = IF k = 0 THEN <<>>
                        ELSE IF top[k] \in garbage THEN h[k - 1]
                        ELSE Append(h[k - 1], top[k])
      <4>1. CASE k = m
        <5>1. h[k] = last /\ k # 0
          BY <2>6, <4>1
        <5>2. h[k - 1] = g[m - 1]
          <6>1. k - 1 \in 0 .. m /\ k - 1 < m /\ k - 1 = m - 1
            BY <1>0, <2>4, <2>6, <4>1
          <6>2. QED
            BY <6>1
        <5>3. QED
          BY <4>1, <5>1, <5>2
      <4>2. CASE k # m
        <5>1. k < m /\ k \in 0 .. m - 1
          BY <1>0, <2>4, <4>2
        <5>2. h[k] = g[k]
          BY <5>1
        <5>3. g[k] = IF k = 0 THEN <<>>
                     ELSE IF top[k] \in garbage THEN g[k - 1]
                     ELSE Append(g[k - 1], top[k])
          BY <3>2, <5>1
        <5>4. k # 0 => h[k - 1] = g[k - 1]
          <6>1. k # 0 => k - 1 \in 0 .. m /\ k - 1 < m
            BY <1>0, <2>4, <5>1
          <6>2. QED
            BY <6>1
        <5> HIDE DEF h
        <5>5. QED
          BY <5>2, <5>3, <5>4
      <4>3. QED
        BY <4>1, <4>2
    <3>4. h = [k \in 0 .. m |-> h[k]]
      OBVIOUS
    <3> HIDE DEF h
    <3>5. Upon(h, m)
      BY <3>3, <3>4
    <3>6. QED
      BY <2>4, <3>5
  <2>7. QED
    BY <2>5, <2>6
<1>2. K \in 0 .. K
  BY <1>0
<1>3. \E g : Upon(g, K)
  BY <1>1, <1>2
<1>4. QED
  BY <1>3 DEF K, Keeps

(* The list has what is no garbage among the first m of `top`, once. *)
Sifted(list, top, m, garbage) ==
  /\ list \in Seq(Items) /\ Distinct(list)
  /\ \A x \in Items : (\E j \in 1 .. Len(list) : list[j] = x) <=>
       x \notin garbage /\ \E k \in 1 .. m : top[k] = x

(* What is kept of a list.                                                   *)
LEMMA KeptSifted ==
  ASSUME NEW top \in Seq(Items), Distinct(top), NEW garbage, NEW kept,
         Keeps(kept, top, garbage)
  PROVE  Sifted(kept[Len(top)], top, Len(top), garbage)
<1> DEFINE K == Len(top)
           Failed == {m \in 0 .. K : ~ Sifted(kept[m], top, m, garbage)}
<1>1. /\ K \in Nat /\ kept[0] = <<>>
      /\ \A m \in 0 .. K : m # 0 =>
           kept[m] = IF top[m] \in garbage THEN kept[m - 1]
                     ELSE Append(kept[m - 1], top[m])
  <2>1. K \in Nat
    OBVIOUS
  <2> HIDE DEF Failed
  <2>2. kept = [k \in 0 .. K |->
                  IF k = 0 THEN <<>>
                  ELSE IF top[k] \in garbage THEN kept[k - 1]
                  ELSE Append(kept[k - 1], top[k])]
    BY DEF Keeps
  <2> HIDE DEF K
  <2>3. 0 \in 0 .. K
    BY <2>1
  <2>4. \A m \in 0 .. K :
          kept[m] = IF m = 0 THEN <<>>
                    ELSE IF top[m] \in garbage THEN kept[m - 1]
                    ELSE Append(kept[m - 1], top[m])
    BY <2>2
  <2>5. QED
    BY <2>1, <2>3, <2>4
<1>2. \A m \in 1 .. K : top[m] \in Items
  OBVIOUS
<1> HIDE DEF K
<1>3. ASSUME Failed # {} PROVE FALSE
  <2>1. Failed \subseteq Nat
    BY <1>1
  <2>2. PICK m \in Failed : \A j \in Failed : m <= j
    <3> HIDE DEF Failed
    <3>1. Min(Failed) \in Failed /\ \A j \in Failed : Min(Failed) <= j
      BY <1>3, <2>1, Least
    <3>2. QED
      BY <3>1
  <2>3. m \in 0 .. K /\ ~ Sifted(kept[m], top, m, garbage)
    BY <2>2
  <2>4. CASE m = 0
    <3> DEFINE list == <<>>
    <3>1. list \in Seq(Items) /\ Len(list) = 0
      OBVIOUS
    <3>2. kept[m] = list
      BY <1>1, <2>4
    <3> HIDE DEF list
    <3>3. Sifted(list, top, m, garbage)
      BY <2>4, <3>1 DEF Sifted, Distinct
    <3>4. QED
      BY <2>3, <3>2, <3>3
  <2>5. CASE m # 0
    <3>1. m - 1 \in 0 .. K /\ ~ (m <= m - 1) /\ m \in 1 .. K /\ m \in Nat
      BY <1>1, <2>3, <2>5
    <3>2. Sifted(kept[m - 1], top, m - 1, garbage)
      <4>1. m - 1 \notin Failed
        <5> HIDE DEF Failed
        <5>1. QED
          BY <2>2, <3>1
      <4>2. QED
        BY <3>1, <4>1
    <3> DEFINE list == kept[m - 1]
               c == top[m]
    <3>3. /\ list \in Seq(Items) /\ Distinct(list)
          /\ \A x \in Items : (\E j \in 1 .. Len(list) : list[j] = x) <=>
               x \notin garbage /\ \E k \in 1 .. m - 1 : top[k] = x
      BY <3>2 DEF Sifted
    <3>4. c \in Items
      BY <1>2, <3>1
    <3>5. kept[m] = IF c \in garbage THEN list ELSE Append(list, c)
      BY <1>1, <2>3, <2>5
    <3>6. \A x : (\E k \in 1 .. m : top[k] = x) <=>
            x = c \/ \E k \in 1 .. m - 1 : top[k] = x
      <4>1. \A k \in 1 .. m : k = m \/ k \in 1 .. m - 1
        BY <3>1
      <4>2. 1 .. m - 1 \subseteq 1 .. m /\ m \in 1 .. m
        BY <3>1
      <4>3. QED
        BY <4>1, <4>2
    <3>7. ~ \E k \in 1 .. m - 1 : top[k] = c
      <4>1. ASSUME NEW k \in 1 .. m - 1, top[k] = c PROVE FALSE
        <5>1. k \in 1 .. K /\ k # m
          BY <1>1, <3>1, <4>1
        <5>2. QED
          BY <3>1, <4>1, <5>1 DEF Distinct, K
      <4>2. QED
        BY <4>1
    <3> HIDE DEF list, c
    <3>8. CASE c \in garbage
      BY <2>3, <3>3, <3>4, <3>5, <3>6, <3>8 DEF Sifted
    <3>9. CASE c \notin garbage
      <4> DEFINE more == Append(list, c)
                 N == Len(list)
      <4>1. /\ more \in Seq(Items) /\ Len(more) = N + 1 /\ more[N + 1] = c
            /\ N \in Nat /\ \A j \in 1 .. N : more[j] = list[j]
        BY <3>3, <3>4
      <4> HIDE DEF more, N
      <4>2. \A j \in 1 .. Len(more) : j = N + 1 \/ j \in 1 .. N
        BY <4>1
      <4>3. 1 .. N \subseteq 1 .. Len(more) /\ N + 1 \in 1 .. Len(more)
        BY <4>1
      <4>4. \A j \in 1 .. N : list[j] # c /\ list[j] \in Items
        BY <3>3, <3>4, <3>7 DEF N
      <4>5. Distinct(more)
        <5> SUFFICES ASSUME NEW j \in 1 .. Len(more), NEW l \in 1 .. Len(more),
                            more[j] = more[l]
                     PROVE  j = l
          BY DEF Distinct
        <5>1. CASE j \in 1 .. N /\ l \in 1 .. N
          BY <3>3, <4>1, <5>1 DEF Distinct, N
        <5>2. CASE ~ (j \in 1 .. N /\ l \in 1 .. N)
          BY <4>1, <4>2, <4>4, <5>2
        <5>3. QED
          BY <5>1, <5>2
      <4>6. \A x \in Items : (\E j \in 1 .. Len(more) : more[j] = x) <=>
              x = c \/ \E j \in 1 .. N : list[j] = x
        BY <4>1, <4>2, <4>3
      <4>7. Sifted(more, top, m, garbage)
        BY <3>3, <3>6, <3>9, <4>1, <4>5, <4>6 DEF Sifted, N
      <4>8. QED
        BY <2>3, <3>5, <3>9, <4>7 DEF more
    <3>10. QED
      BY <3>8, <3>9
  <2>6. QED
    BY <2>4, <2>5
<1>4. K \in 0 .. K
  BY <1>1
<1>5. QED
  BY <1>3, <1>4 DEF K

(* Stcm::File::Gc, which the labels keep an item from.                       *)
LEMMA GcKeeps ==
  ASSUME Whole(t, {}), Gc
  PROVE  Whole(t', {})
<1> DEFINE top == t.kids[Root]
           garbage == {i \in Range(top) : i \in Raws /\ LabelsOf(t, i) = {}}
           kept == CHOOSE kept : kept = [k \in 0 .. Len(top) |->
                     IF k = 0 THEN <<>>
                     ELSE IF top[k] \in garbage THEN kept[k - 1]
                     ELSE Append(kept[k - 1], top[k])]
           list == kept[Len(top)]
           s1 == Removed(t, garbage)
           s2 == Disposed(s1, garbage)
<1>1. /\ Shaped(t) /\ Owned(t, {}) /\ Once(t.kids) /\ Fields \subseteq DOMAIN t
      /\ t.kids \in [Lists -> Seq(Items)] /\ Root \in Lists /\ Root \notin Items
      /\ Items \subseteq Lists
  BY DEF Whole, Owned, Shaped, Lists, Items, Root
<1>2. t' = [s2 EXCEPT !.kids[Root] = list]
  BY DEF Gc, Dropped
<1>3. top \in Seq(Items) /\ Distinct(top) /\ Len(top) \in Nat
  BY <1>1 DEF Once, Distinct
<1>4. Keeps(kept, top, garbage)
  <2>1. \E f : Keeps(f, top, garbage)
    <3> HIDE DEF top, garbage
    <3>1. QED
      BY <1>3, KeptEquation
  <2> HIDE DEF top, garbage
  <2>2. QED
    BY Zenon, <2>1 DEF Keeps
<1>5. /\ garbage \subseteq Items
      /\ \A i \in garbage : t.kids[i] = <<>> /\ t.kind[i] = "raw"
      /\ \A n \in Names : t.label[n] # Unset => t.label[n].item \notin garbage
  <2>1. garbage \subseteq Raws
    OBVIOUS
  <2>2. \A i \in garbage : i \in Items /\ t.kind[i] = "raw"
    BY <2>1 DEF Raws
  <2>3. \A n \in Names : t.label[n] # Unset => n \in LabelsOf(t, t.label[n].item)
    BY DEF LabelsOf
  <2>4. \A i \in garbage : t.kids[i] = <<>>
    BY <1>1, <2>2 DEF Owned, Childless
  <2>5. QED
    BY <2>2, <2>3, <2>4
<1>6. \A x : x \in garbage => \E k \in 1 .. Len(top) : top[k] = x
  BY <1>3 DEF Range
<1> HIDE DEF kept, garbage, top
<1>7. Sifted(list, top, Len(top), garbage)
  BY <1>3, <1>4, KeptSifted
<1>8. Removing(t, s1, garbage)
  BY <1>1, RemovedFields
<1> HIDE DEF list, s1
<1>9. Typed(s1)
  BY <1>1, <1>8 DEF Removing, Typed, Shaped
<1>10. Disposing(s1, s2, garbage)
  BY <1>9, DisposedFields
<1> HIDE DEF s2
<1>11. /\ DOMAIN t' = DOMAIN t /\ t'.kids = [s2.kids EXCEPT ![Root] = list]
       /\ t'.kind = s2.kind /\ t'.own = s2.own /\ t'.position = s2.position
       /\ t'.pmap = s2.pmap /\ t'.label = s2.label
       /\ DOMAIN s2 = DOMAIN s1 /\ DOMAIN s1 = DOMAIN t
       /\ Typed(s2)
  BY <1>1, <1>2, <1>8, <1>10 DEF Fields, Disposing, Removing
<1>12. /\ t'.kids \in [Lists -> Seq(Items)]
       /\ t'.kids[Root] = list
       /\ \A j \in Items :
            t'.kids[j] = IF j \in garbage THEN <<>> ELSE t.kids[j]
  <2>1. s2.kids \in [Lists -> Seq(Items)]
    BY <1>11 DEF Typed
  <2>2. list \in Seq(Items)
    BY <1>7 DEF Sifted
  <2>3. t'.kids \in [Lists -> Seq(Items)]
    BY <1>1, <1>11, <2>1, <2>2
  <2>4. \A j \in Items : t'.kids[j] = s2.kids[j]
    BY <1>1, <1>11, <2>1
  <2>5. \A j \in Items :
          s2.kids[j] = IF j \in garbage THEN <<>> ELSE t.kids[j]
    BY <1>1, <1>8, <1>10 DEF Disposing, Removing
  <2>6. QED
    BY <1>1, <1>11, <2>1, <2>3, <2>4, <2>5
<1>13. /\ \A j \in Items : t'.kids[j] = t.kids[j]
       /\ \A j \in Items :
            t'.kind[j] = IF j \in garbage THEN "free" ELSE t.kind[j]
       /\ \A j \in Items :
            t'.position[j] = IF j \in garbage THEN 0 ELSE t.position[j]
       /\ t'.label = t.label
  <2>1. \A j \in Items : t'.kids[j] = t.kids[j]
    BY <1>5, <1>12
  <2>2. QED
    BY <1>8, <1>10, <1>11, <2>1 DEF Disposing, Removing
<1>14. \A x \in Items : (\E j \in 1 .. Len(list) : list[j] = x) <=>
         x \notin garbage /\ \E k \in 1 .. Len(top) : top[k] = x
  BY <1>7 DEF Sifted
<1>15. \A i \in Items : Listed(t'.kids, i) <=>
         Listed(t.kids, i) /\ i \notin garbage
  <2> SUFFICES ASSUME NEW i \in Items
               PROVE  Listed(t'.kids, i) <=> Listed(t.kids, i) /\ i \notin garbage
    OBVIOUS
  <2>1. \A kids : Listed(kids, i) <=>
          \/ \E k \in 1 .. Len(kids[Root]) : kids[Root][k] = i
          \/ \E p \in Items : \E k \in 1 .. Len(kids[p]) : kids[p][k] = i
    BY DEF Listed, Lists
  <2> DEFINE below == \E p \in Items : \E k \in 1 .. Len(t.kids[p]) :
                        t.kids[p][k] = i
             above == \E k \in 1 .. Len(t.kids[Root]) : t.kids[Root][k] = i
  <2>2. below <=> \E p \in Items : \E k \in 1 .. Len(t'.kids[p]) :
                    t'.kids[p][k] = i
    BY <1>13
  <2>3. (\E k \in 1 .. Len(t'.kids[Root]) : t'.kids[Root][k] = i) <=>
          i \notin garbage /\ above
    BY <1>12, <1>14 DEF top
  <2>4. i \in garbage => ~ below
    <3>1. i \in garbage => above
      BY <1>6 DEF top
    <3>2. ~ (above /\ below)
      BY <1>1 DEF Once
    <3>3. QED
      BY <3>1, <3>2
  <2>5. Listed(t.kids, i) <=> above \/ below
    BY <2>1
  <2>6. Listed(t'.kids, i) <=> (i \notin garbage /\ above) \/ below
    BY <2>1, <2>2, <2>3
  <2> HIDE DEF above, below
  <2>7. QED
    BY <2>4, <2>5, <2>6
<1>16. Once(t'.kids)
  <2> SUFFICES ASSUME NEW p \in Lists, NEW q \in Lists,
                      NEW k \in 1 .. Len(t'.kids[p]),
                      NEW l \in 1 .. Len(t'.kids[q]),
                      t'.kids[p][k] = t'.kids[q][l]
               PROVE  p = q /\ k = l
    BY DEF Once
  <2>1. p = Root \/ p \in Items
    BY DEF Lists
  <2>2. q = Root \/ q \in Items
    BY DEF Lists
  <2>3. CASE p = Root /\ q = Root
    BY <1>7, <1>12, <2>3 DEF Sifted, Distinct
  <2>4. CASE p \in Items /\ q \in Items
    <3>1. t'.kids[p] = t.kids[p] /\ t'.kids[q] = t.kids[q]
      BY <1>13, <2>4
    <3>2. /\ k \in 1 .. Len(t.kids[p]) /\ l \in 1 .. Len(t.kids[q])
          /\ t.kids[p][k] = t.kids[q][l]
      BY <3>1
    <3>3. QED
      BY <1>1, <3>2 DEF Once
  <2>5. \A j \in 1 .. Len(list) :
          \E m \in 1 .. Len(t.kids[Root]) : t.kids[Root][m] = list[j]
    <3> SUFFICES ASSUME NEW j \in 1 .. Len(list)
                 PROVE  \E m \in 1 .. Len(t.kids[Root]) : t.kids[Root][m] = list[j]
      OBVIOUS
    <3>1. list[j] \in Items
      BY <1>7 DEF Sifted
    <3>2. QED
      BY <1>14, <3>1 DEF top
  <2>6. CASE p = Root /\ q \in Items
    <3>1. t'.kids[q] = t.kids[q] /\ q # Root /\ q \in Lists
      BY <1>1, <1>13, <2>6
    <3>2. PICK m \in 1 .. Len(t.kids[Root]) : t.kids[Root][m] = t'.kids[p][k]
      BY <1>12, <2>5, <2>6
    <3>3. l \in 1 .. Len(t.kids[q]) /\ t.kids[Root][m] = t.kids[q][l]
      BY <3>1, <3>2
    <3>4. QED
      BY <1>1, <3>1, <3>3 DEF Once
  <2>7. CASE p \in Items /\ q = Root
    <3>1. t'.kids[p] = t.kids[p] /\ p # Root /\ p \in Lists
      BY <1>1, <1>13, <2>7
    <3>2. PICK m \in 1 .. Len(t.kids[Root]) : t.kids[Root][m] = t'.kids[q][l]
      BY <1>12, <2>5, <2>7
    <3>3. k \in 1 .. Len(t.kids[p]) /\ t.kids[Root][m] = t.kids[p][k]
      BY <3>1, <3>2
    <3>4. QED
      BY <1>1, <3>1, <3>3 DEF Once
  <2>8. QED
    BY <2>1, <2>2, <2>3, <2>4, <2>6, <2>7
<1>17. \A q \in DOMAIN t'.pmap :
         /\ q \in DOMAIN t.pmap /\ t'.pmap[q] = t.pmap[q]
         /\ t.pmap[q] \notin garbage
  <2>1. \A q \in DOMAIN t.pmap : t.position[t.pmap[q]] = q
    BY <1>1 DEF Shaped
  <2>2. QED
    BY <1>8, <1>10, <1>11, <2>1 DEF Disposing, Removing
<1>18. Shaped(t')
  <2>1. Fields \subseteq DOMAIN t' /\ DOMAIN t'.kind = Items
        /\ t'.own \in [Items -> Seq(Nat)] /\ DOMAIN t'.position = Items
    BY <1>1, <1>11 DEF Typed
  <2>2. t'.label \in [Names -> Pointers \union {Unset}]
    BY <1>1, <1>13 DEF Shaped
  <2>3. DOMAIN t'.pmap \subseteq 0 .. Size
    BY <1>1, <1>17 DEF Shaped
  <2>4. \A q \in DOMAIN t'.pmap :
          t'.pmap[q] \in Items /\ t'.position[t'.pmap[q]] = q
    <3>1. TAKE q \in DOMAIN t'.pmap
    <3>2. /\ q \in DOMAIN t.pmap /\ t'.pmap[q] = t.pmap[q]
          /\ t.pmap[q] \notin garbage
      BY <1>17
    <3>3. t.pmap[q] \in Items /\ t.position[t.pmap[q]] = q
      BY <1>1, <3>2 DEF Shaped
    <3>4. t'.position[t.pmap[q]] = t.position[t.pmap[q]]
      BY <1>13, <3>2, <3>3
    <3>5. QED
      BY <3>2, <3>3, <3>4
  <2>5. QED
    BY <1>12, <2>1, <2>2, <2>3, <2>4 DEF Shaped
<1>19. Owned(t', {})
  <2>1. \A i \in Items : Listed(t'.kids, i) <=> t'.kind[i] # "free"
    BY <1>1, <1>13, <1>15 DEF Owned
  <2>2. \A i \in Items : t'.kind[i] \in Childless => t'.kids[i] = <<>>
    BY <1>1, <1>5, <1>13 DEF Owned
  <2>3. \A n \in Names : t'.label[n] # Unset => Listed(t'.kids, t'.label[n].item)
    <3>1. \A n \in Names : t.label[n] # Unset =>
            t.label[n].item \in Items /\ Listed(t.kids, t.label[n].item)
      BY <1>1 DEF Owned, Shaped, Pointers
    <3>2. QED
      BY <1>5, <1>13, <1>15, <3>1
  <2>4. \A q \in DOMAIN t'.pmap : Listed(t'.kids, t'.pmap[q])
    <3>1. \A q \in DOMAIN t.pmap : t.pmap[q] \in Items /\ Listed(t.kids, t.pmap[q])
      BY <1>1 DEF Owned, Shaped
    <3>2. QED
      BY <1>15, <1>17, <3>1
  <2>5. QED
    BY <1>16, <2>1, <2>2, <2>3, <2>4 DEF Owned
<1>20. QED
  BY <1>18, <1>19 DEF Whole

(* Context::Fixup                                                            *)
LEMMA FixupKeeps ==
  ASSUME Whole(t, {}), Fixup
  PROVE  Whole(t', {})
<1>1. /\ Shaped(t) /\ Owned(t, {})
      /\ t' = [t EXCEPT !.pmap = <<>>, !.position = FixedPositions(t)]
  BY DEF Whole, Fixup
<1>2. DOMAIN FixedPositions(t) = Items
  BY DEF FixedPositions
<1>3. /\ DOMAIN t' = DOMAIN t /\ t'.kids = t.kids /\ t'.kind = t.kind
      /\ t'.own = t.own /\ t'.label = t.label /\ t'.pmap = <<>>
      /\ DOMAIN t'.position = Items
  <2> DEFINE at == FixedPositions(t)
  <2> HIDE DEF at
  <2>1. t' = [t EXCEPT !.pmap = <<>>, !.position = at]
    BY <1>1 DEF at
  <2>2. DOMAIN at = Items
    BY <1>2 DEF at
  <2>3. QED
    BY <1>1, <2>1, <2>2 DEF Shaped, Fields
<1>4. DOMAIN t'.pmap = {}
  BY <1>3
<1>5. Shaped(t')
  BY <1>1, <1>3, <1>4 DEF Shaped
<1>6. Owned(t', {})
  BY <1>1, <1>3, <1>4 DEF Owned
<1>7. QED
  BY <1>5, <1>6 DEF Whole

(* A string that is assigned in place: ReadTxt_                              *)
LEMMA ReadTxtKeeps ==
  ASSUME Whole(t, {}), ReadTxt
  PROVE  Whole(t', {})
<1>1. PICK i \in Items, n \in Texts :
        t' = [t EXCEPT !.own[i] = [k \in 1 .. n |-> Edited]]
  BY DEF ReadTxt
<1> DEFINE text == [k \in 1 .. n |-> Edited]
<1>2. text \in Seq(Nat)
  <2>1. n \in Nat /\ Edited \in Nat
    BY ItemTreeAssumption DEF Edited
  <2>2. QED
    BY <2>1
<1>3. t' = [t EXCEPT !.own[i] = text]
  BY <1>1
<1> HIDE DEF text
<1>4. Shaped(t) /\ Owned(t, {})
  BY DEF Whole
<1>5. /\ DOMAIN t' = DOMAIN t /\ t'.kids = t.kids /\ t'.kind = t.kind
      /\ t'.position = t.position /\ t'.label = t.label /\ t'.pmap = t.pmap
      /\ t'.own = [t.own EXCEPT ![i] = text]
  BY <1>3, <1>4 DEF Shaped, Fields
<1>6. t'.own \in [Items -> Seq(Nat)]
  BY <1>2, <1>4, <1>5 DEF Shaped
<1>7. Shaped(t') /\ Owned(t', {})
  BY <1>4, <1>5, <1>6 DEF Shaped, Owned
<1>8. QED
  BY <1>7 DEF Whole

(* A file of one raw item that has its units and is found at its start. *)
SetUp(s, root) ==
  /\ Whole(s, {}) /\ root \in Items /\ s.kids[Root] = <<root>>
  /\ s.kind[root] = "raw" /\ Len(s.own[root]) = Size /\ s.position[root] = 0
  /\ \A k \in 1 .. Size : s.own[root][k] = k - 1
  /\ DOMAIN s.pmap = {0} /\ s.pmap[0] = root
  /\ \A n \in Names : s.label[n] = Unset
  /\ Free(s) = Items \ {root} /\ Free(s) # {}

(* Context::SetupParseFrom, and the EofItem that is split off.               *)
LEMMA UnparsedOf ==
  \E s, root : SetUp(s, root) /\ Unparsed = Split(s, root, Size, 0, "eof")
<1> DEFINE blank == [kids |-> [i \in {Root} \union Items |-> <<>>],
                     kind |-> [i \in Items |-> "free"],
                     own |-> [i \in Items |-> <<>>],
                     position |-> [i \in Items |-> 0],
                     pmap |-> <<>>,
                     label |-> [n \in Names |-> Unset]]
           root == Fresh(blank)
           units == [k \in 1 .. Size |-> k - 1]
           one == Create(blank, "raw", units)
           s == [one EXCEPT !.kids[Root] = <<root>>, !.pmap = [q \in {0} |-> root]]
<1>1. Unparsed = Split(s, root, Size, 0, "eof")
  BY DEF Unparsed
<1>2. 1 \in Items /\ 2 \in Items /\ 0 \in 0 .. Size /\ Size \in Nat
      /\ Root \in Lists /\ Root \notin Items
  BY ItemTreeAssumption DEF Items, Root, Lists
<1>3. /\ DOMAIN blank = Fields
      /\ blank.kids = [i \in Lists |-> <<>>] /\ blank.kind = [i \in Items |-> "free"]
      /\ blank.own = [i \in Items |-> <<>>]
      /\ blank.position = [i \in Items |-> 0]
      /\ blank.pmap = <<>> /\ blank.label = [n \in Names |-> Unset]
  BY DEF Lists, Fields
<1>4. Free(blank) = Items
  <2> HIDE DEF blank
  <2>1. QED
    BY <1>3 DEF Free
<1>5. units \in Seq(Nat) /\ Len(units) = Size
  <2>1. \A k \in 1 .. Size : k - 1 \in Nat
    BY <1>2
  <2>2. units \in [1 .. Size -> Nat]
    BY <2>1
  <2> HIDE DEF units
  <2>3. QED
    BY <1>2, <2>2
<1> HIDE DEF blank, units
<1>6. Whole(blank, {})
  <2> DEFINE none == <<>>
  <2>1. none \in Seq(Items) /\ none \in Seq(Nat) /\ Len(none) = 0 /\ DOMAIN none = {}
    OBVIOUS
  <2>2. /\ blank.kids = [i \in Lists |-> none] /\ blank.own = [i \in Items |-> none]
        /\ blank.pmap = none
    BY <1>3
  <2>3. none = <<>>
    OBVIOUS
  <2> HIDE DEF none
  <2>4. Shaped(blank)
    BY <1>3, <2>1, <2>2 DEF Shaped
  <2>5. \A i : ~ Listed(blank.kids, i)
    BY <2>1, <2>2 DEF Listed
  <2>6. Once(blank.kids)
    BY <2>1, <2>2 DEF Once
  <2>7. \A i \in Items : blank.kids[i] = <<>>
    BY <2>2, <2>3 DEF Lists
  <2>8. Owned(blank, {})
    BY <1>3, <2>1, <2>2, <2>5, <2>6, <2>7 DEF Owned
  <2>9. QED
    BY <2>4, <2>8 DEF Whole
<1>7. Creating(blank, one, root, {}, "raw", units)
  <2> DEFINE loose == {}
  <2>1. "raw" # "free" /\ Free(blank) # {} /\ Whole(blank, loose)
    BY <1>2, <1>4, <1>6
  <2> HIDE DEF loose
  <2>2. Creating(blank, one, root, loose, "raw", units)
    BY <1>5, <2>1, Created
  <2>3. QED
    BY <2>2 DEF loose
<1> HIDE DEF root, one
<1>8. /\ root \in Items /\ DOMAIN one = Fields
      /\ one.kind = [blank.kind EXCEPT ![root] = "raw"]
      /\ one.own = [blank.own EXCEPT ![root] = units]
      /\ one.kids = blank.kids /\ one.position = blank.position
      /\ one.label = blank.label /\ one.pmap = blank.pmap
      /\ Free(one) = Items \ {root} /\ Whole(one, {root})
  <2>1. {} \union {root} = {root}
    OBVIOUS
  <2>2. QED
    BY <1>3, <1>4, <1>7, <2>1 DEF Creating
<1>9. /\ DOMAIN s = Fields /\ s.kind = one.kind /\ s.own = one.own
      /\ s.position = one.position /\ s.label = one.label
      /\ s.kids = [one.kids EXCEPT ![Root] = <<root>>]
      /\ s.pmap = [q \in {0} |-> root]
  BY <1>8 DEF Fields
<1> HIDE DEF s
<1>10. /\ s.kids \in [Lists -> Seq(Items)] /\ s.kids[Root] = <<root>>
       /\ \A j \in Items : s.kids[j] = <<>>
       /\ Len(s.kids[Root]) = 1 /\ s.kids[Root][1] = root
  <2> DEFINE list == <<root>>
             none == <<>>
  <2>1. list \in Seq(Items) /\ Len(list) = 1 /\ list[1] = root /\ none \in Seq(Items)
    BY <1>8
  <2>2. s.kids = [one.kids EXCEPT ![Root] = list] /\ one.kids = [i \in Lists |-> none]
    BY <1>3, <1>8, <1>9
  <2> HIDE DEF list, none
  <2>3. /\ s.kids \in [Lists -> Seq(Items)] /\ s.kids[Root] = list
        /\ \A j \in Items : s.kids[j] = none
    BY <1>2, <2>1, <2>2 DEF Lists
  <2>4. QED
    BY <2>1, <2>3 DEF list, none
<1>11. /\ s.kind[root] = "raw" /\ s.own[root] = units /\ s.position[root] = 0
       /\ \A j \in Items : j # root => s.kind[j] = "free"
       /\ s.pmap[0] = root /\ DOMAIN s.pmap = {0}
       /\ \A n \in Names : s.label[n] = Unset
  BY <1>3, <1>8, <1>9
<1>12. Free(s) = Items \ {root} /\ Free(s) # {}
  <2>1. Free(s) = Free(one)
    BY <1>9 DEF Free
  <2>2. QED
    BY <1>2, <1>8, <2>1
<1>13. Shaped(s)
  <2>1. /\ s.label \in [Names -> Pointers \union {Unset}]
        /\ s.own \in [Items -> Seq(Nat)] /\ DOMAIN s.kind = Items
        /\ DOMAIN s.position = Items
    BY <1>8, <1>9 DEF Whole, Shaped
  <2>2. Fields \subseteq DOMAIN s
    BY <1>9
  <2>3. DOMAIN s.pmap \subseteq 0 .. Size
    BY <1>2, <1>11
  <2>4. \A q \in DOMAIN s.pmap : s.pmap[q] \in Items /\ s.position[s.pmap[q]] = q
    BY <1>8, <1>11
  <2>5. QED
    BY <1>10, <2>1, <2>2, <2>3, <2>4 DEF Shaped
<1>14. \A i : Listed(s.kids, i) <=> i = root
  <2>1. \A j \in Items : Len(s.kids[j]) = 0
    BY <1>10
  <2>2. ASSUME NEW i, Listed(s.kids, i) PROVE i = root
    <3>1. PICK p \in Lists : \E k \in 1 .. Len(s.kids[p]) : s.kids[p][k] = i
      BY <2>2 DEF Listed
    <3>2. p = Root
      BY <2>1, <3>1 DEF Lists
    <3>3. QED
      BY <1>10, <3>1, <3>2
  <2>3. Listed(s.kids, root)
    <3>1. 1 \in 1 .. Len(s.kids[Root])
      BY <1>10
    <3>2. QED
      BY <1>2, <1>10, <3>1 DEF Listed
  <2>4. QED
    BY <2>2, <2>3
<1>15. Once(s.kids)
  <2> SUFFICES ASSUME NEW p \in Lists, NEW q \in Lists,
                      NEW k \in 1 .. Len(s.kids[p]), NEW l \in 1 .. Len(s.kids[q])
               PROVE  p = q /\ k = l
    BY DEF Once
  <2>1. \A j \in Items : Len(s.kids[j]) = 0
    BY <1>10
  <2>2. p = Root /\ q = Root
    BY <2>1 DEF Lists
  <2>3. Len(s.kids[p]) = 1 /\ Len(s.kids[q]) = 1
    BY <1>10, <2>2
  <2>4. k = 1 /\ l = 1
    BY <2>3
  <2>5. QED
    BY <2>2, <2>4
<1>16. Owned(s, {})
  BY <1>10, <1>11, <1>14, <1>15 DEF Owned
<1>17. \A k \in 1 .. Size : s.own[root][k] = k - 1
  BY <1>11 DEF units
<1>18. SetUp(s, root)
  BY <1>5, <1>8, <1>10, <1>11, <1>12, <1>13, <1>16, <1>17 DEF SetUp, Whole
<1>19. QED
  BY <1>1, <1>18 DEF s

(* File::Parse_ before anything is parsed.                                   *)
LEMMA UnparsedIs ==
  Parsing(Unparsed)
<1>1. PICK s, root : SetUp(s, root) /\ Unparsed = Split(s, root, Size, 0, "eof")
  BY UnparsedOf
<1> DEFINE u == Split(s, root, Size, 0, "eof")
           new == Fresh(s)
<1>2. /\ Whole(s, {}) /\ Shaped(s) /\ root \in Items /\ s.kind[root] = "raw"
      /\ Len(s.own[root]) = Size /\ s.position[root] = 0
      /\ DOMAIN s.pmap = {0} /\ s.pmap[0] = root
      /\ \A n \in Names : s.label[n] = Unset
      /\ Free(s) = Items \ {root} /\ Free(s) # {}
      /\ Size \in Nat /\ Size > 0 /\ Size + 0 = Size
  BY <1>1, ItemTreeAssumption DEF SetUp, Whole
<1>3. 1 \in 1 .. Len(s.kids[Root]) /\ s.kids[Root][1] = root /\ Root \in Lists
  <2>1. s.kids[Root] = <<root>>
    BY <1>1 DEF SetUp
  <2>2. QED
    BY <2>1 DEF Lists
<1>4. new \in Items /\ new # root /\ s.kind[new] = "free"
  <2>1. Free(s) \subseteq Nat
    BY <1>2 DEF Free, Items
  <2>2. new \in Free(s)
    BY <1>2, <2>1, Least DEF Fresh
  <2>3. QED
    BY <1>2, <2>2 DEF Free
<1>5. LabelsOf(s, root) = {}
  BY <1>2 DEF LabelsOf
<1>6. \E f \in Nat : /\ f # root /\ f # new
        /\ Cutting(s, u, Root, 1, root,
                   PiecesOf(root, Size, Size + 0, Len(s.own[root]), new, f),
                   new, "eof")
  <2>1. Cuttable(s, root, Size, 0)
    BY <1>2, <1>5 DEF Cuttable
  <2>2. "eof" # "free"
    OBVIOUS
  <2> HIDE DEF u
  <2> DEFINE k == 1
  <2>3. k \in 1 .. Len(s.kids[Root]) /\ root = s.kids[Root][k]
    BY <1>3
  <2> HIDE DEF k
  <2>4. \E f \in Nat : /\ f # root /\ f # new
          /\ Cutting(s, Split(s, root, Size, 0, "eof"), Root, k, root,
                     PiecesOf(root, Size, Size + 0, Len(s.own[root]), new, f),
                     new, "eof")
    BY <1>3, <2>1, <2>2, <2>3, SplitCuts
  <2>5. QED
    BY <2>4 DEF k, u
<1> HIDE DEF u, new
<1>7. PICK f \in Nat :
        Cutting(s, u, Root, 1, root,
                PiecesOf(root, Size, Size + 0, Len(s.own[root]), new, f),
                new, "eof")
  BY <1>6
<1> DEFINE seq == PiecesOf(root, Size, Size + 0, Len(s.own[root]), new, f)
<1>8. /\ Len(seq) = 2 /\ seq[1][1] = root /\ seq[2][1] = new
      /\ seq[1][2] = Size /\ seq[2][2] = Size
      /\ StartOf(seq, 1) = 0 /\ StartOf(seq, 2) = Size
  <2>1. seq = << <<root, Size>>, <<new, Size>> >>
    BY <1>2 DEF PiecesOf
  <2> HIDE DEF seq
  <2>2. /\ Len(seq) = 2 /\ seq[1][1] = root /\ seq[2][1] = new
        /\ seq[1][2] = Size /\ seq[2][2] = Size
    BY <2>1
  <2>3. QED
    BY <2>2 DEF StartOf
<1>9. Cutting(s, u, Root, 1, root, seq, new, "eof")
  BY <1>7
<1> HIDE DEF seq
<1>10. /\ 1 \in 1 .. Len(seq) /\ 2 \in 1 .. Len(seq) /\ Len(seq) > 1
       /\ \A m \in 1 .. Len(seq) : m = 1 \/ m = 2
  BY <1>8
<1>11. CutFrom(s, u, Root, 1, root, seq, new, "eof")
  <2>1. EndOf(s, root) <= Size /\ s.position[root] \in Nat
    BY <1>2 DEF EndOf
  <2>2. QED
    BY <1>2, <1>3, <1>9, <2>1 DEF CutFrom
<1>12. Whole(u, {})
  BY <1>11, CutWhole
<1>13. /\ u.kind[root] = "raw" /\ u.kind[new] = "eof"
       /\ Len(u.own[root]) = Size /\ u.position[root] = 0
       /\ u.position[new] = Size
       /\ \A j \in Items : j # root /\ j # new => u.kind[j] = "free"
  <2>0. \A m \in 1 .. Len(seq) :
          /\ u.kind[seq[m][1]] = IF seq[m][1] = new THEN "eof" ELSE "raw"
          /\ Len(u.own[seq[m][1]]) = seq[m][2] - StartOf(seq, m)
          /\ u.position[seq[m][1]] = s.position[root] + StartOf(seq, m)
    BY <1>9 DEF Cutting
  <2>1. /\ u.kind[root] = "raw" /\ Len(u.own[root]) = Size - 0
        /\ u.position[root] = 0 + 0
    <3>1. /\ u.kind[seq[1][1]] = IF seq[1][1] = new THEN "eof" ELSE "raw"
          /\ Len(u.own[seq[1][1]]) = seq[1][2] - StartOf(seq, 1)
          /\ u.position[seq[1][1]] = s.position[root] + StartOf(seq, 1)
      BY <1>10, <2>0
    <3>2. QED
      BY <1>2, <1>4, <1>8, <3>1
  <2>2. u.kind[new] = "eof" /\ u.position[new] = 0 + Size
    BY <1>2, <1>4, <1>8, <1>10, <2>0
  <2>3. ASSUME NEW j \in Items, j # root, j # new PROVE u.kind[j] = "free"
    <3>1. \A m \in 1 .. Len(seq) : seq[m][1] # j
      BY <1>8, <1>10, <2>3
    <3>2. u.kind[j] = s.kind[j]
      BY <1>9, <2>3, <3>1 DEF Cutting
    <3>3. s.kind[j] = "free"
      BY <1>2, <2>3 DEF Free
    <3>4. QED
      BY <3>2, <3>3
  <2>4. QED
    BY <1>2, <2>1, <2>2, <2>3
<1>14. \A n \in Names : u.label[n] = Unset
  BY <1>2, <1>5, <1>9 DEF Cutting, Relabelling
<1>15. Remapping(s, u, root, seq)
  BY <1>9 DEF Cutting
<1>16. Started(seq, s.position[root]) = {0, Size}
  <2>1. s.position[root] + StartOf(seq, 1) = 0
        /\ s.position[root] + StartOf(seq, 2) = Size
    BY <1>2, <1>8
  <2>2. QED
    BY <1>10, <2>1 DEF Started
<1>17. DOMAIN u.pmap = {0, Size}
  BY <1>2, <1>10, <1>15, <1>16 DEF Remapping
<1>18. u.pmap[0] = root /\ u.pmap[Size] = new
  <2>1. \A q \in DOMAIN u.pmap : \E m \in 1 .. Len(seq) :
          First(seq, s.position[root], q, m) /\ u.pmap[q] = seq[m][1]
    BY <1>2, <1>15 DEF Remapping
  <2>2. PICK m \in 1 .. Len(seq) :
          First(seq, s.position[root], 0, m) /\ u.pmap[0] = seq[m][1]
    BY <1>17, <2>1
  <2>3. PICK l \in 1 .. Len(seq) :
          First(seq, s.position[root], Size, l) /\ u.pmap[Size] = seq[l][1]
    BY <1>17, <2>1
  <2>4. s.position[root] + StartOf(seq, m) = 0
        /\ s.position[root] + StartOf(seq, l) = Size
    BY <2>2, <2>3 DEF First
  <2>5. m = 1 /\ l = 2
    BY <1>2, <1>8, <1>10, <2>4
  <2>6. QED
    BY <1>8, <2>2, <2>3, <2>5
<1>19. RawsOf(u) = {root}
  BY <1>2, <1>4, <1>13 DEF RawsOf
<1>20. EndOf(u, root) = Size
  BY <1>2, <1>13 DEF EndOf
<1>21. Regular(u)
  <2>1. \A i \in Items : u.kind[i] # "free" => u.position[i] \in Nat
    BY <1>2, <1>13
  <2>2. Apart(u)
    <3>1. ASSUME NEW i \in Items \ {root}, u.kind[i] # "free"
          PROVE  EndOf(u, root) <= u.position[i]
      <4>1. i = new
        BY <1>13, <3>1
      <4>2. QED
        BY <1>2, <1>13, <1>20, <4>1
    <3>2. QED
      BY <1>19, <3>1 DEF Apart
  <2>3. Disjoint(u)
    BY <1>19 DEF Disjoint
  <2>4. \A q \in DOMAIN u.pmap :
          u.pmap[q] \in RawsOf(u) => Len(u.own[u.pmap[q]]) > 0
    BY <1>2, <1>13, <1>19
  <2>5. QED
    BY <1>14, <1>17, <1>19, <1>20, <2>1, <2>2, <2>3, <2>4 DEF Regular
<1>22. Keyed(u, Root)
  BY <1>13, <1>17, <1>18, <1>19 DEF Keyed
<1>23. Parsing(u)
  BY <1>12, <1>21, <1>22 DEF Parsing, Good
<1>24. QED
  BY <1>1, <1>23 DEF u

-----------------------------------------------------------------------------
(* Layouts *)

(* The items that are alive, and the Context. *)
Live(s) == {Root} \union {i \in Items : s.kind[i] # "free"}

(* Where the children of an item start: behind what it has itself. *)
Inner(s, p) == IF p = Root THEN 0 ELSE s.position[p] + Len(s.own[p])

(* Where the k-th of a list of items starts that are laid from `from`, if    *)
(* items end where `end` says.                                               *)
Mark(list, end, from, k) == IF k = 1 THEN from ELSE end[list[k - 1]]

(* The items of the list are one behind the other, between from and to.      *)
Row(list, position, end, from, to) ==
  /\ \A k \in 1 .. Len(list) : position[list[k]] = Mark(list, end, from, k)
  /\ to = Mark(list, end, from, Len(list) + 1)

(* So are the children of every item, behind what it has itself, up to its   *)
(* end.                                                                      *)
LaidOut(s, end) ==
  /\ end \in [Lists -> Nat] /\ end[Root] = Size
  /\ \A p \in Live(s) : Row(s.kids[p], s.position, end, Inner(s, p), end[p])

(* No item is under itself. *)
Layered(s, depth) ==
  /\ depth \in [Lists -> Nat]
  /\ \A p \in Lists : \A k \in 1 .. Len(s.kids[p]) :
       depth[p] < depth[s.kids[p][k]]

(* Item y is found by its position. *)
Found(s, y) == s.position[y] \in DOMAIN s.pmap /\ s.pmap[s.position[y]] = y

(* So is every item that is behind another in its list. The first child of   *)
(* an item may have lost its key to the item, or was taken out of the map.   *)
Indexed(s, except) ==
  \A p \in Lists : \A k \in 1 .. Len(s.kids[p]) :
    k # 1 /\ s.kids[p][k] # except => Found(s, s.kids[p][k])

(* Only at the end of the file is there an item of no bytes. *)
Bulky(s, end, except) ==
  \A i \in Items : s.kind[i] # "free" /\ i # except =>
    s.position[i] < end[i] \/ s.position[i] = Size

(* A label points to a place its item or an item under that has, or to where *)
(* its item starts.                                                          *)
Held(s, end) ==
  \A n \in Names : s.label[n] # Unset /\ s.label[n].offset # 0 =>
    ToFilePos(s, s.label[n]) < end[s.label[n].item]

(* The EofItem has nothing. *)
EofEmpty(s) == \A i \in Items : s.kind[i] = "eof" => s.own[i] = <<>>

(* The layout of a file that is being parsed; while a node is made, `lost`   *)
(* is not found by its position, and `thin` has no bytes yet.                *)
Layout(s, lost, thin) ==
  /\ \E end : LaidOut(s, end) /\ Bulky(s, end, thin) /\ Held(s, end)
  /\ \E depth : Layered(s, depth)
  /\ Indexed(s, lost) /\ EofEmpty(s)

-----------------------------------------------------------------------------
(* Rows *)

(* `new` is the list with `items` in the place of its k-th element. *)
SpliceOf(new, list, k, items) ==
  /\ Len(new) = Len(list) - 1 + Len(items)
  /\ \A j \in 1 .. Len(new) :
       new[j] = IF j < k THEN list[j]
                ELSE IF j < k + Len(items) THEN items[(j - k) + 1]
                ELSE list[(j - Len(items)) + 1]

(* Spliced is.                                                               *)
LEMMA SplicedIs ==
  ASSUME NEW S, NEW list \in Seq(S), NEW items \in Seq(S),
         NEW k \in 1 .. Len(list)
  PROVE  SpliceOf(Spliced(list, k, items), list, k, items)
BY SplicedSeq, Zenon DEF SpliceOf

(* An item of a row is replaced by a row that takes its place.               *)
LEMMA RowSpliced ==
  ASSUME NEW S, NEW list \in Seq(S), NEW items \in Seq(S),
         NEW k \in 1 .. Len(list), Len(items) > 0,
         NEW P, NEW E, NEW P2, NEW E2, NEW from, NEW to,
         Row(list, P, E, from, to),
         Row(items, P2, E2, P[list[k]], E[list[k]]),
         \A j \in 1 .. Len(list) :
           j # k => P2[list[j]] = P[list[j]] /\ E2[list[j]] = E[list[j]]
  PROVE  Row(Spliced(list, k, items), P2, E2, from, to)
<1> DEFINE new == Spliced(list, k, items)
           n == Len(list)
           m == Len(items)
<1>1. n \in Nat /\ m \in Nat /\ m > 0 /\ k \in Nat /\ 1 <= k /\ k <= n
  OBVIOUS
<1>2. /\ Len(new) = n - 1 + m
      /\ \A j \in 1 .. n - 1 + m :
           new[j] = IF j < k THEN list[j]
                    ELSE IF j < k + m THEN items[(j - k) + 1]
                    ELSE list[(j - m) + 1]
  <2>1. SpliceOf(new, list, k, items)
    BY SplicedIs
  <2> HIDE DEF new
  <2>2. QED
    BY <2>1 DEF SpliceOf
<1>3. /\ \A j \in 1 .. n : P[list[j]] = Mark(list, E, from, j)
      /\ to = Mark(list, E, from, n + 1)
  BY DEF Row
<1>4. /\ \A j \in 1 .. m : P2[items[j]] = Mark(items, E2, P[list[k]], j)
      /\ E[list[k]] = Mark(items, E2, P[list[k]], m + 1)
  BY DEF Row
<1>5. \A j \in 1 .. n :
        j # k => P2[list[j]] = P[list[j]] /\ E2[list[j]] = E[list[j]]
  OBVIOUS
<1> HIDE DEF new, n, m
<1>6. ASSUME NEW j \in 1 .. n + m, j < k \/ j = k
      PROVE  Mark(new, E2, from, j) = Mark(list, E, from, j)
  <2>1. CASE j = 1
    BY <2>1 DEF Mark
  <2>2. CASE j # 1
    <3> DEFINE i == j - 1
    <3>1. i \in 1 .. n - 1 + m /\ i \in 1 .. n /\ i < k /\ i # k
      BY <1>1, <1>6, <2>2
    <3> HIDE DEF i
    <3>2. new[i] = list[i] /\ E2[list[i]] = E[list[i]]
      BY <1>2, <1>5, <3>1
    <3>3. QED
      BY <2>2, <3>2 DEF Mark, i
  <2>3. QED
    BY <2>1, <2>2
<1>7. ASSUME NEW j \in 1 .. n + m, k < j, j < k + m
      PROVE  Mark(new, E2, from, j) = E2[items[j - k]]
  <2> DEFINE i == j - 1
  <2>1. i \in 1 .. n - 1 + m /\ ~ (i < k) /\ i < k + m /\ (i - k) + 1 = j - k
        /\ j # 1
    BY <1>1, <1>7
  <2> HIDE DEF i
  <2>2. new[i] = items[j - k]
    BY <1>2, <2>1
  <2>3. QED
    BY <2>1, <2>2 DEF Mark, i
<1>8. Mark(new, E2, from, k + m) = E[list[k]]
  <2> DEFINE i == (k + m) - 1
  <2>1. i \in 1 .. n - 1 + m /\ ~ (i < k) /\ i < k + m /\ (i - k) + 1 = m
        /\ k + m # 1 /\ m + 1 # 1 /\ (m + 1) - 1 = m
    BY <1>1
  <2> HIDE DEF i
  <2>2. new[i] = items[m]
    BY <1>2, <2>1
  <2>3. E[list[k]] = E2[items[m]]
    BY <1>4, <2>1 DEF Mark
  <2>4. QED
    BY <2>1, <2>2, <2>3 DEF Mark, i
<1>9. ASSUME NEW j \in 1 .. n + m, k + m < j
      PROVE  Mark(new, E2, from, j) = E[list[j - m]]
  <2> DEFINE i == j - 1
             l == j - m
  <2>1. i \in 1 .. n - 1 + m /\ ~ (i < k) /\ ~ (i < k + m) /\ (i - m) + 1 = l
        /\ j # 1 /\ l \in 1 .. n /\ l # k
    BY <1>1, <1>9
  <2> HIDE DEF i, l
  <2>2. new[i] = list[l] /\ E2[list[l]] = E[list[l]]
    BY <1>2, <1>5, <2>1
  <2>3. QED
    BY <2>1, <2>2 DEF Mark, i, l
<1>10. ASSUME NEW j \in 1 .. n - 1 + m
       PROVE  P2[new[j]] = Mark(new, E2, from, j)
  <2>1. CASE j < k
    <3>1. j \in 1 .. n /\ j # k /\ j \in 1 .. n + m
      BY <1>1, <2>1
    <3>2. P2[new[j]] = Mark(list, E, from, j)
      BY <1>2, <1>3, <1>5, <2>1, <3>1
    <3>3. QED
      BY <1>6, <2>1, <3>1, <3>2
  <2>2. CASE j = k
    <3>1. /\ ~ (j < k) /\ j < k + m /\ (j - k) + 1 = 1 /\ 1 \in 1 .. m
          /\ k \in 1 .. n + m /\ k \in 1 .. n
      BY <1>1, <2>2
    <3>2. new[j] = items[1]
      BY <1>2, <3>1
    <3>3. P2[new[j]] = P[list[k]]
      BY <1>4, <3>1, <3>2 DEF Mark
    <3>4. P[list[k]] = Mark(list, E, from, k)
      BY <1>3, <3>1
    <3>5. Mark(new, E2, from, k) = Mark(list, E, from, k)
      BY <1>6, <3>1
    <3>6. QED
      BY <2>2, <3>3, <3>4, <3>5
  <2>3. CASE k < j /\ j < k + m
    <3> DEFINE i == (j - k) + 1
    <3>1. /\ ~ (j < k) /\ i \in 1 .. m /\ i # 1 /\ i - 1 = j - k
          /\ j \in 1 .. n + m
      BY <1>1, <2>3
    <3> HIDE DEF i
    <3>2. new[j] = items[i]
      BY <1>2, <2>3, <3>1 DEF i
    <3>3. P2[new[j]] = E2[items[j - k]]
      BY <1>4, <3>1, <3>2 DEF Mark
    <3>4. QED
      BY <1>7, <2>3, <3>1, <3>3
  <2>4. CASE k + m <= j
    <3> DEFINE i == (j - m) + 1
    <3>1. /\ ~ (j < k) /\ ~ (j < k + m) /\ i \in 1 .. n /\ i # k /\ i # 1
          /\ i - 1 = j - m /\ j \in 1 .. n + m
      BY <1>1, <2>4
    <3> HIDE DEF i
    <3>2. new[j] = list[i]
      BY <1>2, <3>1 DEF i
    <3>3. P2[new[j]] = E[list[j - m]]
      BY <1>3, <1>5, <3>1, <3>2 DEF Mark
    <3>4. CASE k + m < j
      BY <1>9, <3>1, <3>3, <3>4
    <3>5. CASE ~ (k + m < j)
      <4>1. j = k + m /\ j - m = k
        BY <1>1, <2>4, <3>5
      <4>2. P2[new[j]] = E[list[k]]
        BY <3>3, <4>1
      <4>3. Mark(new, E2, from, j) = E[list[k]]
        BY <1>8, <4>1, Zenon
      <4>4. QED
        BY <4>2, <4>3
    <3>6. QED
      BY <3>4, <3>5
  <2>5. QED
    BY <1>1, <2>1, <2>2, <2>3, <2>4
<1>11. to = Mark(new, E2, from, Len(new) + 1)
  <2>1. Len(new) + 1 = n + m /\ n + m \in 1 .. n + m
    BY <1>1, <1>2
  <2>2. to = E[list[n]]
    <3>1. n + 1 # 1 /\ (n + 1) - 1 = n
      BY <1>1
    <3>2. QED
      BY <1>3, <3>1 DEF Mark
  <2>3. CASE k = n
    BY <1>8, <2>1, <2>2, <2>3
  <2>4. CASE k # n
    <3>1. k + m < n + m /\ (n + m) - m = n
      BY <1>1, <2>4
    <3>2. QED
      BY <1>9, <2>1, <2>2, <3>1
  <2>5. QED
    BY <2>3, <2>4
<1>12. QED
  BY <1>2, <1>10, <1>11 DEF Row, new

(* An item of a row goes, and the one before it ends where it did.           *)
LEMMA RowCut ==
  ASSUME NEW S, NEW list \in Seq(S), NEW k \in 1 .. Len(list),
         k + 1 <= Len(list),
         NEW P, NEW E, NEW E2, NEW from, NEW to, Row(list, P, E, from, to),
         E2[list[k]] = E[list[k + 1]],
         \A j \in 1 .. Len(list) :
           j # k /\ j # k + 1 => E2[list[j]] = E[list[j]]
  PROVE  Row(Spliced(list, k + 1, <<>>), P, E2, from, to)
<1> DEFINE none == <<>>
           new == Spliced(list, k + 1, none)
           n == Len(list)
<1>1. n \in Nat /\ k \in Nat /\ 1 <= k /\ k + 1 <= n
  OBVIOUS
<1>2. /\ Len(new) = n - 1
      /\ \A j \in 1 .. n - 1 : new[j] = IF j < k + 1 THEN list[j] ELSE list[j + 1]
  <2>1. none \in Seq(S) /\ Len(none) = 0 /\ k + 1 \in 1 .. Len(list)
    BY <1>1
  <2> HIDE DEF none
  <2>2. SpliceOf(new, list, k + 1, none)
    BY <2>1, SplicedIs
  <2> HIDE DEF new
  <2>3. Len(new) = n - 1
    BY <1>1, <2>1, <2>2 DEF SpliceOf
  <2>4. ASSUME NEW j \in 1 .. n - 1
        PROVE  new[j] = IF j < k + 1 THEN list[j] ELSE list[j + 1]
    <3>1. /\ j \in 1 .. Len(new)
          /\ j < (k + 1) + Len(none) <=> j < k + 1
          /\ (j - Len(none)) + 1 = j + 1
      BY <1>1, <2>1, <2>3
    <3>2. QED
      BY <2>2, <3>1 DEF SpliceOf
  <2>5. QED
    BY <2>3, <2>4
<1>3. /\ \A j \in 1 .. n : P[list[j]] = Mark(list, E, from, j)
      /\ to = Mark(list, E, from, n + 1)
  BY DEF Row
<1>4. /\ E2[list[k]] = E[list[k + 1]]
      /\ \A j \in 1 .. n : j # k /\ j # k + 1 => E2[list[j]] = E[list[j]]
  OBVIOUS
<1> HIDE DEF new, n
<1>5. ASSUME NEW j \in 1 .. n, j < k + 1
      PROVE  Mark(new, E2, from, j) = Mark(list, E, from, j)
  <2>1. CASE j = 1
    BY <2>1 DEF Mark
  <2>2. CASE j # 1
    <3> DEFINE i == j - 1
    <3>1. i \in 1 .. n - 1 /\ i < k + 1 /\ i \in 1 .. n /\ i # k /\ i # k + 1
      BY <1>1, <1>5, <2>2
    <3> HIDE DEF i
    <3>2. new[i] = list[i] /\ E2[list[i]] = E[list[i]]
      BY <1>2, <1>4, <3>1
    <3>3. QED
      BY <2>2, <3>2 DEF Mark, i
  <2>3. QED
    BY <2>1, <2>2
<1>6. ASSUME NEW j \in 1 .. n, ~ (j < k + 1)
      PROVE  Mark(new, E2, from, j) = Mark(list, E, from, j + 1)
  <2> DEFINE i == j - 1
  <2>1. i \in 1 .. n - 1 /\ i \in 1 .. n /\ i + 1 = j /\ j # 1 /\ j + 1 # 1
        /\ (j + 1) - 1 = j /\ k <= i
    BY <1>1, <1>6
  <2> HIDE DEF i
  <2>2. Mark(new, E2, from, j) = E2[new[i]]
    BY <2>1 DEF Mark, i
  <2>3. Mark(list, E, from, j + 1) = E[list[j]]
    BY <2>1 DEF Mark
  <2>4. CASE i < k + 1
    <3>1. i = k
      BY <1>1, <2>1, <2>4
    <3>2. new[i] = list[k]
      BY <1>2, <2>1, <2>4, <3>1
    <3>3. j = k + 1
      BY <2>1, <3>1
    <3>4. QED
      BY <1>4, <2>2, <2>3, <3>2, <3>3
  <2>5. CASE ~ (i < k + 1)
    <3>1. new[i] = list[j]
      BY <1>2, <2>1, <2>5
    <3>2. j # k /\ j # k + 1
      BY <1>1, <2>1, <2>5
    <3>3. QED
      BY <1>4, <2>2, <2>3, <3>1, <3>2
  <2>6. QED
    BY <2>4, <2>5
<1>7. ASSUME NEW j \in 1 .. n - 1
      PROVE  P[new[j]] = Mark(new, E2, from, j)
  <2>1. j \in 1 .. n /\ j + 1 \in 1 .. n
    BY <1>1
  <2>2. CASE j < k + 1
    BY <1>2, <1>3, <1>5, <2>1, <2>2
  <2>3. CASE ~ (j < k + 1)
    <3>1. P[list[j + 1]] = Mark(list, E, from, j + 1)
      BY <1>3, <2>1
    <3>2. QED
      BY <1>2, <1>6, <2>1, <2>3, <3>1
  <2>4. QED
    BY <2>2, <2>3
<1>8. to = Mark(new, E2, from, Len(new) + 1)
  <2>1. Len(new) + 1 = n /\ n \in 1 .. n /\ ~ (n < k + 1)
    BY <1>1, <1>2
  <2>2. QED
    BY <1>3, <1>6, <2>1
<1>9. QED
  BY <1>2, <1>7, <1>8 DEF Row, new

(* A row of one item.                                                        *)
LEMMA RowOfOne ==
  ASSUME NEW c, NEW P, NEW E, NEW from, NEW to, P[c] = from, E[c] = to
  PROVE  Row(<<c>>, P, E, from, to)
<1> DEFINE one == <<c>>
<1>1. Len(one) = 1 /\ one[1] = c
  OBVIOUS
<1> HIDE DEF one
<1>2. Mark(one, E, from, 1) = from /\ Mark(one, E, from, 1 + 1) = E[c]
  BY <1>1 DEF Mark
<1>3. \A k \in 1 .. 1 : k = 1
  OBVIOUS
<1>4. Row(one, P, E, from, to)
  BY <1>1, <1>2, <1>3 DEF Row
<1>5. QED
  BY <1>4 DEF one

(* A row is as its items are.                                                *)
LEMMA RowSame ==
  ASSUME NEW list, Len(list) \in Nat, NEW P, NEW E, NEW P2, NEW E2,
         NEW from, NEW to, Row(list, P, E, from, to),
         \A j \in 1 .. Len(list) :
           P2[list[j]] = P[list[j]] /\ E2[list[j]] = E[list[j]]
  PROVE  Row(list, P2, E2, from, to)
<1> DEFINE n == Len(list)
<1>1. /\ \A j \in 1 .. n : P[list[j]] = Mark(list, E, from, j)
      /\ to = Mark(list, E, from, n + 1) /\ n \in Nat
  BY DEF Row
<1> HIDE DEF n
<1>2. ASSUME NEW j \in 1 .. n + 1
      PROVE  Mark(list, E2, from, j) = Mark(list, E, from, j)
  <2>1. CASE j = 1
    BY <2>1 DEF Mark
  <2>2. CASE j # 1
    <3> DEFINE i == j - 1
    <3>1. i \in 1 .. n
      BY <1>1, <2>2
    <3> HIDE DEF i
    <3>2. E2[list[i]] = E[list[i]]
      BY <3>1 DEF n
    <3>3. QED
      BY <2>2, <3>2 DEF Mark, i
  <2>3. QED
    BY <2>1, <2>2
<1>3. n + 1 \in 1 .. n + 1 /\ \A j \in 1 .. n : j \in 1 .. n + 1
  BY <1>1
<1>4. \A j \in 1 .. n : P2[list[j]] = P[list[j]]
  BY DEF n
<1>5. QED
  BY <1>1, <1>2, <1>3, <1>4 DEF Row, n

-----------------------------------------------------------------------------
(* A split of what is laid out *)

(* The pieces of r in a list are a row that takes its place; g is `end` with *)
(* where they end.                                                           *)
Ending(s, r, seq, end, g) ==
  /\ g \in [Lists -> Nat]
  /\ \A m \in 1 .. Len(seq) : g[seq[m][1]] = s.position[r] + seq[m][2]
  /\ \A j \in Lists :
       (\A m \in 1 .. Len(seq) : seq[m][1] # j) => g[j] = end[j]

(* Such a function exists.                                                   *)
LEMMA EndingExists ==
  ASSUME NEW s, NEW u, NEW p, NEW k, NEW r, NEW seq, NEW new, NEW kind,
         CutFrom(s, u, p, k, r, seq, new, kind), Regular(s),
         NEW end, end \in [Lists -> Nat]
  PROVE  \E g : Ending(s, r, seq, end, g)
<1> DEFINE P == s.position[r]
           At(j) == CHOOSE m \in 1 .. Len(seq) : seq[m][1] = j
           Is(j) == \E m \in 1 .. Len(seq) : seq[m][1] = j
           g == [j \in Lists |-> IF Is(j) THEN P + seq[At(j)][2] ELSE end[j]]
<1>1. P \in Nat
  BY CutPlaces
<1>2. \A m \in 1 .. Len(seq) : seq[m][1] \in Items /\ seq[m][2] \in Nat
  BY CutPlaces
<1>3. \A m, l \in 1 .. Len(seq) : seq[m][1] = seq[l][1] => m = l
  BY DEF CutFrom, Cutting, Pieces
<1>4. ASSUME NEW m \in 1 .. Len(seq) PROVE At(seq[m][1]) = m
  <2> HIDE DEF P
  <2>1. QED
    BY <1>3, Zenon
<1> HIDE DEF P, At
<1>5. ASSUME NEW m \in 1 .. Len(seq) PROVE g[seq[m][1]] = P + seq[m][2]
  <2>1. Is(seq[m][1]) /\ seq[m][1] \in Lists
    BY <1>2 DEF Lists
  <2>2. QED
    BY <1>4, <2>1
<1>6. ASSUME NEW j \in Lists PROVE g[j] \in Nat
  <2>1. CASE Is(j)
    <3>1. PICK m \in 1 .. Len(seq) : seq[m][1] = j
      BY <2>1
    <3>2. g[j] = P + seq[m][2]
      BY <1>5, <3>1
    <3>3. QED
      BY <1>1, <1>2, <3>2
  <2>2. CASE ~ Is(j)
    BY <2>2
  <2>3. QED
    BY <2>1, <2>2
<1>7. g \in [Lists -> Nat]
  BY <1>6
<1>8. \A j \in Lists : ~ Is(j) => g[j] = end[j]
  OBVIOUS
<1> HIDE DEF g
<1>9. Ending(s, r, seq, end, g)
  BY <1>5, <1>7, <1>8 DEF Ending, P
<1>10. QED
  BY <1>9

(* Where the pieces are in their list.                                       *)
LEMMA PieceRow ==
  ASSUME NEW s, NEW u, NEW p, NEW k, NEW r, NEW seq, NEW new, NEW kind,
         CutFrom(s, u, p, k, r, seq, new, kind), Regular(s),
         NEW end, NEW g, Ending(s, r, seq, end, g)
  PROVE  /\ PieceItems(seq) \in Seq(Items) /\ Len(PieceItems(seq)) = Len(seq)
         /\ \A m \in 1 .. Len(seq) : PieceItems(seq)[m] = seq[m][1]
         /\ Len(seq) \in Nat /\ Len(seq) > 0
         /\ Row(PieceItems(seq), u.position, g, s.position[r],
                s.position[r] + Len(s.own[r]))
<1> DEFINE P == s.position[r]
           n == Len(seq)
           items == PieceItems(seq)
<1>1. /\ DOMAIN seq = 1 .. n /\ n \in Nat /\ n > 0
      /\ \A m \in 1 .. n : seq[m][1] \in Items /\ seq[m][2] \in Nat
  BY CutLists
<1>2. /\ items \in Seq(Items) /\ Len(items) = n
      /\ \A m \in 1 .. n : items[m] = seq[m][1]
  BY <1>1 DEF PieceItems
<1>3. /\ P \in Nat
      /\ \A m \in 1 .. n : u.position[seq[m][1]] = P + StartOf(seq, m)
  BY CutPlaces
<1>4. \A m \in 1 .. n : g[seq[m][1]] = P + seq[m][2]
  BY DEF Ending
<1>5. seq[n][2] = Len(s.own[r])
  BY DEF CutFrom, Cutting, Pieces
<1> HIDE DEF P, n, items
<1>6. ASSUME NEW m \in 1 .. n PROVE u.position[items[m]] = Mark(items, g, P, m)
  <2>1. CASE m = 1
    BY <1>2, <1>3, <2>1 DEF Mark, StartOf
  <2>2. CASE m # 1
    <3> DEFINE i == m - 1
    <3>1. i \in 1 .. n
      BY <1>1, <2>2
    <3>2. u.position[items[m]] = P + seq[i][2]
      BY <1>2, <1>3, <2>2 DEF StartOf
    <3> HIDE DEF i
    <3>3. g[items[i]] = P + seq[i][2]
      BY <1>2, <1>4, <3>1
    <3>4. QED
      BY <2>2, <3>2, <3>3 DEF Mark, i
  <2>3. QED
    BY <2>1, <2>2
<1>7. P + Len(s.own[r]) = Mark(items, g, P, n + 1)
  <2>1. n + 1 # 1 /\ (n + 1) - 1 = n /\ n \in 1 .. n
    BY <1>1
  <2>2. QED
    BY <1>2, <1>4, <1>5, <2>1 DEF Mark
<1>8. Row(items, u.position, g, P, P + Len(s.own[r]))
  BY <1>2, <1>6, <1>7 DEF Row
<1>9. QED
  BY <1>1, <1>2, <1>8 DEF items, n, P

(* What a cut leaves alone, and whose lists change.                          *)
LEMMA CutOthers ==
  ASSUME NEW s, NEW u, NEW p, NEW k, NEW r, NEW seq, NEW new, NEW kind,
         CutFrom(s, u, p, k, r, seq, new, kind), Regular(s)
  PROVE  /\ p \in Live(s) /\ \A m \in 1 .. Len(seq) : seq[m][1] # p
         /\ Inner(u, p) = Inner(s, p)
         /\ u.kids[p] = Spliced(s.kids[p], k, PieceItems(seq))
         /\ \A q \in Lists : \A j \in 1 .. Len(s.kids[q]) :
              ~ (q = p /\ j = k) =>
                /\ \A m \in 1 .. Len(seq) : seq[m][1] # s.kids[q][j]
                /\ u.position[s.kids[q][j]] = s.position[s.kids[q][j]]
         /\ \A q \in Live(u) : q # p =>
              /\ u.kids[q] = s.kids[q]
              /\ \/ \E m \in 1 .. Len(seq) : seq[m][1] = q /\ u.kids[q] = <<>>
                 \/ /\ q \in Live(s) /\ Inner(u, q) = Inner(s, q)
                    /\ \A m \in 1 .. Len(seq) : seq[m][1] # q
<1>1. /\ Shaped(s) /\ Owned(s, {}) /\ Once(s.kids)
      /\ s.kids \in [Lists -> Seq(Items)]
      /\ p \in Lists /\ k \in 1 .. Len(s.kids[p]) /\ r = s.kids[p][k]
      /\ r \in Items /\ s.kind[r] = "raw" /\ s.kids[r] = <<>>
      /\ Cutting(s, u, p, k, r, seq, new, kind)
  BY DEF CutFrom, Whole, Owned, Shaped, Childless
<1>2. \A m \in 1 .. Len(seq) :
        /\ seq[m][1] \in Items
        /\ seq[m][1] = r \/ s.kind[seq[m][1]] = "free"
        /\ s.kids[seq[m][1]] = <<>>
  <2>1. \A m \in 1 .. Len(seq) :
          seq[m][1] \in Items /\ (seq[m][1] = r \/ s.kind[seq[m][1]] = "free")
    BY <1>1, CutPlaces DEF Cutting
  <2>2. \A j \in Items : s.kind[j] = "free" => s.kids[j] = <<>>
    BY <1>1 DEF Owned, Childless
  <2>3. QED
    BY <1>1, <2>1, <2>2
<1>3. \A j \in Items :
        \/ \E m \in 1 .. Len(seq) : seq[m][1] = j
        \/ j = r /\ u.kind[j] = "free"
        \/ /\ j # r /\ u.kind[j] = s.kind[j]
           /\ u.own[j] = s.own[j] /\ u.position[j] = s.position[j]
  BY CutPlaces
<1>4. \A j \in Lists : u.kids[j] =
        IF j = p THEN Spliced(s.kids[p], k, PieceItems(seq)) ELSE s.kids[j]
  BY <1>1 DEF Cutting
<1>5. p # r /\ (p # Root => p \in Items /\ s.kind[p] # "free")
  <2>1. Len(s.kids[p]) # 0
    BY <1>1
  <2>2. s.kids[p] # <<>>
    BY <2>1
  <2>3. QED
    BY <1>1, <2>2 DEF Owned, Childless, Lists
<1>6. p \in Live(s) /\ \A m \in 1 .. Len(seq) : seq[m][1] # p
  <2>1. Root \notin Items
    BY DEF Root, Items
  <2>2. QED
    BY <1>2, <1>5, <2>1 DEF Live
<1>7. Inner(u, p) = Inner(s, p)
  <2>1. CASE p = Root
    BY <2>1 DEF Inner
  <2>2. CASE p # Root
    BY <1>3, <1>5, <1>6, <2>2 DEF Inner
  <2>3. QED
    BY <2>1, <2>2
<1>8. ASSUME NEW q \in Lists, NEW j \in 1 .. Len(s.kids[q]), ~ (q = p /\ j = k)
      PROVE  /\ \A m \in 1 .. Len(seq) : seq[m][1] # s.kids[q][j]
             /\ u.position[s.kids[q][j]] = s.position[s.kids[q][j]]
  <2> DEFINE y == s.kids[q][j]
  <2>1. y \in Items /\ y # r
    BY <1>1, <1>8 DEF Once
  <2>2. Listed(s.kids, y)
    BY DEF Listed
  <2>3. s.kind[y] # "free"
    BY <1>1, <2>1, <2>2 DEF Owned
  <2> HIDE DEF y
  <2>4. \A m \in 1 .. Len(seq) : seq[m][1] # y
    BY <1>2, <2>1, <2>3
  <2>5. QED
    BY <1>3, <2>1, <2>4 DEF y
<1>9. ASSUME NEW q \in Live(u), q # p
      PROVE  /\ u.kids[q] = s.kids[q]
             /\ \/ \E m \in 1 .. Len(seq) : seq[m][1] = q /\ u.kids[q] = <<>>
                \/ /\ q \in Live(s) /\ Inner(u, q) = Inner(s, q)
                   /\ \A m \in 1 .. Len(seq) : seq[m][1] # q
  <2>1. q \in Lists
    BY DEF Live, Lists
  <2>2. u.kids[q] = s.kids[q]
    BY <1>4, <1>9, <2>1
  <2>3. CASE \E m \in 1 .. Len(seq) : seq[m][1] = q
    BY <1>2, <2>2, <2>3
  <2>4. CASE \A m \in 1 .. Len(seq) : seq[m][1] # q
    <3>1. CASE q = Root
      BY <2>2, <2>4, <3>1 DEF Live, Inner
    <3>2. CASE q # Root
      <4>1. q \in Items /\ u.kind[q] # "free"
        BY <3>2 DEF Live
      <4>2. /\ u.kind[q] = s.kind[q] /\ u.own[q] = s.own[q]
            /\ u.position[q] = s.position[q]
        BY <1>3, <2>4, <4>1
      <4>3. q \in Live(s) /\ Inner(u, q) = Inner(s, q)
        BY <3>2, <4>1, <4>2 DEF Live, Inner
      <4>4. QED
        BY <2>2, <2>4, <4>3
    <3>3. QED
      BY <3>1, <3>2
  <2>5. QED
    BY <2>3, <2>4
<1>10. u.kids[p] = Spliced(s.kids[p], k, PieceItems(seq))
  BY <1>1, <1>4
<1>11. QED
  BY <1>6, <1>7, <1>8, <1>9, <1>10

(* A raw item is split: its pieces are laid out in its place.                *)
LEMMA CutLaid ==
  ASSUME NEW s, NEW u, NEW p, NEW k, NEW r, NEW seq, NEW new, NEW kind,
         CutFrom(s, u, p, k, r, seq, new, kind), Regular(s),
         NEW end, LaidOut(s, end), NEW g, Ending(s, r, seq, end, g)
  PROVE  LaidOut(u, g)
<1> DEFINE P == s.position[r]
           items == PieceItems(seq)
<1>1. /\ s.kids \in [Lists -> Seq(Items)] /\ p \in Lists
      /\ k \in 1 .. Len(s.kids[p]) /\ r = s.kids[p][k]
      /\ r \in Items /\ r \in Lists /\ s.kids[r] = <<>> /\ r \in Live(s)
  BY DEF CutFrom, Whole, Owned, Shaped, Childless, Live, Lists
<1>2. /\ p \in Live(s) /\ \A m \in 1 .. Len(seq) : seq[m][1] # p
      /\ Inner(u, p) = Inner(s, p)
      /\ u.kids[p] = Spliced(s.kids[p], k, items)
  BY CutOthers
<1>3. \A q \in Lists : \A j \in 1 .. Len(s.kids[q]) :
        ~ (q = p /\ j = k) =>
          /\ \A m \in 1 .. Len(seq) : seq[m][1] # s.kids[q][j]
          /\ u.position[s.kids[q][j]] = s.position[s.kids[q][j]]
  BY CutOthers
<1>4. \A q \in Live(u) : q # p =>
        /\ u.kids[q] = s.kids[q]
        /\ \/ \E m \in 1 .. Len(seq) : seq[m][1] = q /\ u.kids[q] = <<>>
           \/ /\ q \in Live(s) /\ Inner(u, q) = Inner(s, q)
              /\ \A m \in 1 .. Len(seq) : seq[m][1] # q
  BY CutOthers
<1>5. /\ items \in Seq(Items) /\ Len(items) > 0
      /\ Row(items, u.position, g, P, P + Len(s.own[r]))
  BY PieceRow
<1>6. /\ g \in [Lists -> Nat]
      /\ \A m \in 1 .. Len(seq) : g[seq[m][1]] = P + seq[m][2]
      /\ \A j \in Lists :
           (\A m \in 1 .. Len(seq) : seq[m][1] # j) => g[j] = end[j]
  BY DEF Ending
<1>7. \A q \in Live(s) : Row(s.kids[q], s.position, end, Inner(s, q), end[q])
  BY DEF LaidOut
<1>8. end[r] = P + Len(s.own[r])
  <2>1. Row(<<>>, s.position, end, Inner(s, r), end[r])
    BY <1>1, <1>7
  <2>2. Len(<<>>) + 1 = 1 /\ r # Root
    BY <1>1 DEF Root, Items
  <2>3. QED
    BY <2>1, <2>2 DEF Row, Mark, Inner
<1> HIDE DEF items
<1>9. \A q \in Lists : \A j \in 1 .. Len(s.kids[q]) :
        ~ (q = p /\ j = k) => g[s.kids[q][j]] = end[s.kids[q][j]]
  <2> SUFFICES ASSUME NEW q \in Lists, NEW j \in 1 .. Len(s.kids[q]),
                      ~ (q = p /\ j = k)
               PROVE  g[s.kids[q][j]] = end[s.kids[q][j]]
    OBVIOUS
  <2>1. s.kids[q][j] \in Lists
    BY <1>1 DEF Lists
  <2>2. QED
    BY <1>3, <1>6, <2>1
<1>10. Row(u.kids[p], u.position, g, Inner(u, p), g[p])
  <2> DEFINE list == s.kids[p]
  <2>1. list \in Seq(Items) /\ k \in 1 .. Len(list) /\ list[k] = r
    BY <1>1
  <2>2. Row(list, s.position, end, Inner(s, p), end[p])
    BY <1>2, <1>7
  <2>3. Row(items, u.position, g, s.position[list[k]], end[list[k]])
    BY <1>5, <1>8, <2>1
  <2>4. \A j \in 1 .. Len(list) : j # k =>
          u.position[list[j]] = s.position[list[j]] /\ g[list[j]] = end[list[j]]
    BY <1>1, <1>3, <1>9
  <2>5. g[p] = end[p]
    BY <1>1, <1>2, <1>6
  <2> HIDE DEF list
  <2>6. Row(Spliced(list, k, items), u.position, g, Inner(s, p), end[p])
    BY <1>5, <2>1, <2>2, <2>3, <2>4, RowSpliced
  <2>7. QED
    BY <1>2, <2>5, <2>6 DEF list
<1>11. ASSUME NEW q \in Live(u), q # p
       PROVE  Row(u.kids[q], u.position, g, Inner(u, q), g[q])
  <2>0. q \in Lists
    BY DEF Live, Lists
  <2>1. CASE \E m \in 1 .. Len(seq) : seq[m][1] = q /\ u.kids[q] = <<>>
    <3>1. PICK m \in 1 .. Len(seq) : seq[m][1] = q /\ u.kids[q] = <<>>
      BY <2>1
    <3>2. g[q] = P + seq[m][2]
      BY <1>6, <3>1
    <3>3. /\ u.position[q] = P + StartOf(seq, m) /\ P \in Nat
          /\ StartOf(seq, m) \in Nat /\ seq[m][2] \in Nat /\ q \in Items
      BY <3>1, CutPlaces
    <3>4. Len(u.own[q]) = seq[m][2] - StartOf(seq, m)
      BY <3>1 DEF CutFrom, Cutting
    <3>5. q # Root
      BY <3>3 DEF Root, Items
    <3>6. Inner(u, q) = g[q]
      BY <3>2, <3>3, <3>4, <3>5 DEF Inner
    <3>7. Len(<<>>) = 0 /\ 0 + 1 = 1 /\ \A j \in 1 .. 0 : FALSE
      OBVIOUS
    <3>8. QED
      BY <3>1, <3>6, <3>7 DEF Row, Mark
  <2>2. CASE /\ q \in Live(s) /\ Inner(u, q) = Inner(s, q)
             /\ \A m \in 1 .. Len(seq) : seq[m][1] # q
    <3> DEFINE list == s.kids[q]
    <3>1. Len(list) \in Nat
      BY <1>1, <2>0
    <3>2. Row(list, s.position, end, Inner(s, q), end[q])
      BY <1>7, <2>2
    <3>3. \A j \in 1 .. Len(list) :
            u.position[list[j]] = s.position[list[j]] /\ g[list[j]] = end[list[j]]
      BY <1>3, <1>9, <1>11, <2>0
    <3>4. g[q] = end[q]
      BY <1>6, <2>0, <2>2
    <3>5. u.kids[q] = list
      BY <1>4, <1>11
    <3> HIDE DEF list
    <3>6. Row(list, u.position, g, Inner(s, q), end[q])
      BY <3>1, <3>2, <3>3, RowSame
    <3>7. QED
      BY <2>2, <3>4, <3>5, <3>6
  <2>3. QED
    BY <1>4, <1>11, <2>1, <2>2
<1>12. g[Root] = Size
  <2>1. Root \in Lists /\ end[Root] = Size
    BY DEF Lists, LaidOut
  <2>2. \A m \in 1 .. Len(seq) : seq[m][1] # Root
    <3>1. \A m \in 1 .. Len(seq) : seq[m][1] \in Items
      BY CutPlaces
    <3>2. QED
      BY <3>1 DEF Root, Items
  <2>3. QED
    BY <1>6, <2>1, <2>2
<1>13. QED
  BY <1>6, <1>10, <1>11, <1>12 DEF LaidOut

(* No item is under itself: the pieces are where r was.                      *)
LEMMA CutLayered ==
  ASSUME NEW s, NEW u, NEW p, NEW k, NEW r, NEW seq, NEW new, NEW kind,
         CutFrom(s, u, p, k, r, seq, new, kind), Regular(s),
         NEW depth, Layered(s, depth)
  PROVE  \E d : Layered(u, d)
<1> DEFINE Is(j) == \E m \in 1 .. Len(seq) : seq[m][1] = j
           d == [j \in Lists |-> IF Is(j) THEN depth[r] ELSE depth[j]]
           items == PieceItems(seq)
<1>1. /\ s.kids \in [Lists -> Seq(Items)] /\ p \in Lists
      /\ k \in 1 .. Len(s.kids[p]) /\ r = s.kids[p][k] /\ r \in Lists
  BY DEF CutFrom, Whole, Shaped, Lists
<1>2. /\ ~ Is(p) /\ u.kids[p] = Spliced(s.kids[p], k, items)
      /\ \A q \in Lists : \A j \in 1 .. Len(s.kids[q]) :
           ~ (q = p /\ j = k) => ~ Is(s.kids[q][j])
  BY CutOthers
<1>3. /\ items \in Seq(Items) /\ Len(items) = Len(seq) /\ Len(seq) \in Nat
      /\ \A m \in 1 .. Len(seq) : items[m] = seq[m][1]
  <2>1. /\ DOMAIN seq = 1 .. Len(seq) /\ Len(seq) \in Nat
        /\ \A m \in 1 .. Len(seq) : seq[m][1] \in Items
    BY CutLists
  <2>2. QED
    BY <2>1 DEF PieceItems
<1>4. /\ depth \in [Lists -> Nat]
      /\ \A q \in Lists : \A j \in 1 .. Len(s.kids[q]) :
           depth[q] < depth[s.kids[q][j]]
  BY DEF Layered
<1>5. \A q \in Lists : q # p => u.kids[q] = s.kids[q]
  BY DEF CutFrom, Cutting
<1>6. \A q \in Lists : Is(q) => u.kids[q] = <<>>
  <2> SUFFICES ASSUME NEW q \in Lists, NEW m \in 1 .. Len(seq), seq[m][1] = q
               PROVE  u.kids[q] = <<>>
    OBVIOUS
  <2>1. seq[m][1] = r \/ s.kind[seq[m][1]] = "free"
    BY DEF CutFrom, Cutting
  <2>2. q \in Items
    BY CutLists
  <2>3. s.kids[q] = <<>>
    BY <2>1, <2>2 DEF CutFrom, Whole, Owned, Childless
  <2>4. QED
    BY <1>2, <1>5, <2>3
<1> HIDE DEF Is, items
<1>7. d \in [Lists -> Nat] /\ \A j \in Lists : d[j] = IF Is(j) THEN depth[r] ELSE depth[j]
  BY <1>1, <1>4
<1> HIDE DEF d
<1>8. ASSUME NEW q \in Lists, NEW j \in 1 .. Len(u.kids[q])
      PROVE  d[q] < d[u.kids[q][j]]
  <2>1. CASE Is(q)
    <3>1. j \in 1 .. 0
      BY <1>6, <2>1
    <3>2. QED
      BY <3>1
  <2>2. CASE ~ Is(q) /\ q # p
    <3>1. u.kids[q] = s.kids[q] /\ s.kids[q][j] \in Lists
      BY <1>1, <1>5, <2>2 DEF Lists
    <3>2. ~ Is(s.kids[q][j])
      BY <1>2, <2>2, <3>1
    <3>3. QED
      BY <1>4, <1>7, <2>2, <3>1, <3>2
  <2>3. CASE q = p
    <3> DEFINE list == s.kids[p]
               rest == u.kids[p]
    <3>1. list \in Seq(Items) /\ k \in 1 .. Len(list) /\ rest = Spliced(list, k, items)
      BY <1>1, <1>2
    <3>2. d[p] = depth[p]
      BY <1>1, <1>2, <1>7
    <3>3. \A i \in 1 .. Len(list) : i # k => depth[p] < d[list[i]]
      <4> SUFFICES ASSUME NEW i \in 1 .. Len(list), i # k
                   PROVE  depth[p] < d[list[i]]
        OBVIOUS
      <4>1. list[i] \in Lists /\ ~ Is(list[i])
        BY <1>1, <1>2 DEF Lists
      <4>2. QED
        BY <1>1, <1>4, <1>7, <4>1
    <3>4. \A m \in 1 .. Len(items) : depth[p] < d[items[m]]
      <4> SUFFICES ASSUME NEW m \in 1 .. Len(items) PROVE depth[p] < d[items[m]]
        OBVIOUS
      <4>1. items[m] \in Lists /\ Is(items[m])
        BY <1>3 DEF Lists, Is
      <4>2. QED
        BY <1>1, <1>4, <1>7, <4>1
    <3> HIDE DEF list
    <3>5. SpliceOf(rest, list, k, items)
      BY <1>3, <3>1, SplicedIs
    <3>6. j \in 1 .. Len(rest) /\ rest = u.kids[q]
      BY <2>3
    <3> HIDE DEF rest
    <3>7. /\ Len(rest) = Len(list) - 1 + Len(items)
          /\ rest[j] = IF j < k THEN list[j]
                       ELSE IF j < k + Len(items) THEN items[(j - k) + 1]
                       ELSE list[(j - Len(items)) + 1]
      BY <3>5, <3>6 DEF SpliceOf
    <3> DEFINE n == Len(list)
               l == Len(items)
    <3>8. n \in Nat /\ l \in Nat /\ k \in 1 .. n /\ j \in 1 .. n - 1 + l
      BY <1>3, <3>1, <3>6, <3>7
    <3> HIDE DEF n, l
    <3>9. CASE j < k
      <4>1. j \in 1 .. n /\ j # k
        BY <3>8, <3>9
      <4>2. QED
        BY <2>3, <3>2, <3>3, <3>6, <3>7, <3>9, <4>1 DEF n
    <3>10. CASE ~ (j < k) /\ j < k + l
      <4>1. (j - k) + 1 \in 1 .. l
        BY <3>8, <3>10
      <4>2. QED
        BY <2>3, <3>2, <3>4, <3>6, <3>7, <3>10, <4>1 DEF l
    <3>11. CASE ~ (j < k) /\ ~ (j < k + l)
      <4>1. (j - l) + 1 \in 1 .. n /\ (j - l) + 1 # k
        BY <3>8, <3>11
      <4>2. QED
        BY <2>3, <3>2, <3>3, <3>6, <3>7, <3>11, <4>1 DEF l, n
    <3>12. QED
      BY <3>9, <3>10, <3>11
  <2>4. QED
    BY <2>1, <2>2, <2>3
<1>9. QED
  BY <1>7, <1>8 DEF Layered

(* The pieces have bytes, but for the one that is made a node of none.       *)
LEMMA CutBulky ==
  ASSUME NEW s, NEW u, NEW p, NEW k, NEW r, NEW seq, NEW new, NEW kind,
         CutFrom(s, u, p, k, r, seq, new, kind), Regular(s),
         NEW end, NEW g, Ending(s, r, seq, end, g),
         NEW thin, Bulky(s, end, thin), NEW thin2, thin = Root \/ thin = thin2,
         \A m \in 1 .. Len(seq) :
           seq[m][1] # thin2 => StartOf(seq, m) < seq[m][2]
  PROVE  Bulky(u, g, thin2)
<1> SUFFICES ASSUME NEW i \in Items, u.kind[i] # "free", i # thin2
             PROVE  u.position[i] < g[i] \/ u.position[i] = Size
  BY DEF Bulky
<1>1. CASE \E m \in 1 .. Len(seq) : seq[m][1] = i
  <2>1. PICK m \in 1 .. Len(seq) : seq[m][1] = i
    BY <1>1
  <2>2. /\ s.position[r] \in Nat /\ seq[m][2] \in Nat /\ StartOf(seq, m) \in Nat
        /\ u.position[i] = s.position[r] + StartOf(seq, m)
    BY <2>1, CutPlaces
  <2>3. g[i] = s.position[r] + seq[m][2]
    BY <2>1 DEF Ending
  <2>4. StartOf(seq, m) < seq[m][2]
    BY <2>1
  <2>5. QED
    BY <2>2, <2>3, <2>4
<1>2. CASE ~ \E m \in 1 .. Len(seq) : seq[m][1] = i
  <2>1. i # r /\ u.kind[i] = s.kind[i] /\ u.position[i] = s.position[i]
    BY <1>2, CutPlaces
  <2>2. g[i] = end[i]
    BY <1>2 DEF Ending, Lists
  <2>3. i # thin
    BY DEF Root, Items
  <2>4. QED
    BY <2>1, <2>2, <2>3 DEF Bulky
<1>3. QED
  BY <1>1, <1>2

(* A label goes to a piece that has a byte there, or starts there.           *)
LEMMA CutHeld ==
  ASSUME NEW s, NEW u, NEW p, NEW k, NEW r, NEW seq, NEW new, NEW kind,
         CutFrom(s, u, p, k, r, seq, new, kind), Regular(s),
         NEW end, NEW g, Ending(s, r, seq, end, g), Held(s, end)
  PROVE  Held(u, g)
<1> SUFFICES ASSUME NEW n \in Names, u.label[n] # Unset, u.label[n].offset # 0
             PROVE  ToFilePos(u, u.label[n]) < g[u.label[n].item]
  BY DEF Held
<1> DEFINE P == s.position[r]
<1>1. /\ Shaped(s) /\ Owned(s, {}) /\ r \in Items /\ s.kind[r] = "raw"
      /\ Cutting(s, u, p, k, r, seq, new, kind)
      /\ Relabelling(s, u, r, seq)
  BY DEF CutFrom, Whole, Cutting
<1>2. /\ P \in Nat
      /\ \A m \in 1 .. Len(seq) :
           /\ seq[m][1] \in Items
           /\ seq[m][2] \in Nat /\ StartOf(seq, m) \in Nat
           /\ u.position[seq[m][1]] = P + StartOf(seq, m)
           /\ seq[m][1] = r \/ s.kind[seq[m][1]] = "free"
      /\ \A j \in Items :
           \/ \E m \in 1 .. Len(seq) : seq[m][1] = j
           \/ j = r
           \/ u.position[j] = s.position[j]
  <2>1. \A m \in 1 .. Len(seq) : seq[m][1] = r \/ s.kind[seq[m][1]] = "free"
    BY <1>1 DEF Cutting
  <2>2. QED
    BY <2>1, CutPlaces
<1>3. CASE n \in LabelsOf(s, r)
  <2> DEFINE o == s.label[n].offset
  <2>1. s.label[n] # Unset /\ o \in Nat
    BY <1>1, <1>3 DEF LabelsOf, Shaped, Pointers
  <2>2. PICK m \in 1 .. Len(seq) :
          /\ u.label[n] = [item |-> seq[m][1], offset |-> o - StartOf(seq, m)]
          /\ StartOf(seq, m) <= o /\ Holds(seq, m, o)
    BY <1>1, <1>3 DEF Relabelling, Shifting
  <2> DEFINE a == StartOf(seq, m)
             b == seq[m][2]
             i == seq[m][1]
  <2>3. a \in Nat /\ b \in Nat /\ u.position[i] = P + a
    BY <1>2
  <2>4. u.label[n] = [item |-> i, offset |-> o - a]
    BY <2>2
  <2>5. g[i] = P + b
    BY DEF Ending
  <2>6. o < b \/ (o = b /\ o = a)
    BY <2>2 DEF Holds
  <2> HIDE DEF P, a, b, o, i
  <2>7. o - a # 0
    BY <2>4
  <2>8. (P + a) + (o - a) < P + b
    BY <1>2, <2>1, <2>3, <2>6, <2>7
  <2>9. ToFilePos(u, u.label[n]) = u.position[i] + (o - a) /\ u.label[n].item = i
    BY <2>4 DEF ToFilePos
  <2>10. QED
    BY <2>3, <2>5, <2>8, <2>9
<1>4. CASE n \notin LabelsOf(s, r)
  <2>1. u.label[n] = s.label[n]
    BY <1>1, <1>4 DEF Relabelling
  <2> DEFINE i == s.label[n].item
  <2>2. i \in Items /\ i # r /\ s.kind[i] # "free"
    BY <1>1, <1>4, <2>1 DEF LabelsOf, Owned, Shaped, Pointers
  <2>3. \A m \in 1 .. Len(seq) : seq[m][1] # i
    BY <1>2, <2>2
  <2>4. u.position[i] = s.position[i] /\ g[i] = end[i]
    BY <1>2, <2>2, <2>3 DEF Ending, Lists
  <2>5. ToFilePos(s, s.label[n]) < end[i]
    BY <2>1 DEF Held
  <2>6. QED
    BY <2>1, <2>4, <2>5 DEF ToFilePos
<1>5. QED
  BY <1>3, <1>4

(* Where the j-th element of a spliced list is from.                         *)
LEMMA SplicedFrom ==
  ASSUME NEW S, NEW list \in Seq(S), NEW items \in Seq(S),
         NEW k \in 1 .. Len(list), NEW new, new = Spliced(list, k, items),
         NEW j \in 1 .. Len(new)
  PROVE  \/ j \in 1 .. Len(list) /\ j # k /\ new[j] = list[j]
         \/ \E m \in 1 .. Len(items) :
              new[j] = items[m] /\ (j # 1 => m # 1 \/ k # 1)
         \/ \E i \in 1 .. Len(list) : i # k /\ i # 1 /\ new[j] = list[i]
<1>1. SpliceOf(new, list, k, items)
  BY SplicedIs
<1> DEFINE n == Len(list)
           l == Len(items)
<1>2. /\ Len(new) = n - 1 + l
      /\ new[j] = IF j < k THEN list[j]
                  ELSE IF j < k + l THEN items[(j - k) + 1]
                  ELSE list[(j - l) + 1]
  BY <1>1 DEF SpliceOf
<1>3. n \in Nat /\ l \in Nat /\ k \in 1 .. n /\ j \in 1 .. n - 1 + l
  BY <1>2
<1> HIDE DEF n, l
<1>4. CASE j < k
  <2>1. j \in 1 .. n /\ j # k
    BY <1>3, <1>4
  <2>2. QED
    BY <1>2, <1>4, <2>1 DEF n
<1>5. CASE ~ (j < k) /\ j < k + l
  <2> DEFINE m == (j - k) + 1
  <2>1. m \in 1 .. l /\ (j # 1 => m # 1 \/ k # 1)
    BY <1>3, <1>5
  <2>2. new[j] = items[m]
    BY <1>2, <1>5
  <2> HIDE DEF m
  <2>3. QED
    BY <2>1, <2>2 DEF l
<1>6. CASE ~ (j < k) /\ ~ (j < k + l)
  <2> DEFINE i == (j - l) + 1
  <2>1. i \in 1 .. n /\ i # k /\ i # 1
    BY <1>3, <1>6
  <2>2. new[j] = list[i]
    BY <1>2, <1>6
  <2> HIDE DEF i
  <2>3. QED
    BY <2>1, <2>2 DEF n
<1>7. QED
  BY <1>4, <1>5, <1>6

(* What is found by its position still is, and a piece behind the first one  *)
(* has the key of its position, unless a piece before it has.                *)
LEMMA CutFound ==
  ASSUME NEW s, NEW u, NEW p, NEW k, NEW r, NEW seq, NEW new, NEW kind,
         CutFrom(s, u, p, k, r, seq, new, kind), Regular(s)
  PROVE  /\ \A y \in Items :
              (\A m \in 1 .. Len(seq) : seq[m][1] # y) /\ y # r /\ Found(s, y)
                /\ u.position[y] = s.position[y] => Found(u, y)
         /\ \A m \in 1 .. Len(seq) :
              /\ m # 1 /\ StartOf(seq, m) > 0 /\ StartOf(seq, m) < Len(s.own[r])
              /\ \A l \in 1 .. Len(seq) :
                   l < m => StartOf(seq, l) # StartOf(seq, m)
              => Found(u, seq[m][1])
         /\ Found(s, r) => Found(u, seq[1][1])
<1> DEFINE P == s.position[r]
           L == Len(s.own[r])
           a(m) == StartOf(seq, m)
<1>1. /\ Shaped(s) /\ r \in Items /\ r \in RawsOf(s)
      /\ Remapping(s, u, r, seq)
  BY DEF CutFrom, Whole, Shaped, Cutting, RawsOf
<1>2. /\ P \in Nat /\ L \in Nat /\ EndOf(s, r) = P + L
      /\ \A m \in 1 .. Len(seq) : a(m) \in Nat /\ u.position[seq[m][1]] = P + a(m)
  BY CutPlaces
<1>3. Len(seq) \in Nat /\ Len(seq) > 0 /\ a(1) = 0
  BY CutLists DEF StartOf
<1>4. ASSUME NEW y \in Items, y # r, Found(s, y), u.position[y] = s.position[y]
      PROVE  Found(u, y)
  BY <1>1, <1>4 DEF Remapping, Found
<1> HIDE DEF P, L, a
<1>5. ASSUME NEW m \in 1 .. Len(seq), NEW q, q = P + a(m), q \in DOMAIN u.pmap,
             ~ (q \in DOMAIN s.pmap /\ s.pmap[q] # r),
             \A l \in 1 .. Len(seq) : l < m => a(l) # a(m)
      PROVE  Found(u, seq[m][1])
  <2>1. PICK l \in 1 .. Len(seq) :
          First(seq, P, q, l) /\ u.pmap[q] = seq[l][1]
    BY <1>1, <1>5 DEF Remapping, P
  <2>2. P + a(l) = q /\ \A x \in 1 .. Len(seq) : x < l => P + a(x) # q
    BY <2>1 DEF First, a
  <2>3. a(l) = a(m) /\ ~(m < l)
    BY <1>2, <1>5, <2>2
  <2>4. l = m
    BY <1>5, <2>3
  <2>5. u.position[seq[m][1]] = q
    BY <1>2, <1>5
  <2>6. QED
    BY <1>5, <2>1, <2>4, <2>5 DEF Found
<1>6. ASSUME NEW m \in 1 .. Len(seq), m # 1, a(m) > 0, a(m) < L,
             \A l \in 1 .. Len(seq) : l < m => a(l) # a(m)
      PROVE  Found(u, seq[m][1])
  <2> DEFINE q == P + a(m)
  <2>1. q \in Nat /\ ~ (q <= P) /\ ~ (P + L <= q)
    BY <1>2, <1>6
  <2>2. q \in Started(seq, P) /\ Len(seq) > 1
    BY <1>3, <1>6 DEF Started, a
  <2>3. q \in DOMAIN u.pmap
    BY <1>1, <2>2 DEF Remapping, P
  <2> HIDE DEF q
  <2>4. ASSUME q \in DOMAIN s.pmap, s.pmap[q] # r PROVE FALSE
    <3>1. /\ s.pmap[q] \in Items /\ s.position[s.pmap[q]] = q
          /\ s.kind[s.pmap[q]] # "free"
      BY <2>4 DEF CutFrom, Whole, Shaped, Owned
    <3>2. s.pmap[q] \in Items \ {r}
      BY <2>4, <3>1
    <3>3. \/ s.position[s.pmap[q]] <= s.position[r]
          \/ EndOf(s, r) <= s.position[s.pmap[q]]
      BY <1>1, <3>1, <3>2 DEF Regular, Apart
    <3>4. QED
      BY <1>2, <2>1, <3>1, <3>3 DEF P
  <2>5. q = P + a(m)
    BY DEF q
  <2>6. QED
    BY <1>5, <1>6, <2>3, <2>4, <2>5
<1>7. ASSUME Found(s, r) PROVE Found(u, seq[1][1])
  <2>1. P \in DOMAIN s.pmap /\ s.pmap[P] = r
    BY <1>7 DEF Found, P
  <2>2. P \in DOMAIN u.pmap
    BY <1>1, <2>1 DEF Remapping
  <2>3. 1 \in 1 .. Len(seq) /\ \A l \in 1 .. Len(seq) : ~ (l < 1)
    BY <1>3
  <2>4. P = P + a(1)
    BY <1>2, <1>3
  <2>5. QED
    BY <1>5, <2>1, <2>2, <2>3, <2>4
<1>8. QED
  BY <1>4, <1>6, <1>7 DEF a, L

(* A raw item is split: what is behind another item is still found, but for  *)
(* `lost2`.                                                                  *)
LEMMA CutIndexed ==
  ASSUME NEW s, NEW u, NEW p, NEW k, NEW r, NEW seq, NEW new, NEW kind,
         CutFrom(s, u, p, k, r, seq, new, kind), Regular(s),
         NEW lost, Indexed(s, lost), lost = Root \/ lost = r,
         NEW lost2,
         \A m \in 1 .. Len(seq) : seq[m][1] # lost2 =>
           /\ m = 1 => lost # r
           /\ m # 1 => /\ StartOf(seq, m) > 0
                       /\ StartOf(seq, m) < Len(s.own[r])
                       /\ \A l \in 1 .. Len(seq) :
                            l < m => StartOf(seq, l) # StartOf(seq, m)
  PROVE  Indexed(u, lost2)
<1> DEFINE items == PieceItems(seq)
           Is(y) == \E m \in 1 .. Len(seq) : seq[m][1] = y
<1>1. /\ s.kids \in [Lists -> Seq(Items)] /\ p \in Lists /\ r \in Items
      /\ k \in 1 .. Len(s.kids[p]) /\ r = s.kids[p][k] /\ Once(s.kids)
      /\ \A q \in Lists : q # p => u.kids[q] = s.kids[q]
      /\ lost # Root => lost = r
  BY DEF CutFrom, Whole, Owned, Shaped, Cutting
<1>2. /\ u.kids[p] = Spliced(s.kids[p], k, items)
      /\ \A q \in Lists : \A j \in 1 .. Len(s.kids[q]) :
           ~ (q = p /\ j = k) =>
             /\ ~ Is(s.kids[q][j])
             /\ u.position[s.kids[q][j]] = s.position[s.kids[q][j]]
  BY CutOthers
<1>3. /\ items \in Seq(Items) /\ Len(items) = Len(seq)
      /\ \A m \in 1 .. Len(seq) : items[m] = seq[m][1]
  <2>1. /\ DOMAIN seq = 1 .. Len(seq) /\ Len(seq) \in Nat
        /\ \A m \in 1 .. Len(seq) : seq[m][1] \in Items
    BY CutLists
  <2>2. QED
    BY <2>1 DEF PieceItems
<1>4. ASSUME NEW q \in Lists, NEW j \in 1 .. Len(s.kids[q]),
             ~ (q = p /\ j = k), j # 1
      PROVE  Found(u, s.kids[q][j])
  <2> DEFINE y == s.kids[q][j]
  <2>1. y \in Items /\ y # r
    BY <1>1, <1>4 DEF Once
  <2>2. ~ Is(y) /\ u.position[y] = s.position[y]
    BY <1>2, <1>4
  <2>3. y # lost
    BY <1>1, <2>1 DEF Root, Items
  <2>4. Found(s, y)
    BY <1>4, <2>3 DEF Indexed
  <2> HIDE DEF y
  <2>5. Found(u, y)
    BY <2>1, <2>2, <2>4, CutFound
  <2>6. QED
    BY <2>5 DEF y
<1>5. ASSUME NEW m \in 1 .. Len(seq), seq[m][1] # lost2, m # 1 \/ k # 1
      PROVE  Found(u, seq[m][1])
  <2>1. CASE m # 1
    <3>1. /\ StartOf(seq, m) > 0 /\ StartOf(seq, m) < Len(s.own[r])
          /\ \A l \in 1 .. Len(seq) : l < m => StartOf(seq, l) # StartOf(seq, m)
      BY <1>5, <2>1
    <3>2. QED
      BY <2>1, <3>1, CutFound
  <2>2. CASE m = 1
    <3>1. Found(s, r)
      BY <1>1, <1>5, <2>2 DEF Indexed
    <3>2. QED
      BY <2>2, <3>1, CutFound
  <2>3. QED
    BY <2>1, <2>2
<1> HIDE DEF items, Is
<1>6. ASSUME NEW q \in Lists, NEW j \in 1 .. Len(u.kids[q]), j # 1,
             u.kids[q][j] # lost2
      PROVE  Found(u, u.kids[q][j])
  <2>1. CASE q # p
    BY <1>1, <1>4, <1>6, <2>1
  <2>2. CASE q = p
    <3> DEFINE list == s.kids[p]
               rest == u.kids[p]
    <3>1. /\ list \in Seq(Items) /\ k \in 1 .. Len(list)
          /\ rest = Spliced(list, k, items) /\ j \in 1 .. Len(rest)
      BY <1>1, <1>2, <1>6, <2>2
    <3> HIDE DEF list, rest
    <3>2. \/ j \in 1 .. Len(list) /\ j # k /\ rest[j] = list[j]
          \/ \E m \in 1 .. Len(items) :
               rest[j] = items[m] /\ (j # 1 => m # 1 \/ k # 1)
          \/ \E i \in 1 .. Len(list) : i # k /\ i # 1 /\ rest[j] = list[i]
      BY <1>3, <3>1, SplicedFrom
    <3>3. CASE j \in 1 .. Len(list) /\ j # k /\ rest[j] = list[j]
      BY <1>1, <1>4, <1>6, <2>2, <3>3 DEF list, rest
    <3>4. CASE \E m \in 1 .. Len(items) :
                 rest[j] = items[m] /\ (j # 1 => m # 1 \/ k # 1)
      BY <1>3, <1>5, <1>6, <2>2, <3>4 DEF rest
    <3>5. CASE \E i \in 1 .. Len(list) : i # k /\ i # 1 /\ rest[j] = list[i]
      BY <1>1, <1>4, <2>2, <3>5 DEF list, rest
    <3>6. QED
      BY <3>2, <3>3, <3>4, <3>5
  <2>3. QED
    BY <2>1, <2>2
<1>7. QED
  BY <1>6 DEF Indexed

(* A raw item is split: the layout of the file is what it was.               *)
LEMMA CutLayout ==
  ASSUME NEW s, NEW u, NEW p, NEW k, NEW r, NEW seq, NEW new, NEW kind,
         CutFrom(s, u, p, k, r, seq, new, kind), Regular(s), kind # "eof",
         NEW lost, NEW thin, Layout(s, lost, thin), lost = Root \/ lost = r,
         NEW lost2, NEW thin2, thin = Root \/ thin = thin2,
         \A m \in 1 .. Len(seq) : seq[m][1] # thin2 => StartOf(seq, m) < seq[m][2],
         \A m \in 1 .. Len(seq) : seq[m][1] # lost2 =>
           /\ m = 1 => lost # r
           /\ m # 1 => /\ StartOf(seq, m) > 0
                       /\ StartOf(seq, m) < Len(s.own[r])
                       /\ \A l \in 1 .. Len(seq) :
                            l < m => StartOf(seq, l) # StartOf(seq, m)
  PROVE  Layout(u, lost2, thin2)
<1>1. PICK end : LaidOut(s, end) /\ Bulky(s, end, thin) /\ Held(s, end)
  BY DEF Layout
<1>2. end \in [Lists -> Nat]
  BY <1>1 DEF LaidOut
<1>3. PICK g : Ending(s, r, seq, end, g)
  BY <1>2, EndingExists
<1>4. LaidOut(u, g)
  BY <1>1, <1>3, CutLaid
<1>5. Bulky(u, g, thin2)
  BY <1>1, <1>3, CutBulky
<1>10. Held(u, g)
  BY <1>1, <1>3, CutHeld
<1>6. \E d : Layered(u, d)
  <2>1. PICK depth : Layered(s, depth)
    BY DEF Layout
  <2>2. QED
    BY <2>1, CutLayered
<1>7. Indexed(u, lost2)
  <2>1. Indexed(s, lost)
    BY DEF Layout
  <2>2. QED
    BY <2>1, CutIndexed
<1>8. EofEmpty(u)
  <2> SUFFICES ASSUME NEW i \in Items, u.kind[i] = "eof" PROVE u.own[i] = <<>>
    BY DEF EofEmpty
  <2>1. \A m \in 1 .. Len(seq) : u.kind[seq[m][1]] = IF seq[m][1] = new THEN kind ELSE "raw"
    BY DEF CutFrom, Cutting
  <2>2. \A m \in 1 .. Len(seq) : seq[m][1] # i
    BY <2>1
  <2>3. u.kind[i] = s.kind[i] /\ u.own[i] = s.own[i]
    BY <2>2, CutPlaces
  <2>4. QED
    BY <2>3 DEF Layout, EofEmpty
<1>9. QED
  BY <1>4, <1>5, <1>6, <1>7, <1>8, <1>10 DEF Layout

(* RawItem::Split: an item of some bytes; the node of an ExpansionsItem; the *)
(* piece that becomes the child of a node.                                   *)
LEMMA SplitLayout ==
  ASSUME NEW s, NEW u, NEW p, NEW k, NEW r, NEW pos, NEW len, NEW new, NEW f,
         NEW kind, Splitting(s, u, p, k, r, pos, len, new, f, kind), Good(s),
         kind # "eof"
  PROVE  /\ Layout(s, Root, Root) /\ len > 0 => Layout(u, Root, Root)
         /\ Layout(s, Root, Root) /\ pos < Len(s.own[r]) =>
              Layout(u, IF pos = 0 THEN r ELSE f, new)
         /\ \A thin : /\ Layout(s, Root, thin) \/ Layout(s, r, thin)
                      /\ len > 0 /\ pos = 0
                      => Layout(u, new, thin)
<1> DEFINE seq == PiecesOf(r, pos, pos + len, Len(s.own[r]), new, f)
           L == Len(s.own[r])
           b == IF pos = 0 THEN r ELSE f
           Behind1(m) == /\ StartOf(seq, m) > 0
                         /\ StartOf(seq, m) < Len(s.own[r])
                         /\ \A l \in 1 .. Len(seq) :
                              l < m => StartOf(seq, l) # StartOf(seq, m)
<1>1. /\ CutFrom(s, u, p, k, r, seq, new, kind) /\ Regular(s)
      /\ pos \in Nat /\ len \in Nat /\ L \in Nat
      /\ pos + len <= L /\ L > 0
      /\ r # Root /\ new # r /\ f # r /\ f # new
  BY DEF Splitting, Good, CutFrom, Items, Root
<1>2. \A m \in 1 .. Len(seq) :
        \/ /\ seq[m][1] = r /\ pos # 0 /\ m = 1
           /\ StartOf(seq, m) = 0 /\ seq[m][2] = pos
        \/ /\ seq[m][1] = new /\ (m = IF pos = 0 THEN 1 ELSE 2)
           /\ StartOf(seq, m) = pos /\ seq[m][2] = pos + len
        \/ /\ seq[m][1] = b
           /\ pos + len # L /\ (m = IF pos = 0 THEN 2 ELSE 3)
           /\ StartOf(seq, m) = pos + len /\ seq[m][2] = L
  <2>1. \A m \in 1 .. Len(seq) :
          PieceAt(seq, m, r, pos, len, Len(s.own[r]), new, f)
    BY PieceIs, Zenon
  <2> HIDE DEF seq
  <2>2. QED
    BY <2>1 DEF PieceAt
<1>0. \A m \in 1 .. Len(seq) : m \in Nat
  OBVIOUS
<1> HIDE DEF seq, L, b
<1>3. ASSUME len > 0
      PROVE  /\ \A m \in 1 .. Len(seq) : StartOf(seq, m) < seq[m][2]
             /\ \A m \in 1 .. Len(seq) : m # 1 =>
                  /\ StartOf(seq, m) > 0 /\ StartOf(seq, m) < L
                  /\ \A l \in 1 .. Len(seq) :
                       l < m => StartOf(seq, l) # StartOf(seq, m)
  BY <1>0, <1>1, <1>2, <1>3
<1>4. ASSUME pos < L
      PROVE  /\ \A m \in 1 .. Len(seq) :
                  seq[m][1] # new => StartOf(seq, m) < seq[m][2]
             /\ \A m \in 1 .. Len(seq) : m # 1 /\ seq[m][1] # b =>
                  /\ StartOf(seq, m) > 0 /\ StartOf(seq, m) < L
                  /\ \A l \in 1 .. Len(seq) :
                       l < m => StartOf(seq, l) # StartOf(seq, m)
  BY <1>0, <1>1, <1>2, <1>4
<1>5. ASSUME Layout(s, Root, Root), len > 0 PROVE Layout(u, Root, Root)
  BY <1>1, <1>3, <1>5, CutLayout DEF L
<1>6. ASSUME Layout(s, Root, Root), pos < L PROVE Layout(u, b, new)
  BY <1>1, <1>4, <1>6, CutLayout DEF L
<1>7. ASSUME NEW thin, NEW lost, lost = Root \/ lost = r, Layout(s, lost, thin),
             len > 0, pos = 0
      PROVE  Layout(u, new, thin)
  <2>1. \A m \in 1 .. Len(seq) : m = 1 => seq[m][1] = new
    BY <1>2, <1>7
  <2>2. QED
    BY <1>1, <1>3, <1>7, <2>1, CutLayout DEF L
<1>8. QED
  BY <1>5, <1>6, <1>7 DEF b, L

-----------------------------------------------------------------------------
(* What parsing keeps of the file *)

(* The sequence is what is in `units` from `start` on. *)
Shows(seq, units, start) ==
  \A k \in 1 .. Len(seq) : seq[k] = units[start + (k - 1)]

(* So is what it is joined to, if that is what follows.                      *)
LEMMA ShowsJoined ==
  ASSUME NEW T, NEW a \in Seq(T), NEW b \in Seq(T), NEW units, NEW start \in Nat,
         Shows(a, units, start), Shows(b, units, start + Len(a))
  PROVE  Shows(a \o b, units, start)
<1> DEFINE c == a \o b
           n == Len(a)
           m == Len(b)
<1>1. /\ n \in Nat /\ m \in Nat /\ Len(c) = n + m
      /\ \A k \in 1 .. n : c[k] = a[k]
  OBVIOUS
<1>2. \A j \in 1 .. m : c[n + j] = b[j]
  OBVIOUS
<1>3. /\ \A k \in 1 .. n : a[k] = units[start + (k - 1)]
      /\ \A j \in 1 .. m : b[j] = units[(start + n) + (j - 1)]
  BY DEF Shows
<1> HIDE DEF c, n, m
<1>4. ASSUME NEW k \in 1 .. n + m PROVE c[k] = units[start + (k - 1)]
  <2>1. CASE k <= n
    <3>1. k \in 1 .. n
      BY <1>1, <2>1
    <3>2. QED
      BY <1>1, <1>3, <3>1
  <2>2. CASE ~ (k <= n)
    <3> DEFINE j == k - n
    <3>1. j \in 1 .. m /\ n + j = k /\ (start + n) + (j - 1) = start + (k - 1)
      BY <1>1, <2>2
    <3> HIDE DEF j
    <3>2. c[n + j] = b[j] /\ b[j] = units[(start + n) + (j - 1)]
      BY <1>2, <1>3, <3>1
    <3>3. QED
      BY <3>1, <3>2
  <2>3. QED
    BY <2>1, <2>2
<1>5. QED
  <2>1. Len(c) = n + m
    BY <1>1
  <2> DEFINE l == n + m
  <2> HIDE DEF l
  <2>2. Len(c) = l /\ \A k \in 1 .. l : c[k] = units[start + (k - 1)]
    BY <1>4, <2>1 DEF l
  <2>3. Shows(c, units, start)
    BY <2>2 DEF Shows
  <2>4. QED
    BY <2>3 DEF c

(* What the items have themselves is in `units` where the items are. *)
Holding(s, units) ==
  \A i \in Items : s.kind[i] # "free" => Shows(s.own[i], units, s.position[i])

(* The units of the file, which are numbered from 0. *)
Unit == [q \in Nat |-> q]

(* A label that is set points to the unit at q. *)
Named(s, n, q) == s.label[n] # Unset /\ ToFilePos(s, s.label[n]) = q

(* Every label points to the unit it pointed to, and no other label is set.  *)
Pointing(s, u) ==
  \A n \in Names :
    /\ u.label[n] = Unset <=> s.label[n] = Unset
    /\ s.label[n] # Unset =>
         ToFilePos(u, u.label[n]) = ToFilePos(s, s.label[n])

(* If every item has what the file has there, it is so in u, too. *)
Keeping(s, u) ==
  /\ Holding(s, Unit) => Holding(u, Unit)
  /\ Pointing(s, u)

(* So it is with one step after another.                                     *)
LEMMA KeepingOn ==
  ASSUME NEW s, NEW v, NEW u, Keeping(s, v), Keeping(v, u)
  PROVE  Keeping(s, u)
<1>1. Pointing(s, u)
  <2> SUFFICES ASSUME NEW n \in Names
        PROVE  /\ u.label[n] = Unset <=> s.label[n] = Unset
               /\ s.label[n] # Unset =>
                    ToFilePos(u, u.label[n]) = ToFilePos(s, s.label[n])
    BY DEF Pointing
  <2>1. /\ v.label[n] = Unset <=> s.label[n] = Unset
        /\ s.label[n] # Unset =>
             ToFilePos(v, v.label[n]) = ToFilePos(s, s.label[n])
    BY DEF Keeping, Pointing
  <2>2. /\ u.label[n] = Unset <=> v.label[n] = Unset
        /\ v.label[n] # Unset =>
             ToFilePos(u, u.label[n]) = ToFilePos(v, v.label[n])
    BY DEF Keeping, Pointing
  <2>3. QED
    BY <2>1, <2>2
<1>2. QED
  BY <1>1 DEF Keeping

(* RawItem::Split moves no unit and no label.                                *)
LEMMA CutKeeping ==
  ASSUME NEW s, NEW u, NEW p, NEW k, NEW r, NEW seq, NEW new, NEW kind,
         CutFrom(s, u, p, k, r, seq, new, kind), Regular(s)
  PROVE  Keeping(s, u)
<1> DEFINE P == s.position[r]
           L == Len(s.own[r])
<1>1. /\ Shaped(s) /\ Owned(s, {}) /\ r \in Items /\ s.kind[r] = "raw"
      /\ Cutting(s, u, p, k, r, seq, new, kind)
      /\ Relabelling(s, u, r, seq)
  BY DEF CutFrom, Whole, Cutting
<1>2. /\ P \in Nat /\ L \in Nat
      /\ \A m \in 1 .. Len(seq) :
           /\ seq[m][1] \in Items
           /\ seq[m][2] \in Nat /\ StartOf(seq, m) \in Nat
           /\ StartOf(seq, m) <= seq[m][2] /\ seq[m][2] <= L
           /\ u.position[seq[m][1]] = P + StartOf(seq, m)
      /\ \A j \in Items :
           \/ \E m \in 1 .. Len(seq) : seq[m][1] = j
           \/ j = r /\ u.kind[j] = "free"
           \/ /\ j # r /\ u.kind[j] = s.kind[j]
              /\ u.own[j] = s.own[j] /\ u.position[j] = s.position[j]
  BY CutPlaces
<1>3. \A m \in 1 .. Len(seq) :
        /\ seq[m][1] = r \/ s.kind[seq[m][1]] = "free"
        /\ Len(u.own[seq[m][1]]) = seq[m][2] - StartOf(seq, m)
        /\ Excerpt(u.own[seq[m][1]], s.own[r], StartOf(seq, m))
  BY <1>1 DEF Cutting
<1>4. ASSUME Holding(s, Unit) PROVE Holding(u, Unit)
  <2> SUFFICES ASSUME NEW j \in Items, u.kind[j] # "free"
               PROVE  Shows(u.own[j], Unit, u.position[j])
    BY DEF Holding
  <2>1. ASSUME NEW m \in 1 .. Len(seq), seq[m][1] = j
        PROVE  Shows(u.own[j], Unit, u.position[j])
    <3> DEFINE a == StartOf(seq, m)
               l == seq[m][2] - a
               part == u.own[j]
               whole == s.own[r]
    <3>1. /\ Len(part) = l /\ Excerpt(part, whole, a)
          /\ u.position[j] = P + a
          /\ a \in Nat /\ l \in Nat /\ a + l <= L
      <4> DEFINE b == seq[m][2]
      <4>1. /\ a \in Nat /\ b \in Nat /\ a <= b /\ b <= L
            /\ u.position[j] = P + a
        BY <1>2, <2>1
      <4>2. Len(part) = b - a /\ Excerpt(part, whole, a)
        BY <1>3, <2>1
      <4> HIDE DEF a, b, part, whole
      <4>3. b - a \in Nat /\ a + (b - a) <= L
        BY <1>2, <4>1
      <4>4. QED
        BY <4>1, <4>2, <4>3 DEF b
    <3>2. \A q \in 1 .. L : whole[q] = Unit[P + (q - 1)]
      <4>1. s.kind[r] # "free"
        BY <1>1
      <4>2. Shows(s.own[r], Unit, s.position[r])
        BY <1>1, <1>4, <4>1 DEF Holding
      <4>3. QED
        BY <4>2, Zenon DEF Shows
    <3> HIDE DEF a, l, part, whole, P, L
    <3>3. ASSUME NEW q \in 1 .. l PROVE part[q] = Unit[(P + a) + (q - 1)]
      <4>1. part[q] = whole[a + q]
        BY <3>1 DEF Excerpt
      <4>2. a + q \in 1 .. L /\ P + ((a + q) - 1) = (P + a) + (q - 1)
        BY <1>2, <3>1
      <4>3. QED
        BY <3>2, <4>1, <4>2
    <3>4. Shows(part, Unit, P + a)
      BY <3>1, <3>3 DEF Shows
    <3>5. QED
      BY <3>1, <3>4 DEF part
  <2>2. CASE j = r /\ u.kind[j] = "free"
    BY <2>2
  <2>3. CASE u.kind[j] = s.kind[j] /\ u.own[j] = s.own[j]
             /\ u.position[j] = s.position[j]
    BY <1>4, <2>3 DEF Holding
  <2>4. QED
    BY <1>2, <2>1, <2>2, <2>3
<1>5. Pointing(s, u)
  <2> SUFFICES ASSUME NEW n \in Names
        PROVE  /\ u.label[n] = Unset <=> s.label[n] = Unset
               /\ s.label[n] # Unset =>
                    ToFilePos(u, u.label[n]) = ToFilePos(s, s.label[n])
    BY DEF Pointing
  <2>1. CASE n \in LabelsOf(s, r)
    <3> DEFINE o == s.label[n].offset
    <3>1. /\ s.label[n] # Unset /\ s.label[n].item = r
          /\ s.label[n] \in Pointers /\ o \in Nat
      BY <1>1, <2>1 DEF LabelsOf, Shaped, Pointers
    <3>2. PICK m \in 1 .. Len(seq) :
            /\ u.label[n] = [item |-> seq[m][1], offset |-> o - StartOf(seq, m)]
            /\ StartOf(seq, m) <= o
      BY <1>1, <2>1 DEF Relabelling, Shifting
    <3> DEFINE a == StartOf(seq, m)
    <3>3. a \in Nat /\ a <= o /\ seq[m][1] \in Items
          /\ u.position[seq[m][1]] = P + a
      BY <1>2, <3>2
    <3>4. u.label[n] = [item |-> seq[m][1], offset |-> o - a]
      BY <3>2
    <3> HIDE DEF a, o, P
    <3>5. o - a \in Nat /\ (P + a) + (o - a) = P + o
      BY <1>2, <3>1, <3>3
    <3>6. u.label[n] # Unset
      BY <3>3, <3>4, <3>5, ItemTreeAssumption DEF Items
    <3>7. ToFilePos(u, u.label[n]) = u.position[seq[m][1]] + (o - a)
      BY <3>4 DEF ToFilePos
    <3>8. ToFilePos(s, s.label[n]) = P + o
      BY <3>1 DEF ToFilePos, P, o
    <3>9. QED
      BY <3>1, <3>3, <3>5, <3>6, <3>7, <3>8
  <2>2. CASE n \notin LabelsOf(s, r)
    <3>1. u.label[n] = s.label[n]
      BY <1>1, <2>2 DEF Relabelling
    <3>2. ASSUME s.label[n] # Unset
          PROVE  u.position[s.label[n].item] = s.position[s.label[n].item]
      <4>1. /\ s.label[n].item \in Items /\ s.label[n].item # r
            /\ s.kind[s.label[n].item] # "free"
        BY <1>1, <2>2, <3>2 DEF LabelsOf, Owned, Shaped, Pointers
      <4>2. QED
        BY <1>2, <1>3, <4>1
    <3>3. QED
      BY <3>1, <3>2 DEF ToFilePos
  <2>3. QED
    BY <2>1, <2>2
<1> HIDE DEF P, L
<1>6. QED
  BY <1>4, <1>5 DEF Keeping

(* Split, with the places of its pieces.                                     *)
LEMMA SplitKeeping ==
  ASSUME NEW s, NEW u, NEW p, NEW k, NEW r, NEW pos, NEW len, NEW new, NEW f,
         NEW kind, Splitting(s, u, p, k, r, pos, len, new, f, kind), Good(s)
  PROVE  Keeping(s, u)
<1>1. Regular(s) /\ CutFrom(s, u, p, k, r,
        PiecesOf(r, pos, pos + len, Len(s.own[r]), new, f), new, kind)
  BY DEF Splitting, Good
<1>2. QED
  BY <1>1, CutKeeping

(* Nothing that an item has or points to is changed.                         *)
LEMMA SameKeeping ==
  ASSUME NEW s, NEW u, u.kind = s.kind, u.own = s.own,
         u.position = s.position, u.label = s.label
  PROVE  Keeping(s, u)
BY DEF Keeping, Holding, Pointing, ToFilePos

-----------------------------------------------------------------------------
(* Children laid out in their parent *)

(* w is v when c, the l-th child of p, became the only child of `node`.      *)
Relinked(v, w, node, c, p, l) ==
  \A j \in Lists :
    w.kids[j] = IF j = node THEN <<c>>
                ELSE IF j = p THEN Spliced(v.kids[p], l, <<>>) ELSE v.kids[j]

(* ItemWithChildren::MoveNextToChild moves an item from its list to another. *)
LEMMA MovedKids ==
  ASSUME NEW v, Whole(v, {}), NEW node \in Items, v.kids[node] = <<>>,
         NEW p \in Lists, NEW k \in 1 .. Len(v.kids[p]),
         NEW c, c = v.kids[p][k], NEW w, w = Moved(v, node, c, p)
  PROVE  Relinked(v, w, node, c, p, k)
<1> DEFINE s == Removed(v, {c})
<1>1. /\ Fields \subseteq DOMAIN v
      /\ v.kids \in [Lists -> Seq(Items)] /\ Once(v.kids) /\ node \in Lists
  BY DEF Whole, Owned, Shaped, Lists
<1>2. Removing(v, s, {c})
  BY <1>1, RemovedFields
<1>3. /\ c \in Items /\ Distinct(v.kids[p]) /\ IndexIn(v.kids[p], c) = k
  BY <1>1, Placed
<1>4. p # node
  OBVIOUS
<1>5. s.kids = v.kids /\ "kids" \in DOMAIN s
  BY <1>1, <1>2 DEF Removing, Fields
<1>6. RemoveAt(v.kids[p], k) = Spliced(v.kids[p], k, <<>>)
  <2>1. v.kids[p] \in Seq(Items) /\ <<>> \in Seq(Items)
    BY <1>1
  <2>2. QED
    BY <1>3, <2>1, SplicedForms
<1> HIDE DEF s
<1>7. w = [s EXCEPT !.kids[p] = RemoveAt(s.kids[p], IndexIn(s.kids[p], c)),
                    !.kids[node] = Append(s.kids[node], c)]
  BY <1>4 DEF Moved, s
<1>8. w.kids = [v.kids EXCEPT ![p] = Spliced(v.kids[p], k, <<>>),
                              ![node] = Append(v.kids[node], c)]
  BY <1>3, <1>5, <1>6, <1>7
<1>9. Append(v.kids[node], c) = <<c>>
  OBVIOUS
<1>10. QED
  BY <1>1, <1>4, <1>8, <1>9 DEF Relinked

(* What is left when an element is taken out was in the list.               *)
LEMMA TakenOut ==
  ASSUME NEW S, NEW list \in Seq(S), NEW k, k \in 1 .. Len(list),
         NEW new, new = Spliced(list, k, <<>>), NEW j, j \in 1 .. Len(new)
  PROVE  \E i \in 1 .. Len(list) :
           i # k /\ (j # 1 => i # 1) /\ new[j] = list[i]
<1> DEFINE none == <<>>
           n == Len(list)
<1>1. none \in Seq(S) /\ Len(none) = 0
  OBVIOUS
<1>2. SpliceOf(Spliced(list, k, none), list, k, none)
  BY <1>1, SplicedIs
<1>3. SpliceOf(new, list, k, none)
  BY <1>2
<1>4. n \in Nat /\ k \in 1 .. n
  OBVIOUS
<1> HIDE DEF none, n
<1>5. /\ Len(new) = n - 1
      /\ new[j] = IF j < k THEN list[j] ELSE list[j + 1]
  BY <1>1, <1>3, <1>4 DEF SpliceOf, n
<1>6. j \in 1 .. n - 1
  BY <1>5
<1> DEFINE i == j + 1
<1>7. CASE j < k
  BY <1>4, <1>5, <1>6, <1>7 DEF n
<1>8. CASE ~ (j < k)
  <2>1. i \in 1 .. n /\ i # k /\ i # 1
    BY <1>4, <1>6, <1>8
  <2>2. new[j] = list[i]
    BY <1>5, <1>8
  <2>3. QED
    BY <2>1, <2>2 DEF n
<1>9. QED
  BY <1>7, <1>8

(* An item is in one list, once.                                             *)
LEMMA OnceAt ==
  ASSUME NEW kids, Once(kids), NEW p \in Lists, NEW q \in Lists,
         NEW k, k \in 1 .. Len(kids[p]), NEW l, l \in 1 .. Len(kids[q])
  PROVE  kids[p][k] = kids[q][l] => p = q /\ k = l
BY DEF Once

(* c, which has something, is what is behind `node`, the k-th child of p,    *)
(* and both have no children.                                                *)
Adjoining(v, node, c, p, k, l) ==
  /\ Whole(v, {}) /\ node \in Items /\ p \in Lists
  /\ k \in 1 .. Len(v.kids[p]) /\ l \in 1 .. Len(v.kids[p]) /\ l = k + 1
  /\ v.kids[p][k] = node /\ v.kids[p][l] = c
  /\ v.kids[node] = <<>> /\ v.kids[c] = <<>> /\ Len(v.own[c]) > 0
  /\ v.kind[node] # "free" /\ v.kind[c] # "free"
  /\ v.position[c] \in Nat /\ v.position[node] \in Nat

(* What is behind a node becomes its child: no item changes place.           *)
LEMMA RelinkedLayout ==
  ASSUME NEW v, NEW w, NEW thin, NEW node, NEW c, NEW p, NEW k, NEW l,
         Adjoining(v, node, c, p, k, l), Layout(v, c, thin),
         thin = Root \/ thin = node,
         Moving(v, w, node, c), Relinked(v, w, node, c, p, l)
  PROVE  Layout(w, Root, Root)
<1>0. Whole(v, {})
  BY DEF Adjoining
<1>1. /\ v.kids \in [Lists -> Seq(Items)] /\ Once(v.kids)
      /\ v.own \in [Items -> Seq(Nat)]
  BY <1>0, Zenon DEF Whole, Owned, Shaped
<1>2. /\ w.kind = v.kind /\ w.own = v.own /\ w.position = v.position
      /\ DOMAIN w.pmap = {q \in DOMAIN v.pmap : v.pmap[q] # c}
      /\ \A q \in DOMAIN w.pmap : w.pmap[q] = v.pmap[q]
  BY DEF Moving
<1>3. PICK end : LaidOut(v, end) /\ Bulky(v, end, thin) /\ Held(v, end)
  BY DEF Layout
<1> DEFINE g == [end EXCEPT ![node] = end[c]]
           list == v.kids[p]
<1>4. /\ end \in [Lists -> Nat] /\ end[Root] = Size
      /\ \A q \in Live(v) : Row(v.kids[q], v.position, end, Inner(v, q), end[q])
  BY <1>3 DEF LaidOut
<1>5. /\ node \in Items /\ p \in Lists
      /\ list[k] = node /\ list[l] = c
  BY DEF Adjoining
<1>24. k \in 1 .. Len(list) /\ l \in 1 .. Len(list) /\ l = k + 1
  BY DEF Adjoining
<1>20. list \in Seq(Items)
  BY <1>1, <1>5
<1>21. k \in Nat /\ l \in Nat /\ l # k /\ l # 1
  BY <1>24
<1>22. c \in Items
  BY <1>5, <1>20, <1>24
<1>6. c \in Lists /\ node \in Lists /\ c # node /\ c # Root /\ node # Root
  <2>1. v.kids[p][l] = v.kids[p][k] => l = k
    BY <1>1, <1>5, <1>24, OnceAt
  <2>2. c # node
    BY <1>5, <1>21, <2>1
  <2>3. QED
    BY <1>5, <1>22, <2>2 DEF Lists, Root, Items
<1>23. p # node /\ p # c /\ v.kids[node] = <<>> /\ v.kids[c] = <<>>
  <2>1. list # <<>>
    BY <1>24
  <2>2. v.kids[node] = <<>> /\ v.kids[c] = <<>>
    BY DEF Adjoining
  <2>3. QED
    BY <2>1, <2>2
<1>7. /\ node \in Live(v) /\ c \in Live(v) /\ p \in Live(v)
      /\ \A q \in Live(v) : q \in Lists
  <2>1. v.kind[node] # "free" /\ v.kind[c] # "free"
    BY DEF Adjoining
  <2>2. p # Root => p \in Items /\ v.kind[p] # "free"
    <3>1. v.kids[p] # <<>>
      BY <1>24
    <3>2. QED
      BY <1>0, <1>5, <3>1 DEF Whole, Owned, Childless, Lists
  <2>3. QED
    BY <1>5, <1>22, <2>1, <2>2 DEF Live, Lists
<1>8. g \in [Lists -> Nat] /\ g[node] = end[c]
      /\ \A q \in Lists : q # node => g[q] = end[q]
  BY <1>4, <1>6
<1> HIDE DEF g
<1>9. \A q \in Lists : \A j \in 1 .. Len(v.kids[q]) :
        /\ v.kids[q][j] \in Lists
        /\ ~ (q = p /\ j = k) => g[v.kids[q][j]] = end[v.kids[q][j]]
        /\ ~ (q = p /\ j = l) => v.kids[q][j] # c
  <2> SUFFICES ASSUME NEW q \in Lists, NEW j \in 1 .. Len(v.kids[q])
               PROVE  /\ v.kids[q][j] \in Lists
                      /\ ~ (q = p /\ j = k) => g[v.kids[q][j]] = end[v.kids[q][j]]
                      /\ ~ (q = p /\ j = l) => v.kids[q][j] # c
    OBVIOUS
  <2>1. v.kids[q][j] \in Items
    BY <1>1
  <2>2. ~ (q = p /\ j = k) => v.kids[q][j] # node
    <3>1. v.kids[q][j] = v.kids[p][k] => q = p /\ j = k
      <4>1. Once(v.kids) /\ p \in Lists
        BY <1>1, <1>5
      <4>2. QED
        BY <1>24, <4>1, OnceAt
    <3>2. QED
      BY <1>5, <3>1, Zenon
  <2>3. ~ (q = p /\ j = l) => v.kids[q][j] # c
    <3>1. v.kids[q][j] = v.kids[p][l] => q = p /\ j = l
      <4>1. Once(v.kids) /\ p \in Lists
        BY <1>1, <1>5
      <4>2. QED
        BY <1>24, <4>1, OnceAt
    <3>2. QED
      BY <1>5, <3>1, Zenon
  <2>4. QED
    BY <1>8, <2>1, <2>2, <2>3 DEF Lists
<1>10. end[node] = v.position[node] + Len(v.own[node])
       /\ end[c] = v.position[c] + Len(v.own[c])
  <2>0. Len(<<>>) + 1 = 1
    OBVIOUS
  <2>1. Row(<<>>, v.position, end, Inner(v, node), end[node])
        /\ Row(<<>>, v.position, end, Inner(v, c), end[c])
    BY <1>4, <1>7, <1>23
  <2>2. QED
    BY <1>6, <2>0, <2>1 DEF Row, Mark, Inner
<1>11. v.position[c] = end[node]
  <2>1. Row(list, v.position, end, Inner(v, p), end[p])
    BY <1>4, <1>7
  <2>2. v.position[list[l]] = Mark(list, end, Inner(v, p), l)
    BY <1>24, <2>1 DEF Row
  <2>3. l # 1 /\ l - 1 = k
    BY <1>24, <1>21
  <2>4. QED
    BY <1>5, <2>2, <2>3 DEF Mark
<1>12. ASSUME NEW q \in Live(w)
       PROVE  Row(w.kids[q], w.position, g, Inner(w, q), g[q])
  <2>1. q \in Live(v) /\ q \in Lists /\ Inner(w, q) = Inner(v, q)
    BY <1>2, <1>7 DEF Live, Inner
  <2>2. CASE q = node
    <3>1. w.kids[q] = <<c>>
      BY <1>6, <2>2 DEF Relinked
    <3>2. w.position[c] = Inner(w, q)
      BY <1>2, <1>6, <1>10, <1>11, <2>2 DEF Inner
    <3>3. g[c] = g[q]
      BY <1>6, <1>8, <2>2
    <3>4. QED
      BY <3>1, <3>2, <3>3, RowOfOne
  <2>3. CASE q = p
    <3>1. w.kids[q] = Spliced(list, l, <<>>)
      BY <1>5, <1>23, <2>3 DEF Relinked
    <3>2. Row(list, v.position, end, Inner(v, q), end[q])
      BY <1>4, <1>7, <2>3
    <3>3. g[list[k]] = end[list[l]]
      BY <1>5, <1>8
    <3>4. \A j \in 1 .. Len(list) :
            j # k /\ j # l => g[list[j]] = end[list[j]]
      BY <1>5, <1>9, Zenon
    <3>5. g[q] = end[q]
      BY <1>5, <1>8, <1>23, <2>3
    <3> HIDE DEF list
    <3>6. Row(Spliced(list, l, <<>>), v.position, g, Inner(v, q), end[q])
      BY <1>20, <1>24, <3>2, <3>3, <3>4, RowCut
    <3>7. QED
      BY <1>2, <2>1, <3>1, <3>5, <3>6
  <2>4. CASE q # node /\ q # p
    <3> DEFINE row == v.kids[q]
    <3>1. w.kids[q] = row /\ Len(row) \in Nat
      BY <1>1, <2>1, <2>4 DEF Relinked
    <3>2. Row(row, v.position, end, Inner(v, q), end[q])
      BY <1>4, <2>1
    <3>3. \A j \in 1 .. Len(row) : g[row[j]] = end[row[j]]
      BY <1>9, <2>1, <2>4
    <3>4. g[q] = end[q]
      BY <1>8, <2>1, <2>4
    <3> HIDE DEF row
    <3>5. Row(row, v.position, g, Inner(v, q), end[q])
      BY <3>1, <3>2, <3>3, RowSame
    <3>6. QED
      BY <1>2, <2>1, <3>1, <3>4, <3>5
  <2>5. QED
    BY <2>2, <2>3, <2>4
<1>13. LaidOut(w, g)
  <2>1. g[Root] = Size
    BY <1>4, <1>6, <1>8 DEF Lists
  <2>2. QED
    BY <1>8, <1>12, <2>1 DEF LaidOut
<1>14. Bulky(w, g, Root)
  <2> SUFFICES ASSUME NEW i \in Items, w.kind[i] # "free"
               PROVE  w.position[i] < g[i] \/ w.position[i] = Size
    BY DEF Bulky
  <2>1. CASE i = node
    <3> DEFINE n == Len(v.own[node])
               m == Len(v.own[c])
               x == v.position[node]
    <3>1. n \in Nat /\ m \in Nat /\ m > 0 /\ x \in Nat
      <4>1. v.own[node] \in Seq(Nat) /\ v.own[c] \in Seq(Nat)
        BY <1>1, <1>5, <1>22
      <4>2. m > 0 /\ x \in Nat
        BY DEF Adjoining
      <4>3. QED
        BY <4>1, <4>2
    <3>2. g[i] = (x + n) + m /\ w.position[i] = x
      BY <1>2, <1>8, <1>10, <1>11, <2>1
    <3> HIDE DEF n, m, x
    <3>3. QED
      BY <3>1, <3>2
  <2>2. CASE i # node
    <3>1. i # thin /\ g[i] = end[i]
      BY <1>8, <2>2 DEF Lists, Root, Items
    <3>2. QED
      BY <1>2, <1>3, <3>1 DEF Bulky
  <2>3. QED
    BY <2>1, <2>2
<1>15. \E d : Layered(w, d)
  <2>1. PICK depth : Layered(v, depth)
    BY DEF Layout
  <2> DEFINE d == [depth EXCEPT ![c] = depth[node] + 1]
  <2>2. /\ depth \in [Lists -> Nat]
        /\ \A q \in Lists : \A j \in 1 .. Len(v.kids[q]) :
             depth[q] < depth[v.kids[q][j]]
    BY <2>1 DEF Layered
  <2>3. /\ d \in [Lists -> Nat] /\ d[c] = depth[node] + 1
        /\ \A q \in Lists : q # c => d[q] = depth[q]
    <3>1. depth[node] + 1 \in Nat
      BY <1>6, <2>2
    <3>2. QED
      BY <1>6, <2>2, <3>1
  <2> HIDE DEF d
  <2>4. ASSUME NEW q \in Lists, NEW j \in 1 .. Len(w.kids[q])
        PROVE  d[q] < d[w.kids[q][j]]
    <3>1. CASE q = node
      <4>1. w.kids[q] = <<c>>
        BY <1>6, <3>1 DEF Relinked
      <4>2. w.kids[q][j] = c
        BY <4>1
      <4>3. QED
        <5>1. depth[node] \in Nat /\ d[q] = depth[node]
          BY <1>6, <2>2, <2>3, <3>1
        <5>2. QED
          BY <2>3, <4>2, <5>1
    <3>2. CASE q = c
      <4>2. w.kids[c] = <<>>
        BY <1>6, <1>23 DEF Relinked
      <4>3. j \in 1 .. 0
        BY <3>2, <4>2
      <4>4. QED
        BY <4>3
    <3>3. CASE q = p /\ q # c
      <4> DEFINE rest == w.kids[q]
      <4>1. rest = Spliced(list, l, <<>>) /\ j \in 1 .. Len(rest)
        BY <1>5, <1>23, <3>3 DEF Relinked
      <4> HIDE DEF list, rest
      <4>2. PICK i \in 1 .. Len(list) :
              i # l /\ (j # 1 => i # 1) /\ rest[j] = list[i]
        <5>1. l \in 1 .. Len(list)
          BY <1>24
        <5>2. QED
          BY <1>20, <4>1, <5>1, TakenOut
      <4>3. i # l /\ rest[j] = list[i]
        BY <4>2
      <4>4. list[i] \in Lists /\ list[i] # c
        BY <1>5, <1>9, <4>3, Zenon DEF list
      <4>5. depth[q] < depth[list[i]]
        BY <2>2, <3>3 DEF list
      <4>6. QED
        BY <2>3, <3>3, <4>3, <4>4, <4>5 DEF rest
    <3>4. CASE q # node /\ q # p /\ q # c
      <4>1. w.kids[q] = v.kids[q]
        BY <3>4 DEF Relinked
      <4>2. w.kids[q][j] \in Lists /\ w.kids[q][j] # c
        BY <1>9, <3>4, <4>1
      <4>3. QED
        BY <2>2, <2>3, <3>4, <4>1, <4>2
    <3>5. QED
      BY <3>1, <3>2, <3>3, <3>4
  <2>5. QED
    BY <2>3, <2>4 DEF Layered
<1>16. Indexed(w, Root)
  <2>1. ASSUME NEW q \in Lists, NEW i \in 1 .. Len(v.kids[q]), i # 1,
               ~ (q = p /\ i = l)
        PROVE  Found(w, v.kids[q][i])
    <3> DEFINE y == v.kids[q][i]
    <3>1. y # c
      BY <1>9, <2>1
    <3>2. Found(v, y)
      BY <2>1, <3>1 DEF Layout, Indexed
    <3> HIDE DEF y
    <3>3. Found(w, y)
      BY <1>2, <3>1, <3>2 DEF Found
    <3>4. QED
      BY <3>3 DEF y
  <2>2. ASSUME NEW q \in Lists, NEW j \in 1 .. Len(w.kids[q]), j # 1
        PROVE  Found(w, w.kids[q][j])
    <3>1. CASE q = node
      <4>1. w.kids[q] = <<c>>
        BY <1>6, <3>1 DEF Relinked
      <4>2. j = 1
        BY <4>1
      <4>3. QED
        BY <2>2, <4>2
    <3>2. CASE q = p
      <4> DEFINE rest == w.kids[q]
      <4>1. rest = Spliced(list, l, <<>>) /\ j \in 1 .. Len(rest) /\ q = p
        BY <1>5, <1>23, <3>2 DEF Relinked
      <4> HIDE DEF list, rest
      <4>2. PICK i \in 1 .. Len(list) :
              i # l /\ (j # 1 => i # 1) /\ rest[j] = list[i]
        BY <1>20, <1>24, <4>1, TakenOut
      <4>3. i # l /\ i # 1 /\ rest[j] = list[i]
        BY <2>2, <4>2
      <4>4. QED
        BY <2>1, <4>1, <4>3 DEF list, rest
    <3>3. CASE q # node /\ q # p
      <4>1. w.kids[q] = v.kids[q]
        BY <3>3 DEF Relinked
      <4>2. QED
        BY <2>1, <2>2, <3>3, <4>1
    <3>4. QED
      BY <3>1, <3>2, <3>3
  <2>3. QED
    BY <2>2 DEF Indexed
<1>18. Held(w, g)
  <2> SUFFICES ASSUME NEW n \in Names, w.label[n] # Unset, w.label[n].offset # 0
               PROVE  ToFilePos(w, w.label[n]) < g[w.label[n].item]
    BY DEF Held
  <2> DEFINE i == v.label[n].item
  <2>1. w.label = v.label
    BY DEF Moving
  <2>2. i \in Items /\ i \in Lists /\ v.label[n] \in Pointers
    BY <1>0, <2>1 DEF Whole, Shaped, Pointers, Lists
  <2>3. ToFilePos(v, v.label[n]) < end[i]
    BY <1>3, <2>1 DEF Held
  <2>4. ToFilePos(w, w.label[n]) = ToFilePos(v, v.label[n])
    BY <1>2, <2>1 DEF ToFilePos
  <2>5. CASE i # node
    BY <1>8, <2>1, <2>2, <2>3, <2>4, <2>5
  <2>6. CASE i = node
    <3> DEFINE q == ToFilePos(v, v.label[n])
               m == Len(v.own[c])
               x == v.position[node]
               o == v.label[n].offset
    <3>1. /\ m \in Nat /\ x \in Nat /\ o \in Nat /\ q = x + o
          /\ end[node] \in Nat /\ g[node] = end[node] + m
      <4>1. v.own[c] \in Seq(Nat) /\ x \in Nat
        BY <1>1, <1>22 DEF Adjoining
      <4>2. end[node] \in Nat
        BY <1>4, <1>6
      <4>3. g[node] = end[node] + m
        BY <1>8, <1>10, <1>11
      <4>4. o \in Nat /\ q = x + o
        BY <2>2, <2>6 DEF Pointers, ToFilePos
      <4>5. QED
        BY <4>1, <4>2, <4>3, <4>4
    <3>2. q < end[node]
      BY <2>3, <2>6
    <3> HIDE DEF q, m, x, o
    <3>3. q < g[node]
      BY <3>1, <3>2
    <3>4. QED
      BY <2>1, <2>4, <2>6, <3>3 DEF q
  <2>7. QED
    BY <2>5, <2>6
<1>17. EofEmpty(w)
  BY <1>2 DEF Layout, EofEmpty
<1>19. QED
  BY <1>13, <1>14, <1>15, <1>16, <1>17, <1>18 DEF Layout

Following(k, l) == k \in Nat /\ k # 0 /\ l = k + 1

(* What is cut off the front of an item is right behind what is before it.   *)
LEMMA SplitNext ==
  ASSUME NEW s, NEW v, NEW p, NEW k, NEW l, NEW r, NEW len, NEW new,
         NEW f, NEW kind, Splitting(s, v, p, l, r, 0, len, new, f, kind),
         Following(k, l)
  PROVE  /\ k \in 1 .. Len(v.kids[p]) /\ l \in 1 .. Len(v.kids[p])
         /\ v.kids[p][k] = s.kids[p][k] /\ v.kids[p][l] = new
<1> DEFINE seq == PiecesOf(r, 0, 0 + len, Len(s.own[r]), new, f)
           items == PieceItems(seq)
           list == s.kids[p]
           rest == v.kids[p]
<1>1. /\ CutFrom(s, v, p, l, r, seq, new, kind)
      /\ len \in Nat /\ Len(s.own[r]) \in Nat
  BY DEF Splitting
<1>2. /\ Whole(s, {}) /\ p \in Lists /\ l \in 1 .. Len(list)
      /\ Cutting(s, v, p, l, r, seq, new, kind)
  BY <1>1 DEF CutFrom
<1>3. list \in Seq(Items)
  BY <1>2 DEF Whole, Shaped
<1>4. rest = Spliced(list, l, items) /\ Pieces(seq, Len(s.own[r]))
  BY <1>2 DEF Cutting
<1>5. items \in Seq(Items) /\ Len(items) > 0 /\ items[1] = new
  <2>1. Len(seq) > 0 /\ seq[1][1] = new
    <3> HIDE DEF seq
    <3>1. /\ 0 = 0 /\ 0 + len = Len(s.own[r]) =>
               Len(seq) = 1 /\ seq[1][1] = new
          /\ 0 = 0 /\ 0 + len # Len(s.own[r]) =>
               Len(seq) = 2 /\ seq[1][1] = new
      BY PiecesAt DEF seq
    <3>2. QED
      BY <3>1
  <2> HIDE DEF seq
  <2>2. seq \in Seq(Items \X Nat)
    BY <1>4 DEF Pieces
  <2>3. items \in Seq(Items) /\ Len(items) = Len(seq) /\ items[1] = seq[1][1]
    <3>1. \A m \in DOMAIN seq : seq[m][1] \in Items
      BY <2>2
    <3>2. DOMAIN seq = 1 .. Len(seq) /\ Len(seq) \in Nat
      BY <2>2
    <3>3. QED
      BY <2>1, <3>1, <3>2 DEF PieceItems
  <2>4. QED
    BY <2>1, <2>3
<1> HIDE DEF seq, items, list, rest
<1>6. SpliceOf(rest, list, l, items)
  BY <1>2, <1>3, <1>4, <1>5, SplicedIs
<1>7. /\ Len(rest) = Len(list) - 1 + Len(items)
      /\ \A j \in 1 .. Len(rest) :
           rest[j] = IF j < l THEN list[j]
                     ELSE IF j < l + Len(items) THEN items[(j - l) + 1]
                     ELSE list[(j - Len(items)) + 1]
  BY <1>6 DEF SpliceOf
<1>8. /\ Len(list) \in Nat /\ Len(items) \in Nat
      /\ k \in Nat /\ k # 0 /\ l = k + 1
  BY <1>3, <1>5 DEF Following
<1>9. k \in 1 .. Len(rest) /\ l \in 1 .. Len(rest) /\ k < l
  BY <1>2, <1>5, <1>7, <1>8
<1>10. rest[k] = list[k]
  BY <1>7, <1>9
<1>11. rest[l] = items[1]
  <2>1. ~ (l < l) /\ l < l + Len(items) /\ (l - l) + 1 = 1
    BY <1>5, <1>8
  <2>2. QED
    BY <1>7, <1>9, <2>1
<1>12. QED
  BY <1>5, <1>9, <1>10, <1>11 DEF list, rest

(* ItemWithChildren::MoveNextToChild keeps the layout, and completes that of *)
(* a node that has no bytes of its own.                                      *)
LEMMA NestedLayout ==
  ASSUME NEW s, NEW node, NEW p, NEW k, NEW b, NEW size,
         Nestable(s, node, p, k, b, size), size > 0,
         Alone(s, b) \/ Taken(s, b),
         NEW w, w = MoveNextToChild(s, node, size),
         Layout(s, Root, Root) \/ Layout(s, b, node)
  PROVE  Layout(w, Root, Root) /\ Keeping(s, w)
<1> DEFINE c == Fresh(s)
           v == Split(s, b, 0, size, "raw")
           l == k + 1
<1>1. /\ Good(s) /\ Whole(s, {}) /\ Once(s.kids)
      /\ p \in Lists /\ k \in 1 .. Len(s.kids[p]) /\ k \in Nat /\ k # 0
      /\ l \in 1 .. Len(s.kids[p])
      /\ s.kids[p][k] = node /\ b = s.kids[p][l]
      /\ node \in Items /\ s.kind[node] = "node" /\ s.kids[node] = <<>>
      /\ b \in RawsOf(s) /\ Len(s.own[b]) > 0
      /\ size \in Nat /\ size <= Len(s.own[b]) /\ Free(s) # {}
      /\ b \in Items /\ s.kind[b] = "raw"
  <2>1. Good(s) /\ Beside(s, p, k, node, b)
    BY DEF Nestable
  <2>2. Whole(s, {}) /\ Once(s.kids)
    BY <2>1 DEF Good, Whole, Owned
  <2>3. /\ p \in Lists /\ k \in 1 .. Len(s.kids[p]) /\ l \in 1 .. Len(s.kids[p])
        /\ s.kids[p][k] = node /\ b = s.kids[p][l]
    BY <2>1 DEF Beside
  <2>4. /\ node \in Items /\ s.kind[node] = "node" /\ s.kids[node] = <<>>
        /\ b \in RawsOf(s) /\ Len(s.own[b]) > 0
        /\ size \in Nat /\ size <= Len(s.own[b]) /\ Free(s) # {}
    BY DEF Nestable
  <2>5. b \in Items /\ s.kind[b] = "raw"
    BY <2>4 DEF RawsOf
  <2>6. k \in Nat /\ k # 0
    BY <2>3
  <2> HIDE DEF v, c, l
  <2>7. QED
    BY <2>1, <2>2, <2>3, <2>4, <2>5, <2>6
<1>2. Parent(s, node) = p /\ Behind(s, node) = b
  <2>1. s.kids \in [Lists -> Seq(Items)]
    BY <1>1 DEF Whole, Shaped
  <2>2. Parent(s, node) = p /\ IndexIn(s.kids[p], node) = k
    BY <1>1, <2>1, Placed
  <2>3. QED
    BY <1>1, <2>2 DEF Behind
<1>3. w = Moved(v, node, c, p)
  BY <1>2 DEF MoveNextToChild, Applied
<1>4. PICK f \in Nat : Splitting(s, v, p, l, b, 0, size, c, f, "raw")
  <2>1. Cutable(s, b, 0, size)
    BY <1>1, SMTT(30) DEF Cutable
  <2> HIDE DEF v, c, l
  <2>2. QED
    BY <1>1, <2>1, SplitOf DEF v, c
<1>20. l = k + 1
  OBVIOUS
<1> HIDE DEF v, c, l
<1>5. Good(v)
  BY <1>1, <1>4, SplitGood
<1>6. /\ c \in Items /\ v.kind[c] = "raw" /\ Len(v.own[c]) = size
      /\ v.kids[c] = <<>> /\ c # p
      /\ \A q \in Lists : q # p => v.kids[q] = s.kids[q]
      /\ \A j \in Items :
           \/ j = b
           \/ j = c
           \/ j = f /\ 0 # 0 /\ 0 + size # Len(s.own[b])
           \/ /\ v.kind[j] = s.kind[j] /\ v.own[j] = s.own[j]
              /\ v.position[j] = s.position[j]
  BY <1>1, <1>4, SplitPlaces
<1>7. /\ k \in 1 .. Len(v.kids[p]) /\ l \in 1 .. Len(v.kids[p])
      /\ v.kids[p][k] = node /\ v.kids[p][l] = c
  <2>1. k \in Nat /\ k # 0 /\ s.kids[p][k] = node
    BY <1>1
  <2>2. Following(k, l)
    BY <1>20, <2>1 DEF Following
  <2>3. /\ k \in 1 .. Len(v.kids[p]) /\ l \in 1 .. Len(v.kids[p])
        /\ v.kids[p][k] = s.kids[p][k] /\ v.kids[p][l] = c
    BY <1>4, <2>2, SplitNext
  <2>4. QED
    BY <2>1, <2>3
<1>8. v.kids[node] = <<>> /\ v.kind[node] = "node"
  <2>1. node # b
    BY <1>1
  <2>2. node # c
    BY <1>1, <1>4 DEF Splitting, Free
  <2>3. node # p
    <3>1. ~ (k \in 1 .. Len(<<>>))
      OBVIOUS
    <3>2. QED
      BY <1>1, <3>1
  <2>4. QED
    BY <1>1, <1>6, <2>1, <2>2, <2>3 DEF Lists
<1>9. Adjoining(v, node, c, p, k, l)
  <2>1. Whole(v, {}) /\ v.position[c] \in Nat /\ v.position[node] \in Nat
    BY <1>1, <1>5, <1>6, <1>8 DEF Good, Regular
  <2>2. Len(v.own[c]) > 0
    BY <1>6
  <2>3. QED
    BY <1>1, <1>6, <1>7, <1>8, <1>20, <2>1, <2>2 DEF Adjoining
<1>10. Moving(v, w, node, c)
  BY <1>1, <1>3, <1>5, <1>7, <1>8, MovedFields DEF Good
<1>11. Relinked(v, w, node, c, p, l)
  BY <1>1, <1>3, <1>5, <1>7, <1>8, MovedKids DEF Good
<1>12. \E thin : (thin = Root \/ thin = node) /\ Layout(v, c, thin)
  <2>1. \A thin : /\ Layout(s, Root, thin) \/ Layout(s, b, thin)
                  /\ size > 0 /\ 0 = 0
                  => Layout(v, c, thin)
    BY <1>1, <1>4, SplitLayout
  <2>2. QED
    BY <2>1
<1>13. Layout(w, Root, Root)
  BY <1>9, <1>10, <1>11, <1>12, RelinkedLayout
<1>14. Keeping(s, v)
  BY <1>1, <1>4, SplitKeeping
<1>15. Keeping(v, w)
  BY <1>10, SameKeeping DEF Moving
<1>16. QED
  BY <1>13, <1>14, <1>15, KeepingOn

-----------------------------------------------------------------------------
(* The specification *)

(* The inductive invariant: at any time what is alive is owned, and while    *)
(* the file is parsed the raw items are where the pointer map has them.      *)
Inv ==
  /\ Whole(t, {})
  /\ phase = "parsing" => Parsing(t)

(* What is set up for the parser.                                            *)
LEMMA InitInv ==
  Init => Inv
<1> SUFFICES ASSUME Init PROVE Inv
  OBVIOUS
<1>1. t = Unparsed /\ Parsing(Unparsed)
  BY UnparsedIs DEF Init
<1>2. Parsing(t)
  BY <1>1
<1>3. QED
  BY <1>2 DEF Inv, Parsing, Good

(* Every operation keeps the invariant.                                      *)
LEMMA NextInv ==
  Inv /\ [Next]_vars => Inv'
<1> SUFFICES ASSUME Inv, [Next]_vars PROVE Inv'
  OBVIOUS
<1>1. Whole(t, {}) /\ (phase = "parsing" => Parsing(t))
  BY DEF Inv
<1>2. ASSUME Parsing(t'), phase' = phase PROVE Inv'
  BY <1>2 DEF Inv, Parsing, Good
<1>3. ASSUME Whole(t', {}), phase' # "parsing" PROVE Inv'
  BY <1>3 DEF Inv
<1>4. ASSUME NEW n \in Names, CreateLabel(n) PROVE Inv'
  <2>1. phase = "parsing" /\ phase' = phase
    BY <1>4 DEF CreateLabel
  <2>2. QED
    BY <1>1, <1>2, <1>4, <2>1, CreateLabelKeeps
<1>5. CASE CreateLeaf
  <2>1. phase = "parsing" /\ phase' = phase
    BY <1>5 DEF CreateLeaf
  <2>2. QED
    BY <1>1, <1>2, <1>5, <2>1, CreateLeafKeeps
<1>6. CASE CreateData
  <2>1. phase = "parsing" /\ phase' = phase
    BY <1>6 DEF CreateData
  <2>2. QED
    BY <1>1, <1>2, <1>6, <2>1, CreateDataKeeps
<1>7. CASE CreateExpansions
  <2>1. phase = "parsing" /\ phase' = phase
    BY <1>7 DEF CreateExpansions
  <2>2. QED
    BY <1>1, <1>2, <1>7, <2>1, CreateExpansionsKeeps
<1>8. CASE ReplaceEof
  <2>1. phase = "parsing" /\ phase' = phase
    BY <1>8 DEF ReplaceEof
  <2>2. QED
    BY <1>1, <1>2, <1>8, <2>1, ReplaceEofKeeps
<1>9. CASE ReadTxt
  <2>1. phase' # "parsing"
    BY <1>9 DEF ReadTxt
  <2>2. QED
    BY <1>1, <1>3, <1>9, <2>1, ReadTxtKeeps
<1>10. CASE Gc
  <2>1. phase' # "parsing"
    BY <1>10 DEF Gc
  <2>2. QED
    BY <1>1, <1>3, <1>10, <2>1, GcKeeps
<1>11. CASE Fixup
  <2>1. phase' # "parsing"
    BY <1>11 DEF Fixup
  <2>2. QED
    BY <1>1, <1>3, <1>11, <2>1, FixupKeeps
<1>12. CASE UNCHANGED vars
  <2>1. t' = t /\ phase' = phase
    BY <1>12 DEF vars
  <2>2. QED
    BY <1>1, <2>1 DEF Inv
<1>13. QED
  BY <1>4, <1>5, <1>6, <1>7, <1>8, <1>9, <1>10, <1>11, <1>12 DEF Next

(* In every state of every run the tree is whole.                            *)
THEOREM Invariant ==
  Spec => []Inv
<1>1. Init => Inv
  BY InitInv
<1>2. Inv /\ [Next]_vars => Inv'
  BY NextInv
<1>3. QED
  BY <1>1, <1>2, PTL DEF Spec

(* No list of children is longer than there are items.                       *)
LEMMA ListsFit ==
  ASSUME NEW kids, kids \in [Lists -> Seq(Items)], Once(kids), NEW p \in Lists,
         NEW k \in 1 .. Len(kids[p])
  PROVE  k \in 1 .. MaxItems /\ k \in DOMAIN kids[p]
<1> DEFINE list == kids[p]
           n == Len(list)
<1>1. list \in Seq(Items) /\ n \in Nat
  OBVIOUS
<1>2. list \in Injection(1 .. n, Items)
  <2>1. list \in [1 .. n -> Items]
    BY <1>1
  <2>2. \A i, j \in DOMAIN list : list[i] = list[j] => i = j
    <3>1. \A i, j \in 1 .. n : list[i] = list[j] => i = j
      BY DEF Once
    <3>2. DOMAIN list = 1 .. n
      BY <1>1
    <3>3. QED
      BY <3>1, <3>2
  <2>3. QED
    BY <2>1, <2>2 DEF Injection, IsInjective
<1> HIDE DEF list, n
<1>3. IsFiniteSet(Items) /\ Cardinality(Items) = MaxItems
  BY FS_Interval, ItemTreeAssumption DEF Items
<1>4. Cardinality(1 .. n) <= Cardinality(Items)
  BY <1>2, <1>3, FS_Injection
<1>5. Cardinality(1 .. n) = n
  BY <1>1, FS_Interval
<1>6. n <= MaxItems
  BY <1>3, <1>4, <1>5
<1>7. k \in 1 .. n
  BY DEF n, list
<1>8. k \in 1 .. MaxItems
  BY <1>1, <1>6, <1>7, ItemTreeAssumption
<1>9. QED
  BY <1>1, <1>7, <1>8 DEF list

(* ItemsOwned: an item that is alive is in one list of children, once.       *)
LEMMA WholeOwned ==
  ASSUME Whole(t, {})
  PROVE  ItemsOwned
<1> DEFINE places(i) ==
             {at \in ({Root} \union Items) \X (1 .. MaxItems) :
                at[2] \in DOMAIN t.kids[at[1]] /\ t.kids[at[1]][at[2]] = i}
<1>1. /\ t.kids \in [Lists -> Seq(Items)] /\ Once(t.kids)
      /\ \A i \in Items : Listed(t.kids, i) <=> t.kind[i] # "free"
      /\ \A n \in Names : t.label[n] # Unset => Listed(t.kids, t.label[n].item)
      /\ \A q \in DOMAIN t.pmap : Listed(t.kids, t.pmap[q])
  BY DEF Whole, Shaped, Owned
<1>2. \A p \in Lists : DOMAIN t.kids[p] = 1 .. Len(t.kids[p])
  BY <1>1
<1>3. ASSUME NEW i \in Items, t.kind[i] = "free"
      PROVE  Cardinality(places(i)) = 0
  <2>1. ASSUME NEW at \in places(i) PROVE FALSE
    <3>1. /\ at[1] \in Lists /\ at[2] \in 1 .. Len(t.kids[at[1]])
          /\ t.kids[at[1]][at[2]] = i
      BY <1>2 DEF Lists
    <3>2. QED
      BY <1>1, <1>3, <3>1 DEF Listed
  <2>2. places(i) = {}
    BY <2>1
  <2>3. QED
    BY <2>2, FS_EmptySet
<1>4. ASSUME NEW i \in Items, t.kind[i] # "free"
      PROVE  Cardinality(places(i)) = 1
  <2>1. PICK p \in Lists : \E k \in 1 .. Len(t.kids[p]) : t.kids[p][k] = i
    BY <1>1, <1>4 DEF Listed
  <2>2. PICK k \in 1 .. Len(t.kids[p]) : t.kids[p][k] = i
    BY <2>1
  <2>3. k \in 1 .. MaxItems /\ k \in DOMAIN t.kids[p]
    BY <1>1, ListsFit
  <2>4. <<p, k>> \in places(i)
    BY <2>2, <2>3 DEF Lists
  <2>5. ASSUME NEW at \in places(i) PROVE at = <<p, k>>
    <3>1. /\ at[1] \in Lists /\ at[2] \in 1 .. Len(t.kids[at[1]])
          /\ t.kids[at[1]][at[2]] = i /\ at = <<at[1], at[2]>>
      BY <1>2 DEF Lists
    <3>2. at[1] = p /\ at[2] = k
      BY <1>1, <2>2, <3>1 DEF Once
    <3>3. QED
      BY <3>1, <3>2
  <2> HIDE DEF places
  <2>6. places(i) = {<<p, k>>}
    BY <2>4, <2>5
  <2>7. QED
    BY <2>6, FS_Singleton
<1>5. ASSUME NEW i \in Items, t.kind[i] = "free"
      PROVE  i \notin Range(t.pmap) /\ LabelsOf(t, i) = {}
  <2>1. ~ Listed(t.kids, i)
    BY <1>1, <1>5
  <2>2. QED
    BY <1>1, <2>1 DEF Range, LabelsOf
<1>6. \A i \in Items :
        Cardinality(places(i)) = IF t.kind[i] = "free" THEN 0 ELSE 1
  BY <1>3, <1>4
<1>7. QED
  BY <1>5, <1>6 DEF ItemsOwned

(* The owners of the items, for every file: no item is lost or freed while a *)
(* list, a label or the pointer map has it.                                  *)
THEOREM Owners ==
  Spec => []ItemsOwned
<1>1. Inv => ItemsOwned
  BY WholeOwned DEF Inv
<1>2. QED
  BY <1>1, Invariant, PTL

(* UnparsedFound: GetPointer finds a raw item of the file at its bytes.      *)
LEMMA KeyedFound ==
  ASSUME Good(t), Keyed(t, Root)
  PROVE  UnparsedFound
<1>1. Whole(t, {}) /\ Regular(t) /\ Shaped(t) /\ Owned(t, {})
  BY DEF Good, Whole
<1>2. SUFFICES ASSUME NEW r \in Raws \intersect Range(t.kids[Root]),
                      NEW o \in 0 .. Len(t.own[r]) - 1
               PROVE  GetPointer(t, t.position[r] + o) = [item |-> r, offset |-> o]
  BY DEF UnparsedFound
<1> DEFINE pos == t.position[r]
           size == Len(t.own[r])
           at == pos + o
<1>3. /\ r \in Items /\ t.kind[r] = "raw" /\ r \in RawsOf(t) /\ r # Root
      /\ pos \in Nat /\ size \in Nat /\ EndOf(t, r) = pos + size
  BY <1>1 DEF Raws, RawsOf, Regular, Shaped, EndOf, Items, Root
<1>4. TopLevel(t, r)
  <2>1. t.kids \in [Lists -> Seq(Items)] /\ Root \in Lists
    BY <1>1 DEF Shaped, Lists
  <2>2. \E m \in 1 .. Len(t.kids[Root]) : t.kids[Root][m] = r
    <3>1. t.kids[Root] \in Seq(Items)
      BY <2>1
    <3>2. DOMAIN t.kids[Root] = 1 .. Len(t.kids[Root])
      BY <3>1
    <3>3. QED
      BY <3>2 DEF Range
  <2>3. QED
    BY <2>2 DEF TopLevel
<1>5. pos \in DOMAIN t.pmap /\ t.pmap[pos] = r
  BY <1>3, <1>4 DEF Keyed
<1>6. o \in Nat /\ o < size
  <2> HIDE DEF pos
  <2>1. o \in 0 .. size - 1
    OBVIOUS
  <2> HIDE DEF size
  <2>2. QED
    BY <1>3, <2>1
<1> HIDE DEF pos, size
<1>7. at \in Nat /\ pos <= at
  BY <1>3, <1>6
<1>8. /\ DOMAIN t.pmap \subseteq 0 .. Size /\ 0 \in DOMAIN t.pmap
  BY <1>1 DEF Shaped, Regular
<1> HIDE DEF at
<1>9. PICK key \in DOMAIN t.pmap :
        /\ key <= at /\ \A q \in DOMAIN t.pmap : q <= at => q <= key
        /\ GetPointer(t, at) = [item |-> t.pmap[key], offset |-> at - key]
  BY <1>7, <1>8, PointerOf
<1>10. key = pos
  <2> DEFINE i == t.pmap[key]
  <2>1. pos <= key /\ key \in Nat
    BY <1>5, <1>7, <1>8, <1>9, ItemTreeAssumption
  <2>2. i \in Items /\ t.position[i] = key /\ t.kind[i] # "free"
    BY <1>1 DEF Shaped, Owned
  <2>3. ASSUME key # pos PROVE FALSE
    <3>1. i # r
      BY <2>2, <2>3 DEF pos
    <3>2. key <= pos \/ pos + size <= key
      BY <1>1, <1>3, <2>2, <3>1 DEF Regular, Apart, pos
    <3> HIDE DEF i
    <3>3. QED
      BY <1>3, <1>6, <1>9, <2>1, <2>3, <3>2 DEF at
  <2>4. QED
    BY <2>3
<1>11. at - key = o
  BY <1>3, <1>6, <1>10 DEF at
<1>12. GetPointer(t, at) = [item |-> r, offset |-> o]
  BY <1>5, <1>9, <1>10, <1>11
<1>13. QED
  BY <1>12 DEF at, pos

(* What is not parsed yet is found, unless empty items occur: one that is    *)
(* cut out of a raw item takes its place in the pointer map.                 *)
THEOREM Finding ==
  ASSUME "empty" \notin Odd
  PROVE  Spec => []UnparsedFound
<1>1. Inv => UnparsedFound
  <2> SUFFICES ASSUME Inv, phase = "parsing" PROVE UnparsedFound
    BY DEF UnparsedFound
  <2>1. Good(t) /\ Keyed(t, Root)
    BY DEF Inv, Parsing
  <2>2. QED
    BY <2>1, KeyedFound
<1>2. QED
  BY <1>1, Invariant, PTL
==============================================================================
