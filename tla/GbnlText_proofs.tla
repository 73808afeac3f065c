--------------------------- MODULE GbnlText_proofs ---------------------------
(* Proofs about tables of texts, for every alphabet, every type of messages,  *)
(* every table and every text file: a table keeps its shape, a dump takes     *)
(* the size it was announced with and reads back as what was dumped, and an   *)
(* import changes the texts its file names to what the file says.             *)
EXTENDS GbnlText, TLAPS, WellFoundedInduction, FiniteSetTheorems

-----------------------------------------------------------------------------
(* Recursion *)

(* A set of numbers has a least one.                                         *)
LEMMA Least ==
    ASSUME NEW S, S \subseteq Nat, S # {}
    PROVE  \E m \in S : \A k \in S : m <= k
<1> DEFINE R == OpToRel(<, Nat)
<1>1. R = {p \in Nat \X Nat : p[1] < p[2]}
  BY DEF OpToRel
<1>2. IsWellFoundedOn(R, Nat)
  BY NatLessThanWellFounded
<1> HIDE DEF R
<1>3. PICK m \in S : \A k \in S : <<k, m>> \notin R
  BY <1>2, WFMin
<1>4. \A k \in S : ~(k < m)
  BY <1>1, <1>3
<1>5. QED
  BY <1>4

(* From an index and the value before it to the value at it. *)
Steps(V) == [Nat \X V -> V]

(* g is defined by its first value a and by a step. *)
Follows(g, n, a, step, V) ==
    /\ g \in [1 .. n -> V]
    /\ \A i \in 1 .. n : g[i] = IF i = 1 THEN a ELSE step[<<i, g[i - 1]>>]

(* A function is defined by its first value and by a step from each to the    *)
(* next: the least length for which it were not would be a step from the one  *)
(* before.                                                                    *)
LEMMA Recursion ==
    ASSUME NEW V, NEW n \in Nat, NEW a \in V, NEW step \in Steps(V)
    PROVE  \E g : Follows(g, n, a, step, V)
<1> DEFINE Bad == {m \in Nat : ~ \E g : Follows(g, m, a, step, V)}
<1> SUFFICES ASSUME Bad # {} PROVE FALSE
  OBVIOUS
<1>1. PICK m \in Bad : \A k \in Bad : m <= k
  <2>1. Bad \subseteq Nat
    OBVIOUS
  <2> HIDE DEF Bad
  <2>2. QED
    BY <2>1, Least
<1>2. m # 0
  <2> SUFFICES ASSUME m = 0 PROVE FALSE
    OBVIOUS
  <2>1. Follows([i \in 1 .. 0 |-> a], 0, a, step, V)
    BY DEF Follows
  <2>2. QED
    BY <1>1, <2>1
<1>3. m \in Nat /\ m - 1 \in Nat /\ m - 1 \notin Bad
  <2>1. Bad \subseteq Nat
    OBVIOUS
  <2> HIDE DEF Bad
  <2>2. m \in Nat \ {0}
    BY <1>1, <1>2, <2>1
  <2>3. m - 1 \in Nat /\ ~(m <= m - 1)
    BY <2>2
  <2>4. QED
    BY <1>1, <2>2, <2>3
<1>4. PICK g : Follows(g, m - 1, a, step, V)
  BY <1>3
<1> DEFINE last == IF m = 1 THEN a ELSE step[<<m, g[m - 1]>>]
           h == [i \in 1 .. m |-> IF i = m THEN last ELSE g[i]]
<1>5. last \in V
  <2>1. CASE m = 1
    BY <2>1
  <2>2. CASE m # 1
    <3>1. m - 1 \in 1 .. m - 1 /\ m \in Nat
      BY <1>1, <1>2, <2>2
    <3>2. <<m, g[m - 1]>> \in Nat \X V
      BY <1>4, <3>1 DEF Follows
    <3>3. QED
      BY <2>2, <3>2 DEF Steps
  <2>3. QED
    BY <2>1, <2>2
<1> HIDE DEF last
<1>6. h \in [1 .. m -> V]
  <2>1. ASSUME NEW i \in 1 .. m, i # m PROVE g[i] \in V
    <3>1. i \in 1 .. m - 1
      BY <1>3, <2>1
    <3>2. QED
      BY <1>4, <3>1 DEF Follows
  <2>2. QED
    BY <1>5, <2>1
<1>7. ASSUME NEW i \in 1 .. m
      PROVE  h[i] = IF i = 1 THEN a ELSE step[<<i, h[i - 1]>>]
  <2>1. CASE i = m
    <3>1. m # 1 => m - 1 \in 1 .. m /\ m - 1 # m
      BY <1>1, <1>2
    <3>2. QED
      BY <2>1, <3>1 DEF last
  <2>2. CASE i # m
    <3>1. i \in 1 .. m - 1 /\ (i # 1 => i - 1 \in 1 .. m /\ i - 1 # m)
      BY <1>1, <2>2
    <3>2. QED
      BY <1>4, <2>2, <3>1 DEF Follows
  <2>3. QED
    BY <2>1, <2>2
<1>8. Follows(h, m, a, step, V)
  BY <1>6, <1>7 DEF Follows
<1>9. QED
  BY <1>1, <1>8

(* A recursive function of the entries: what it starts with is kept by every  *)
(* step, so that it holds of all of them.                                     *)
LEMMA Induction ==
    ASSUME NEW n \in Nat, NEW S, 1 \in S, \A i \in 1 .. n : i \in S => i + 1 \in S
    PROVE  \A i \in 1 .. n + 1 : i \in S
<1> DEFINE Bad == {i \in 1 .. n + 1 : i \notin S}
<1> SUFFICES ASSUME Bad # {} PROVE FALSE
  OBVIOUS
<1>1. PICK m \in Bad : \A k \in Bad : m <= k
  <2>1. Bad \subseteq Nat
    OBVIOUS
  <2> HIDE DEF Bad
  <2>2. QED
    BY <2>1, Least
<1>2. m \in 1 .. n + 1 /\ m \notin S /\ m # 1
  BY <1>1
<1>3. m - 1 \in 1 .. n /\ m - 1 \in 1 .. n + 1 /\ ~(m <= m - 1) /\ m - 1 + 1 = m
  BY <1>2
<1>4. m - 1 \in S
  BY <1>1, <1>3
<1>5. QED
  BY <1>2, <1>3, <1>4

(* \o under a name, for the provers. *)
Join(x, y) == x \o y

(* A concatenation has the first sequence in place, the second behind it.    *)
LEMMA Joined ==
    ASSUME NEW V, NEW a \in Seq(V), NEW b \in Seq(V)
    PROVE  /\ Join(a, b) \in Seq(V) /\ Len(Join(a, b)) = Len(a) + Len(b)
           /\ \A i \in 1 .. Len(a) : i \in 1 .. Len(Join(a, b)) /\ Join(a, b)[i] = a[i]
           /\ \A j \in 1 .. Len(b) :
                Len(a) + j \in 1 .. Len(Join(a, b)) /\ Join(a, b)[Len(a) + j] = b[j]
BY DEF Join

(* at says where every one of n sequences begins when they follow each other. *)
Laid(V, n, seqs, at) ==
    /\ n \in Nat /\ seqs \in [1 .. n -> Seq(V)]
    /\ at \in [1 .. n + 1 -> Nat] /\ at[1] = 0
    /\ \A i \in 1 .. n : at[i + 1] = at[i] + Len(seqs[i])

(* list has each of the sequences where at says. *)
Joins(V, n, seqs, at, list) ==
    /\ list \in Seq(V)
    /\ Len(list) = at[n + 1]
    /\ \A i \in 1 .. n : \A j \in 1 .. Len(seqs[i]) :
         at[i] + j \in 1 .. Len(list) /\ list[at[i] + j] = seqs[i][j]

(* The concatenation of sequences has each of them where the lengths of those *)
(* before it say.                                                             *)
LEMMA Flattened ==
    ASSUME NEW V, NEW n, NEW seqs, NEW at, Laid(V, n, seqs, at)
    PROVE  Joins(V, n, seqs, at, FlattenSeq(seqs))
<1> SUFFICES ASSUME n \in Nat, seqs \in [1 .. n -> Seq(V)],
                    at \in [1 .. n + 1 -> Nat], at[1] = 0,
                    \A i \in 1 .. n : at[i + 1] = at[i] + Len(seqs[i])
             PROVE  /\ FlattenSeq(seqs) \in Seq(V)
                    /\ Len(FlattenSeq(seqs)) = at[n + 1]
                    /\ \A i \in 1 .. n : \A j \in 1 .. Len(seqs[i]) :
                         /\ at[i] + j \in 1 .. Len(FlattenSeq(seqs))
                         /\ FlattenSeq(seqs)[at[i] + j] = seqs[i][j]
  BY DEF Laid, Joins
<1>1. seqs \in Seq(Seq(V)) /\ Len(seqs) = n
  OBVIOUS
<1>2. CASE n = 0
  <2>1. FlattenSeq(seqs) = seqs /\ Len(seqs) = 0 /\ 1 .. n = {}
    BY <1>1, <1>2 DEF FlattenSeq
  <2>2. seqs = <<>>
    BY <1>1, <2>1
  <2>3. QED
    BY <1>2, <2>1, <2>2
<1>3. CASE n # 0
  <2> DEFINE step == [p \in Nat \X Seq(V) |->
                        IF p[1] \in 1 .. n THEN p[2] \o seqs[p[1]] ELSE <<>>]
  <2>1. step \in Steps(Seq(V))
    <3>1. ASSUME NEW p \in Nat \X Seq(V), p[1] \in 1 .. n PROVE p[2] \o seqs[p[1]] \in Seq(V)
      <4>1. p[2] \in Seq(V) /\ seqs[p[1]] \in Seq(V)
        BY <3>1
      <4>2. QED
        BY <4>1
    <3>2. QED
      BY <3>1 DEF Steps
  <2>2. seqs[1] \in Seq(V) /\ 1 \in 1 .. n
    BY <1>3
  <2>3. PICK flat : Follows(flat, n, seqs[1], step, Seq(V))
    <3> HIDE DEF step
    <3>1. QED
      BY <2>1, <2>2, Recursion
  <2>4. \A i \in 1 .. n : flat[i] = IF i = 1 THEN seqs[i] ELSE Join(flat[i - 1], seqs[i])
    <3> SUFFICES ASSUME NEW i \in 1 .. n, i # 1 PROVE flat[i] = Join(flat[i - 1], seqs[i])
      BY <2>3 DEF Follows
    <3>1. i - 1 \in 1 .. n /\ i \in Nat
      OBVIOUS
    <3> DEFINE x == flat[i - 1]
    <3>2. x \in Seq(V) /\ flat[i] = step[<<i, x>>]
      <4> HIDE DEF step
      <4>1. flat \in [1 .. n -> Seq(V)]
        BY <2>3 DEF Follows
      <4>2. flat[i] = step[<<i, flat[i - 1]>>]
        BY <2>3 DEF Follows
      <4>3. QED
        BY <3>1, <4>1, <4>2
    <3> HIDE DEF x
    <3>3. <<i, x>> \in Nat \X Seq(V)
      BY <3>1, <3>2
    <3>4. step[<<i, x>>] = Join(x, seqs[i])
      BY <3>3 DEF Join
    <3>5. QED
      BY <3>2, <3>4 DEF x
  <2>5. flat \in [1 .. n -> Seq(V)]
    BY <2>3 DEF Follows
  <2>6. flat = [i \in 1 .. n |-> IF i = 1 THEN seqs[i] ELSE flat[i - 1] \o seqs[i]]
    BY <2>4, <2>5 DEF Join
  <2>7. FlattenSeq(seqs) = flat[n]
    <3> DEFINE F == CHOOSE f : f = [i \in 1 .. Len(seqs) |->
                                      IF i = 1 THEN seqs[i] ELSE f[i - 1] \o seqs[i]]
    <3>1. FlattenSeq(seqs) = F[n]
      BY <1>1, <1>3 DEF FlattenSeq
    <3>2. flat = [i \in 1 .. Len(seqs) |->
                    IF i = 1 THEN seqs[i] ELSE flat[i - 1] \o seqs[i]]
      BY <1>1, <2>6, Zenon
    <3>3. F = [i \in 1 .. Len(seqs) |-> IF i = 1 THEN seqs[i] ELSE F[i - 1] \o seqs[i]]
      BY <3>2, Zenon
    <3> HIDE DEF F
    <3>4. \A i \in 1 .. n : F[i] = IF i = 1 THEN seqs[i] ELSE Join(F[i - 1], seqs[i])
      BY <1>1, <3>3 DEF Join
    <3> DEFINE Same == {i \in 1 .. n : F[i] = flat[i]}
    <3>5. 1 \in Same
      BY <2>2, <2>4, <3>4
    <3>6. ASSUME NEW i \in 1 .. n - 1, i \in Same PROVE i + 1 \in Same
      <4>1. i + 1 \in 1 .. n /\ i + 1 # 1 /\ i + 1 - 1 = i
        OBVIOUS
      <4> DEFINE k == i + 1
      <4> HIDE DEF k
      <4>2. k \in 1 .. n /\ k # 1 /\ k - 1 = i
        BY <4>1 DEF k
      <4>3. F[k] = Join(F[k - 1], seqs[k]) /\ flat[k] = Join(flat[k - 1], seqs[k])
        BY <2>4, <3>4, <4>2
      <4>4. QED
        BY <3>6, <4>2, <4>3 DEF k
    <3>7. n - 1 \in Nat /\ n - 1 + 1 = n /\ n \in 1 .. n
      BY <1>3
    <3>8. n \in Same
      <4> HIDE DEF Same
      <4>1. \A i \in 1 .. n - 1 + 1 : i \in Same
        BY <3>5, <3>6, <3>7, Induction
      <4>2. QED
        BY <3>7, <4>1
    <3>9. QED
      BY <3>1, <3>8
  <2> HIDE DEF step
  <2> DEFINE S == {i \in 1 .. n :
                     /\ Len(flat[i]) = at[i + 1]
                     /\ \A k \in 1 .. i : \A j \in 1 .. Len(seqs[k]) :
                          /\ at[k] + j \in 1 .. Len(flat[i])
                          /\ flat[i][at[k] + j] = seqs[k][j]}
  <2>8. 1 \in S
    <3>1. flat[1] = seqs[1] /\ Len(seqs[1]) \in Nat /\ at[2] = Len(seqs[1])
      BY <2>2, <2>4
    <3>2. ASSUME NEW k \in 1 .. 1, NEW j \in 1 .. Len(seqs[k])
          PROVE  at[k] + j \in 1 .. Len(flat[1]) /\ flat[1][at[k] + j] = seqs[k][j]
      <4>1. k = 1 /\ 0 + j = j /\ at[k] = 0
        BY <3>1
      <4>2. QED
        BY <3>1, <4>1
    <3>3. QED
      BY <2>2, <3>1, <3>2
  <2>9. ASSUME NEW i \in 1 .. n - 1, i \in S PROVE i + 1 \in S
    <3>1. i + 1 \in 1 .. n /\ i \in 1 .. n /\ i + 1 # 1 /\ i + 1 - 1 = i /\ i + 1 + 1 \in 1 .. n + 1
          /\ i + 1 \in 1 .. n + 1
      OBVIOUS
    <3> DEFINE x == flat[i]
               y == seqs[i + 1]
    <3>2. x \in Seq(V) /\ y \in Seq(V) /\ flat[i + 1] = Join(x, y) /\ Len(x) = at[i + 1]
          /\ at[i + 1 + 1] = at[i + 1] + Len(y) /\ at[i + 1] \in Nat
      <4>1. x \in Seq(V) /\ y \in Seq(V) /\ at[i + 1] \in Nat
        BY <2>5, <3>1
      <4>2. flat[i + 1] = Join(x, y)
        BY <2>4, <3>1
      <4>3. Len(x) = at[i + 1] /\ at[i + 1 + 1] = at[i + 1] + Len(y)
        BY <2>9, <3>1
      <4>4. QED
        BY <4>1, <4>2, <4>3
    <3>a. /\ Len(Join(x, y)) = Len(x) + Len(y)
          /\ \A k \in 1 .. Len(x) : k \in 1 .. Len(Join(x, y)) /\ Join(x, y)[k] = x[k]
          /\ \A j \in 1 .. Len(y) :
               Len(x) + j \in 1 .. Len(Join(x, y)) /\ Join(x, y)[Len(x) + j] = y[j]
      <4> HIDE DEF x, y
      <4>1. x \in Seq(V) /\ y \in Seq(V)
        BY <3>2
      <4>2. QED
        BY <4>1, Joined, SMTT(30)
    <3>3. ASSUME NEW k \in 1 .. i + 1, NEW j \in 1 .. Len(seqs[k])
          PROVE  at[k] + j \in 1 .. Len(Join(x, y)) /\ Join(x, y)[at[k] + j] = seqs[k][j]
      <4>1. k \in 1 .. n /\ at[k] \in Nat /\ j \in Nat
        BY <3>1, SMTT(30)
      <4>2. CASE k = i + 1
        <5>1. at[k] = Len(x) /\ seqs[k] = y /\ j \in 1 .. Len(y)
          BY <3>2, <3>3, <4>2
        <5> HIDE DEF x, y
        <5>2. Len(x) + j \in 1 .. Len(Join(x, y)) /\ Join(x, y)[Len(x) + j] = y[j]
          BY <3>2, <5>1, <3>a
        <5>3. QED
          BY <5>1, <5>2
      <4>3. CASE k # i + 1
        <5>1. k \in 1 .. i
          BY <4>3
        <5>2. at[k] + j \in 1 .. Len(x) /\ x[at[k] + j] = seqs[k][j]
          BY <2>9, <5>1
        <5> DEFINE q == at[k] + j
        <5> HIDE DEF x, y, q
        <5>3. q \in 1 .. Len(Join(x, y)) /\ Join(x, y)[q] = x[q]
          BY <3>2, <5>2, <3>a DEF q
        <5>4. QED
          BY <5>2, <5>3 DEF q
      <4>4. QED
        BY <4>2, <4>3
    <3>4. Len(Join(x, y)) = at[i + 1 + 1]
      <4> HIDE DEF x, y
      <4>1. QED
        BY <3>2, <3>a
    <3>5. /\ Len(flat[i + 1]) = at[i + 1 + 1]
          /\ \A k \in 1 .. i + 1 : \A j \in 1 .. Len(seqs[k]) :
               at[k] + j \in 1 .. Len(flat[i + 1]) /\ flat[i + 1][at[k] + j] = seqs[k][j]
      <4> HIDE DEF x, y
      <4>1. QED
        BY <3>2, <3>3, <3>4
    <3>6. QED
      BY <3>1, <3>5
  <2>10. n \in S
    <3> HIDE DEF S
    <3>1. n - 1 \in Nat /\ n - 1 + 1 = n
      BY <1>3
    <3>2. \A i \in 1 .. n - 1 + 1 : i \in S
      BY <2>8, <2>9, <3>1, Induction
    <3>3. QED
      BY <1>3, <3>1, <3>2
  <2>11. n \in 1 .. n /\ flat[n] \in Seq(V)
    BY <1>3, <2>5
  <2>12. QED
    BY <2>7, <2>10, <2>11
<1>4. QED
  BY <1>2, <1>3

-----------------------------------------------------------------------------
(* Sums *)

(* Adding up lengths one after the other. *)
LEMMA SumsStep ==
    ASSUME NEW n \in Nat, NEW s \in [1 .. n -> Nat]
    PROVE  /\ Sums(s) \in [1 .. n + 1 -> Nat]
           /\ Sums(s)[1] = 0
           /\ \A i \in 1 .. n : Sums(s)[i + 1] = Sums(s)[i] + s[i]
<1> DEFINE step == [p \in Nat \X Nat |->
                      IF p[1] - 1 \in 1 .. n THEN p[2] + s[p[1] - 1] ELSE 0]
<1>1. step \in Steps(Nat)
  <2>1. ASSUME NEW p \in Nat \X Nat, p[1] - 1 \in 1 .. n
        PROVE  p[2] + s[p[1] - 1] \in Nat
    <3>1. p[2] \in Nat /\ s[p[1] - 1] \in Nat
      BY <2>1
    <3>2. QED
      BY <3>1
  <2>2. QED
    BY <2>1 DEF Steps
<1>2. PICK g : Follows(g, n + 1, 0, step, Nat)
  <2> HIDE DEF step
  <2> DEFINE k == n + 1
  <2>1. k \in Nat
    OBVIOUS
  <2> HIDE DEF k
  <2>2. \E g : Follows(g, k, 0, step, Nat)
    BY <1>1, <2>1, Recursion
  <2>3. QED
    BY <2>2 DEF k
<1>3. g \in [1 .. n + 1 -> Nat]
  BY <1>2 DEF Follows
<1>4. \A i \in 1 .. n + 1 : g[i] = IF i = 1 THEN 0 ELSE g[i - 1] + s[i - 1]
  <2> SUFFICES ASSUME NEW i \in 1 .. n + 1 PROVE g[i] = IF i = 1 THEN 0 ELSE g[i - 1] + s[i - 1]
    OBVIOUS
  <2>1. g[i] = IF i = 1 THEN 0 ELSE step[<<i, g[i - 1]>>]
    <3> HIDE DEF step
    <3>1. QED
      BY <1>2 DEF Follows
  <2>2. ASSUME i # 1 PROVE step[<<i, g[i - 1]>>] = g[i - 1] + s[i - 1]
    <3>1. i - 1 \in 1 .. n /\ i - 1 \in 1 .. n + 1 /\ i \in Nat
      BY <2>2
    <3>2. <<i, g[i - 1]>> \in Nat \X Nat
      BY <1>3, <3>1
    <3>3. QED
      BY <3>1, <3>2
  <2>3. QED
    BY <2>1, <2>2
<1>5. g = [i \in 1 .. n + 1 |-> IF i = 1 THEN 0 ELSE g[i - 1] + s[i - 1]]
  BY <1>3, <1>4
<1>6. Len(s) = n
  OBVIOUS
<1>7. Sums(s) = [i \in 1 .. n + 1 |-> IF i = 1 THEN 0 ELSE Sums(s)[i - 1] + s[i - 1]]
  <2> DEFINE sum == CHOOSE f : f = [k \in 1 .. Len(s) + 1 |->
                                      IF k = 1 THEN 0 ELSE f[k - 1] + s[k - 1]]
  <2>1. Sums(s) = sum
    BY DEF Sums
  <2>2. g = [i \in 1 .. Len(s) + 1 |-> IF i = 1 THEN 0 ELSE g[i - 1] + s[i - 1]]
    BY <1>5, <1>6, Zenon
  <2>3. sum = [i \in 1 .. Len(s) + 1 |-> IF i = 1 THEN 0 ELSE sum[i - 1] + s[i - 1]]
    BY <2>2, Zenon
  <2> HIDE DEF sum
  <2>4. QED
    BY <1>6, <2>1, <2>3, Zenon
<1> DEFINE f == Sums(s)
<1>8. \A i \in 1 .. n + 1 : f[i] = IF i = 1 THEN 0 ELSE f[i - 1] + s[i - 1]
  <2> HIDE DEF f
  <2>1. f = [i \in 1 .. n + 1 |-> IF i = 1 THEN 0 ELSE f[i - 1] + s[i - 1]]
    BY <1>7 DEF f
  <2>2. QED
    BY <2>1
<1> HIDE DEF f
<1>9. f[1] = 0 /\ g[1] = 0
  BY <1>4, <1>8
<1>10. \A i \in 1 .. n : f[i + 1] = f[i] + s[i] /\ g[i + 1] = g[i] + s[i]
  <2> SUFFICES ASSUME NEW i \in 1 .. n PROVE f[i + 1] = f[i] + s[i] /\ g[i + 1] = g[i] + s[i]
    OBVIOUS
  <2> DEFINE k == i + 1
  <2>1. k \in 1 .. n + 1 /\ k # 1 /\ k - 1 = i
    OBVIOUS
  <2> HIDE DEF k
  <2>2. f[k] = f[i] + s[i] /\ g[k] = g[i] + s[i]
    BY <1>4, <1>8, <2>1
  <2>3. QED
    BY <2>2 DEF k
<1>11. \A i \in 1 .. n + 1 : f[i] = g[i]
  <2>1. \A i \in 1 .. n : f[i] = g[i] => f[i + 1] = g[i + 1]
    BY <1>10
  <2>2. f[1] = g[1]
    BY <1>9
  <2> DEFINE Same == {i \in 1 .. n + 1 : f[i] = g[i]}
  <2>3. 1 \in Same /\ \A i \in 1 .. n : i \in Same => i + 1 \in Same
    BY <2>1, <2>2
  <2> HIDE DEF Same
  <2>4. \A i \in 1 .. n + 1 : i \in Same
    BY <2>3, Induction
  <2>5. QED
    BY <2>4 DEF Same
<1>12. f = [i \in 1 .. n + 1 |-> f[i]]
  BY <1>7 DEF f
<1>13. f \in [1 .. n + 1 -> Nat]
  BY <1>3, <1>11, <1>12
<1>14. QED
  BY <1>9, <1>10, <1>13 DEF f

(* A function that no step makes smaller grows. *)
LEMMA Growing ==
    ASSUME NEW n \in Nat, NEW f \in [1 .. n + 1 -> Nat],
           \A i \in 1 .. n : f[i] <= f[i + 1]
    PROVE  \A i \in 1 .. n + 1 : \A j \in 1 .. i : f[j] <= f[i]
<1> DEFINE S == {i \in 1 .. n + 1 : \A j \in 1 .. i : f[j] <= f[i]}
<1>1. 1 \in S
  OBVIOUS
<1>2. ASSUME NEW i \in 1 .. n, i \in S PROVE i + 1 \in S
  <2>1. i + 1 \in 1 .. n + 1 /\ f[i] \in Nat /\ f[i + 1] \in Nat
    OBVIOUS
  <2>2. ASSUME NEW j \in 1 .. i + 1 PROVE f[j] <= f[i + 1]
    <3>1. CASE j = i + 1
      BY <2>1, <3>1
    <3>2. CASE j # i + 1
      <4>1. j \in 1 .. i /\ f[j] \in Nat
        BY <3>2
      <4>2. QED
        BY <1>2, <2>1, <4>1
    <3>3. QED
      BY <3>1, <3>2
  <2>3. QED
    BY <2>1, <2>2
<1> HIDE DEF S
<1>3. \A i \in 1 .. n + 1 : i \in S
  BY <1>1, <1>2, Induction
<1>4. QED
  BY <1>3 DEF S

(* What is added before an index is not more than what is added before a      *)
(* later one.                                                                 *)
LEMMA SumsGrow ==
    ASSUME NEW n \in Nat, NEW s \in [1 .. n -> Nat],
           NEW i \in 1 .. n + 1, NEW j \in 1 .. n + 1, i <= j
    PROVE  Sums(s)[i] \in Nat /\ Sums(s)[j] \in Nat /\ Sums(s)[i] <= Sums(s)[j]
<1> DEFINE f == Sums(s)
<1>1. f \in [1 .. n + 1 -> Nat] /\ \A k \in 1 .. n : f[k + 1] = f[k] + s[k]
  BY SumsStep
<1> HIDE DEF f
<1>2. \A k \in 1 .. n : f[k] <= f[k + 1]
  <2> SUFFICES ASSUME NEW k \in 1 .. n PROVE f[k] <= f[k + 1]
    OBVIOUS
  <2>1. f[k] \in Nat /\ s[k] \in Nat
    BY <1>1
  <2>2. QED
    BY <1>1, <2>1
<1>3. f[i] <= f[j]
  <2>1. i \in 1 .. j
    OBVIOUS
  <2>2. QED
    BY <1>1, <1>2, <2>1, Growing
<1>4. QED
  BY <1>1, <1>3 DEF f

-----------------------------------------------------------------------------
(* Tables *)

(* The cell of field i of message j. *)
Cell(g, j, i) == (j - 1) * Width(g) + i

(* The parts of a table. *)
LEMMA TableParts ==
    ASSUME NEW g, IsTable(g)
    PROVE  /\ Width(g) \in Nat /\ DOMAIN g.type = 1 .. Width(g)
           /\ Len(g.messages) \in Nat /\ DOMAIN g.messages = 1 .. Len(g.messages)
           /\ g.type \in Seq([kind : {"int", "float", "str", "fix", "pad"},
                              size : Nat \ {0}])
           /\ \A j \in DOMAIN g.messages :
                /\ DOMAIN g.messages[j] = DOMAIN g.type
                /\ \A i \in DOMAIN g.type : IsValue(g.type[i], g.messages[j][i])
<1>1. g.type \in Seq([kind : {"int", "float", "str", "fix", "pad"}, size : Nat \ {0}])
  BY DEF IsTable, IsType
<1>2. g.messages \in Seq(ToSet(g.messages))
  BY DEF IsTable
<1>3. Len(g.messages) \in Nat /\ DOMAIN g.messages = 1 .. Len(g.messages)
  <2> DEFINE S == ToSet(g.messages)
  <2> HIDE DEF S
  <2>1. g.messages \in Seq(S)
    BY <1>2 DEF S
  <2>2. QED
    BY <2>1
<1>4. QED
  BY <1>1, <1>3 DEF IsTable, Width

(* Division with remainder. *)
LEMMA Division ==
    ASSUME NEW w \in Nat \ {0}, NEW k \in Nat
    PROVE  /\ k = w * (k \div w) + (k % w)
           /\ k % w \in 0 .. w - 1 /\ k \div w \in Nat
BY SMT

(* Quotient and remainder are determined. *)
LEMMA OneDivision ==
    ASSUME NEW w \in Nat \ {0}, NEW p \in Nat, NEW q \in Nat,
           NEW r \in 0 .. w - 1, NEW s \in 0 .. w - 1, w * p + r = w * q + s
    PROVE  p = q /\ r = s
<1>1. CASE p < q
  <2>1. w * (p + 1) <= w * q
    BY <1>1
  <2>2. w * (p + 1) = w * p + w
    OBVIOUS
  <2>3. QED
    BY <2>1, <2>2
<1>2. CASE q < p
  <2>1. w * (q + 1) <= w * p
    BY <1>2
  <2>2. w * (q + 1) = w * q + w
    OBVIOUS
  <2>3. QED
    BY <2>1, <2>2
<1>3. QED
  BY <1>1, <1>2

(* A row that begins before the end is one of the rows.                      *)
LEMMA RowsBelow ==
    ASSUME NEW w \in Nat \ {0}, NEW n \in Nat, NEW q \in Nat, NEW r \in 0 .. w - 1
    PROVE  (w * q + r < w * n) <=> q < n
<1>1. ASSUME q < n PROVE w * q + r < w * n
  <2>1. w * (q + 1) <= w * n
    BY <1>1
  <2>2. w * (q + 1) = w * q + w
    OBVIOUS
  <2>3. QED
    BY <2>1, <2>2
<1>2. ASSUME q >= n PROVE w * q >= w * n
  BY <1>2
<1>3. w * q \in Nat /\ w * n \in Nat
  OBVIOUS
<1>4. QED
  BY <1>1, <1>2, <1>3

(* A cell is a field of a message. *)
LEMMA CellOf ==
    ASSUME NEW g, IsTable(g), NEW k \in Cells(g)
    PROVE  /\ Row(g, k) \in DOMAIN g.messages /\ Column(g, k) \in DOMAIN g.type
           /\ k = Cell(g, Row(g, k), Column(g, k))
           /\ k \in Nat \ {0}
<1> DEFINE w == Width(g)
           n == Len(g.messages)
<1>1. w \in Nat /\ n \in Nat /\ DOMAIN g.type = 1 .. w /\ DOMAIN g.messages = 1 .. n
  BY TableParts
<1>2. k \in 1 .. w * n
  BY DEF Cells
<1> DEFINE q == (k - 1) \div w
           r == (k - 1) % w
<1>3. Row(g, k) = q + 1 /\ Column(g, k) = r + 1 /\ Cell(g, Row(g, k), Column(g, k)) = (Row(g, k) - 1) * w + Column(g, k)
  BY DEF Row, Column, Cell
<1> HIDE DEF w, n
<1>4. w # 0
  BY <1>1, <1>2
<1>5. k - 1 = w * q + r /\ r \in 0 .. w - 1 /\ q \in Nat /\ k \in Nat \ {0}
  <2> DEFINE m == k - 1
  <2>1. m \in Nat /\ k \in Nat \ {0}
    BY <1>1, <1>2
  <2> HIDE DEF m
  <2>2. m = w * (m \div w) + (m % w) /\ m % w \in 0 .. w - 1 /\ m \div w \in Nat
    BY <1>1, <1>4, <2>1, Division
  <2>3. QED
    BY <2>1, <2>2 DEF m
<1> HIDE DEF q, r
<1>6. w * q + r < w * n
  <2>1. w * n \in Nat
    BY <1>1
  <2>2. QED
    BY <1>2, <1>5, <2>1
<1>7. q < n
  BY <1>1, <1>4, <1>5, <1>6, RowsBelow
<1>8. q + 1 \in 1 .. n /\ r + 1 \in 1 .. w
  BY <1>1, <1>5, <1>7
<1>9. k = q * w + (r + 1) /\ q + 1 - 1 = q
  <2>1. w * q = q * w /\ w * q \in Nat
    BY <1>1, <1>5
  <2>2. QED
    BY <1>5, <2>1
<1>10. QED
  BY <1>1, <1>3, <1>5, <1>8, <1>9

(* A field of a message is a cell. *)
LEMMA CellAt ==
    ASSUME NEW g, IsTable(g), NEW j \in DOMAIN g.messages, NEW i \in DOMAIN g.type
    PROVE  /\ Cell(g, j, i) \in Cells(g)
           /\ Row(g, Cell(g, j, i)) = j /\ Column(g, Cell(g, j, i)) = i
<1> DEFINE w == Width(g)
           n == Len(g.messages)
           k == Cell(g, j, i)
<1>1. w \in Nat \ {0} /\ n \in Nat /\ i \in 1 .. w /\ j \in 1 .. n
  BY TableParts
<1>2. k = (j - 1) * w + i /\ Cells(g) = 1 .. w * n
  BY DEF Cell, Cells
<1> HIDE DEF w, n
<1> DEFINE q == j - 1
           r == i - 1
<1>3. q \in Nat /\ r \in 0 .. w - 1 /\ q < n
  BY <1>1
<1>4. k - 1 = w * q + r
  <2>1. (j - 1) * w = w * q
    BY <1>1, <1>3
  <2>2. w * q \in Nat
    BY <1>1, <1>3
  <2>3. QED
    BY <1>1, <1>2, <2>1, <2>2
<1> HIDE DEF q, r, k
<1>5. w * q + r < w * n /\ w * q + r \in Nat /\ w * n \in Nat
  <2>1. w * q \in Nat
    BY <1>1, <1>3
  <2>2. QED
    BY <1>1, <1>3, <2>1, RowsBelow
<1>6. k \in 1 .. w * n /\ k - 1 \in Nat
  <2>1. k \in Int
    BY <1>1, <1>2, <1>3 DEF k, Cell, w
  <2>2. QED
    BY <1>4, <1>5, <2>1
<1>7. (k - 1) \div w = q /\ (k - 1) % w = r
  <2> DEFINE m == k - 1
  <2>1. m \in Nat
    BY <1>6
  <2> HIDE DEF m
  <2>2. m = w * (m \div w) + (m % w) /\ m % w \in 0 .. w - 1 /\ m \div w \in Nat
    BY <1>1, <2>1, Division
  <2> DEFINE p == m \div w
             s == m % w
  <2> HIDE DEF p, s
  <2>3. p \in Nat /\ s \in 0 .. w - 1 /\ w * p + s = w * q + r
    BY <1>4, <2>2 DEF m, p, s
  <2>4. p = q /\ s = r
    BY <1>1, <1>3, <2>3, OneDivision
  <2>5. QED
    BY <2>4 DEF m, p, s
<1>8. Row(g, k) = (k - 1) \div w + 1 /\ Column(g, k) = ((k - 1) % w) + 1
  BY DEF Row, Column, w
<1>9. Row(g, k) = j /\ Column(g, k) = i
  BY <1>1, <1>7, <1>8 DEF q, r
<1>10. QED
  BY <1>2, <1>6, <1>9 DEF k

-----------------------------------------------------------------------------
(* Places of strings *)

(* A field that holds a string. *)
LEMMA StringValue ==
    ASSUME NEW g, IsTable(g), NEW j \in DOMAIN g.messages, NEW i \in DOMAIN g.type,
           g.type[i].kind = "str"
    PROVE  /\ g.messages[j][i] \in [str : Seq(Char), offset : Nat \cup {Null}]
           /\ g.messages[j][i].offset = Null => g.messages[j][i].str = <<>>
<1>1. IsValue(g.type[i], g.messages[j][i])
  BY TableParts
<1>2. QED
  BY <1>1 DEF IsValue

(* A text is a string with a place. *)
LEMMA TextValue ==
    ASSUME NEW g, IsTable(g), NEW k \in Texts(g)
    PROVE  /\ k \in Cells(g) /\ k \in Nat /\ IsString(g, k)
           /\ Value(g, k) \in [str : Seq(Char), offset : Nat]
           /\ Value(g, k).str \in Seq(Char) /\ Len(Value(g, k).str) \in Nat
<1>1. k \in Cells(g) /\ IsString(g, k) /\ Value(g, k).offset # Null
  BY DEF Texts
<1>2. Row(g, k) \in DOMAIN g.messages /\ Column(g, k) \in DOMAIN g.type /\ k \in Nat
  BY <1>1, CellOf
<1>3. Value(g, k) \in [str : Seq(Char), offset : Nat \cup {Null}]
  BY <1>1, <1>2, StringValue DEF IsString, Value
<1> DEFINE v == Value(g, k)
<1>4. v \in [str : Seq(Char), offset : Nat \cup {Null}] /\ v.offset # Null
  BY <1>1, <1>3
<1> HIDE DEF v
<1>5. v \in [str : Seq(Char), offset : Nat] /\ v.str \in Seq(Char)
  BY <1>4
<1>6. Len(v.str) \in Nat
  BY <1>5
<1>7. QED
  BY <1>1, <1>2, <1>5, <1>6 DEF v

(* What the string of a cell takes, if it is written there. *)
Taken(g) == [k \in Cells(g) |-> IF k \in Firsts(g) THEN Len(Value(g, k).str) + 1 ELSE 0]

(* The number of the cells. *)
Ended(g) == Width(g) * Len(g.messages)

(* The cells are counted from one. *)
LEMMA CellsCounted ==
    ASSUME NEW g, IsTable(g)
    PROVE  Ended(g) \in Nat /\ Cells(g) = 1 .. Ended(g)
<1>1. Width(g) \in Nat /\ Len(g.messages) \in Nat
  BY TableParts
<1> DEFINE w == Width(g)
           n == Len(g.messages)
<1>2. w \in Nat /\ n \in Nat
  BY <1>1
<1> HIDE DEF w, n
<1>3. w * n \in Nat
  BY <1>2
<1>4. QED
  BY <1>3 DEF Cells, Ended, w, n

(* Only the first of equal strings takes place. *)
LEMMA TakenType ==
    ASSUME NEW g, IsTable(g)
    PROVE  /\ Taken(g) \in [1 .. Ended(g) -> Nat]
           /\ Places(g) = Sums(Taken(g))
           /\ \A k \in Cells(g) : Taken(g)[k] = IF k \in Firsts(g) THEN Len(Value(g, k).str) + 1 ELSE 0
<1>1. ASSUME NEW k \in Firsts(g) PROVE Len(Value(g, k).str) + 1 \in Nat
  <2>1. k \in Texts(g)
    BY DEF Firsts
  <2>2. Len(Value(g, k).str) \in Nat
    BY <2>1, TextValue
  <2>3. QED
    BY <2>2
<1>2. Cells(g) = 1 .. Ended(g)
  BY CellsCounted
<1>3. QED
  BY <1>1, <1>2 DEF Taken, Places

(* The places follow one another. *)
LEMMA PlacesStep ==
    ASSUME NEW g, IsTable(g)
    PROVE  /\ Places(g) \in [1 .. Ended(g) + 1 -> Nat]
           /\ Places(g)[1] = 0
           /\ \A k \in 1 .. Ended(g) :
                Places(g)[k + 1] = Places(g)[k] + (IF k \in Firsts(g) THEN Len(Value(g, k).str) + 1 ELSE 0)
<1> DEFINE n == Ended(g)
           s == Taken(g)
<1>1. n \in Nat /\ s \in [1 .. n -> Nat] /\ Places(g) = Sums(s) /\ Cells(g) = 1 .. n
  BY CellsCounted, TakenType
<1>2. \A k \in 1 .. n : s[k] = IF k \in Firsts(g) THEN Len(Value(g, k).str) + 1 ELSE 0
  BY <1>1, TakenType
<1> HIDE DEF n, s
<1>3. /\ Sums(s) \in [1 .. n + 1 -> Nat] /\ Sums(s)[1] = 0
      /\ \A k \in 1 .. n : Sums(s)[k + 1] = Sums(s)[k] + s[k]
  BY <1>1, SumsStep
<1>4. QED
  BY <1>1, <1>2, <1>3 DEF n

(* Behind the place of a first string there is room for it. *)
LEMMA PlacesApart ==
    ASSUME NEW g, IsTable(g), NEW k \in Cells(g), NEW l \in 1 .. Ended(g) + 1, k < l
    PROVE  /\ Places(g)[k] \in Nat /\ Places(g)[l] \in Nat
           /\ Places(g)[k] <= Places(g)[l]
           /\ k \in Firsts(g) => Places(g)[k] < Places(g)[l]
<1> DEFINE n == Ended(g)
           s == Taken(g)
<1>1. n \in Nat /\ s \in [1 .. n -> Nat] /\ Places(g) = Sums(s) /\ k \in 1 .. n
  BY CellsCounted, TakenType
<1>2. Places(g)[k + 1] = Places(g)[k] + (IF k \in Firsts(g) THEN Len(Value(g, k).str) + 1 ELSE 0)
  BY <1>1, PlacesStep
<1>3. k \in Firsts(g) => Len(Value(g, k).str) \in Nat
  BY TextValue DEF Firsts
<1> HIDE DEF n, s
<1> DEFINE m == k + 1
<1>4. m \in 1 .. n + 1 /\ l \in 1 .. n + 1 /\ m <= l /\ k \in 1 .. n + 1 /\ k <= l
  BY <1>1 DEF n
<1> HIDE DEF m
<1>5. Sums(s)[m] \in Nat /\ Sums(s)[l] \in Nat /\ Sums(s)[m] <= Sums(s)[l]
  BY <1>1, <1>4, SumsGrow
<1>6. Sums(s)[k] \in Nat /\ Sums(s)[k] <= Sums(s)[l]
  BY <1>1, <1>4, SumsGrow
<1> DEFINE p == Places(g)[k]
           q == Places(g)[m]
           r == Places(g)[l]
           len == Len(Value(g, k).str)
<1>7. p \in Nat /\ q \in Nat /\ r \in Nat /\ q <= r /\ p <= r
  BY <1>1, <1>5, <1>6
<1>8. k \in Firsts(g) => q = p + (len + 1) /\ len \in Nat
  BY <1>2, <1>3 DEF m
<1> HIDE DEF p, q, r, len
<1>9. k \in Firsts(g) => p < r
  BY <1>7, <1>8
<1>10. QED
  BY <1>7, <1>9 DEF p, r

(* Equal strings have one first among them. *)
LEMMA FirstOf ==
    ASSUME NEW g, IsTable(g), NEW k \in Texts(g)
    PROVE  \E l \in Firsts(g) :
             /\ Value(g, l).str = Value(g, k).str /\ l <= k
             /\ l \in Cells(g) /\ (k \in Firsts(g) => l = k)
             /\ Place(g, Value(g, k).str) = Places(g)[l]
<1> DEFINE S == {l \in Texts(g) : Value(g, l).str = Value(g, k).str}
<1>1. S \subseteq Nat /\ k \in S
  BY TextValue
<1>2. PICK l \in S : \A m \in S : l <= m
  <2> HIDE DEF S
  <2>1. QED
    BY <1>1, Least
<1>3. l \in Texts(g) /\ l \in Firsts(g) /\ l <= k /\ l \in Cells(g) /\ l \in Nat
  BY <1>1, <1>2, TextValue DEF Firsts
<1>4. ASSUME NEW m \in Firsts(g), Value(g, m).str = Value(g, k).str PROVE m = l
  <2>1. m \in Texts(g) /\ m \in Nat
    BY TextValue DEF Firsts
  <2>2. m <= l /\ l <= m
    BY <1>2, <1>3, <1>4, <2>1 DEF Firsts
  <2>3. QED
    BY <1>3, <2>1, <2>2
<1>5. (CHOOSE m \in Firsts(g) : Value(g, m).str = Value(g, k).str) = l
  <2> DEFINE c == CHOOSE m \in Firsts(g) : Value(g, m).str = Value(g, k).str
  <2>1. Value(g, l).str = Value(g, k).str
    BY <1>2
  <2>2. c \in Firsts(g) /\ Value(g, c).str = Value(g, k).str
    BY <1>3, <2>1, Zenon
  <2>3. QED
    BY <1>4, <2>2, Zenon
<1>6. Place(g, Value(g, k).str) = Places(g)[l]
  BY <1>5, Zenon DEF Place
<1>7. k \in Firsts(g) => l = k
  BY <1>4
<1>8. QED
  BY <1>2, <1>3, <1>6, <1>7

-----------------------------------------------------------------------------
(* RecalcSize *)

(* Two tables that differ in the places of their strings only. *)
SameTexts(g, h) ==
    /\ h.type = g.type /\ DOMAIN h.messages = DOMAIN g.messages
    /\ Len(h.messages) = Len(g.messages)
    /\ \A j \in DOMAIN g.messages : \A i \in DOMAIN g.type :
         /\ g.type[i].kind = "str" =>
              /\ h.messages[j][i].str = g.messages[j][i].str
              /\ h.messages[j][i].offset = Null <=> g.messages[j][i].offset = Null
         /\ g.type[i].kind # "str" => h.messages[j][i] = g.messages[j][i]

(* The place that a text of a table gets. *)
LEMMA TextOfCell ==
    ASSUME NEW g, IsTable(g), NEW j \in DOMAIN g.messages, NEW i \in DOMAIN g.type,
           g.type[i].kind = "str", g.messages[j][i].offset # Null
    PROVE  /\ Cell(g, j, i) \in Texts(g)
           /\ Value(g, Cell(g, j, i)) = g.messages[j][i]
           /\ Place(g, g.messages[j][i].str) \in Nat
<1>1. Cell(g, j, i) \in Cells(g) /\ Row(g, Cell(g, j, i)) = j /\ Column(g, Cell(g, j, i)) = i
  BY CellAt
<1>2. Value(g, Cell(g, j, i)) = g.messages[j][i]
  BY <1>1 DEF Value
<1>3. Cell(g, j, i) \in Texts(g)
  BY <1>1, <1>2 DEF Texts, IsString
<1>4. PICK l \in Firsts(g) : l \in Cells(g) /\ Place(g, g.messages[j][i].str) = Places(g)[l]
  BY <1>2, <1>3, FirstOf
<1>5. l \in 1 .. Ended(g) /\ Ended(g) \in Nat
  BY <1>4, CellsCounted
<1>6. l \in 1 .. Ended(g) + 1
  BY <1>5
<1>7. Places(g)[l] \in Nat
  BY <1>6, PlacesStep
<1>8. QED
  BY <1>2, <1>3, <1>4, <1>7

(* A function of the numbers up to n is a sequence of what it has. *)
LEMMA SequenceOf ==
    ASSUME NEW n \in Nat, NEW f, f = [j \in 1 .. n |-> f[j]]
    PROVE  f \in Seq(ToSet(f)) /\ Len(f) = n /\ DOMAIN f = 1 .. n
<1>1. DOMAIN f = 1 .. n
  OBVIOUS
<1> DEFINE S == ToSet(f)
<1>2. \A j \in 1 .. n : f[j] \in S
  BY <1>1 DEF ToSet
<1> HIDE DEF S
<1>3. f \in [1 .. n -> S]
  BY <1>2
<1>4. f \in Seq(S) /\ Len(f) = n
  BY <1>3
<1>5. QED
  BY <1>1, <1>4 DEF S

(* The parts of a table whose size was calculated. *)
LEMMA Recalculated ==
    ASSUME NEW g, IsTable(g)
    PROVE  /\ DOMAIN RecalcSize(g) = {"gstl", "fix_k", "type", "messages", "msgs_size"}
           /\ RecalcSize(g).gstl = g.gstl /\ RecalcSize(g).fix_k = g.fix_k
           /\ RecalcSize(g).type = g.type
           /\ RecalcSize(g).messages = Placed(g)
           /\ RecalcSize(g).msgs_size = Places(g)[Ended(g) + 1]
           /\ RecalcSize(g).msgs_size \in Nat
<1>1. DOMAIN g = {"gstl", "fix_k", "type", "messages", "msgs_size"}
  BY DEF IsTable
<1> DEFINE m == Placed(g)
           p == Places(g)[Ended(g) + 1]
<1>2. RecalcSize(g) = [g EXCEPT !.messages = m, !.msgs_size = p]
  BY DEF RecalcSize, Ended
<1>3. p \in Nat
  <2>1. Ended(g) \in Nat /\ Places(g) \in [1 .. Ended(g) + 1 -> Nat]
    BY CellsCounted, PlacesStep
  <2>2. QED
    BY <2>1
<1> HIDE DEF m, p
<1>4. QED
  BY <1>1, <1>2, <1>3 DEF m, p

(* It has the same values in the same fields, and the strings their places.  *)
LEMMA RecalcSame ==
    ASSUME NEW g, IsTable(g)
    PROVE  /\ SameTexts(g, RecalcSize(g))
           /\ RecalcSize(g).messages \in Seq(ToSet(RecalcSize(g).messages))
           /\ \A j \in DOMAIN g.messages :
                /\ DOMAIN RecalcSize(g).messages[j] = DOMAIN g.type
                /\ \A i \in DOMAIN g.type :
                     g.type[i].kind = "str" /\ g.messages[j][i].offset # Null =>
                       RecalcSize(g).messages[j][i] =
                         [str |-> g.messages[j][i].str,
                          offset |-> Place(g, g.messages[j][i].str)]
<1> DEFINE m == Placed(g)
           n == Len(g.messages)
<1>1. n \in Nat /\ DOMAIN g.messages = 1 .. n
  BY TableParts
<1>2. m = [j \in 1 .. n |-> m[j]]
  BY <1>1 DEF Placed
<1>3. m \in Seq(ToSet(m)) /\ Len(m) = n /\ DOMAIN m = 1 .. n
  <2> HIDE DEF m, n
  <2>1. QED
    BY <1>1, <1>2, SequenceOf
<1>4. ASSUME NEW j \in DOMAIN g.messages
      PROVE  /\ DOMAIN m[j] = DOMAIN g.type
             /\ \A i \in DOMAIN g.type :
                  m[j][i] = IF g.type[i].kind = "str" /\ g.messages[j][i].offset # Null
                            THEN [g.messages[j][i] EXCEPT !.offset = Place(g, g.messages[j][i].str)]
                            ELSE g.messages[j][i]
  BY DEF Placed
<1>5. RecalcSize(g).messages = m /\ RecalcSize(g).type = g.type
  BY Recalculated
<1> HIDE DEF m, n
<1>6. ASSUME NEW j \in DOMAIN g.messages, NEW i \in DOMAIN g.type,
             g.type[i].kind = "str", g.messages[j][i].offset # Null
      PROVE  /\ m[j][i] = [str |-> g.messages[j][i].str, offset |-> Place(g, g.messages[j][i].str)]
             /\ m[j][i].str = g.messages[j][i].str
             /\ m[j][i].offset # Null
  <2> DEFINE v == g.messages[j][i]
             p == Place(g, g.messages[j][i].str)
  <2>1. v \in [str : Seq(Char), offset : Nat \cup {Null}]
    BY <1>6, StringValue
  <2>2. p \in Nat
    BY <1>6, TextOfCell
  <2>3. m[j][i] = [v EXCEPT !.offset = p]
    BY <1>4, <1>6
  <2> HIDE DEF v, p
  <2>4. m[j][i] = [str |-> v.str, offset |-> p]
    BY <2>1, <2>3
  <2>5. m[j][i].str = v.str /\ m[j][i].offset = p /\ p # Null
    BY <2>2, <2>4 DEF Null
  <2>6. QED
    BY <2>4, <2>5 DEF v, p
<1>7. ASSUME NEW j \in DOMAIN g.messages, NEW i \in DOMAIN g.type,
             ~(g.type[i].kind = "str" /\ g.messages[j][i].offset # Null)
      PROVE  m[j][i] = g.messages[j][i]
  BY <1>4, <1>7
<1>8. SameTexts(g, RecalcSize(g))
  <2>1. ASSUME NEW j \in DOMAIN g.messages, NEW i \in DOMAIN g.type
        PROVE  /\ g.type[i].kind = "str" =>
                    /\ m[j][i].str = g.messages[j][i].str
                    /\ m[j][i].offset = Null <=> g.messages[j][i].offset = Null
               /\ g.type[i].kind # "str" => m[j][i] = g.messages[j][i]
    <3>1. CASE g.type[i].kind = "str" /\ g.messages[j][i].offset # Null
      BY <1>6, <3>1
    <3>2. CASE ~(g.type[i].kind = "str" /\ g.messages[j][i].offset # Null)
      <4>1. m[j][i] = g.messages[j][i]
        BY <1>7, <3>2
      <4>2. QED
        BY <3>2, <4>1, Zenon
    <3>3. QED
      BY <3>1, <3>2, Zenon
  <2>2. DOMAIN m = DOMAIN g.messages /\ Len(m) = Len(g.messages)
    BY <1>1, <1>3 DEF n
  <2>3. QED
    BY <1>5, <2>1, <2>2 DEF SameTexts
<1>9. QED
  BY <1>3, <1>4, <1>5, <1>6, <1>8

(* It is a table again. *)
LEMMA RecalcTable ==
    ASSUME NEW g, IsTable(g)
    PROVE  IsTable(RecalcSize(g))
<1> DEFINE h == RecalcSize(g)
<1>1. /\ DOMAIN h = {"gstl", "fix_k", "type", "messages", "msgs_size"}
      /\ h.gstl = g.gstl /\ h.fix_k = g.fix_k /\ h.type = g.type /\ h.msgs_size \in Nat
  BY Recalculated
<1>2. SameTexts(g, h) /\ h.messages \in Seq(ToSet(h.messages))
  BY RecalcSame
<1>3. ASSUME NEW j \in DOMAIN h.messages
      PROVE  /\ DOMAIN h.messages[j] = DOMAIN h.type
             /\ \A i \in DOMAIN h.type : IsValue(h.type[i], h.messages[j][i])
  <2>1. j \in DOMAIN g.messages
    BY <1>2 DEF SameTexts
  <2>2. DOMAIN h.messages[j] = DOMAIN h.type
    BY <1>1, <2>1, RecalcSame
  <2>3. ASSUME NEW i \in DOMAIN g.type PROVE IsValue(g.type[i], h.messages[j][i])
    <3>0. IsValue(g.type[i], g.messages[j][i])
      BY <2>1, TableParts
    <3>1. CASE g.type[i].kind = "str" /\ g.messages[j][i].offset # Null
      <4> DEFINE v == g.messages[j][i]
                 p == Place(g, g.messages[j][i].str)
      <4>1. h.messages[j][i] = [str |-> v.str, offset |-> p]
        BY <2>1, <3>1, RecalcSame
      <4>2. v.str \in Seq(Char) /\ p \in Nat
        <5>1. v \in [str : Seq(Char), offset : Nat \cup {Null}]
          BY <2>1, <3>1, StringValue
        <5>2. p \in Nat
          BY <2>1, <3>1, TextOfCell
        <5> HIDE DEF v, p
        <5>3. QED
          BY <5>1, <5>2
      <4> HIDE DEF v, p
      <4>3. QED
        BY <3>1, <4>1, <4>2 DEF IsValue, Null
    <3>2. CASE g.type[i].kind = "str" /\ g.messages[j][i].offset = Null
      <4>1. h.messages[j][i] = g.messages[j][i]
        <5>1. h.messages = Placed(g)
          BY Recalculated
        <5>2. QED
          BY <2>1, <3>2, <5>1 DEF Placed
      <4>2. QED
        BY <3>0, <4>1
    <3>3. CASE g.type[i].kind # "str"
      <4>1. h.messages[j][i] = g.messages[j][i]
        BY <1>2, <2>1, <3>3 DEF SameTexts
      <4>2. QED
        BY <3>0, <4>1
    <3>4. QED
      BY <3>1, <3>2, <3>3
  <2>4. QED
    BY <1>1, <2>2, <2>3
<1>4. g.gstl \in BOOLEAN /\ g.fix_k \in Nat /\ IsType(g.type)
  BY DEF IsTable
<1> HIDE DEF h
<1>5. IsTable(h)
  BY <1>1, <1>2, <1>3, <1>4 DEF IsTable
<1>6. QED
  BY <1>5 DEF h

(* The values of the cells of such tables. *)
LEMMA SameCells ==
    ASSUME NEW g, NEW h, IsTable(g), IsTable(h), SameTexts(g, h)
    PROVE  /\ Cells(h) = Cells(g) /\ Ended(h) = Ended(g)
           /\ \A k \in Cells(g) :
                /\ Row(h, k) = Row(g, k) /\ Column(h, k) = Column(g, k)
                /\ IsString(h, k) = IsString(g, k)
                /\ IsString(g, k) =>
                     /\ Value(h, k).str = Value(g, k).str
                     /\ Value(h, k).offset = Null <=> Value(g, k).offset = Null
<1>1. h.type = g.type /\ Len(h.messages) = Len(g.messages)
  BY DEF SameTexts
<1>2. Width(h) = Width(g)
  BY <1>1 DEF Width
<1>3. Cells(h) = Cells(g) /\ Ended(h) = Ended(g)
  BY <1>1, <1>2 DEF Cells, Ended
<1>4. \A k : Row(h, k) = Row(g, k) /\ Column(h, k) = Column(g, k)
  BY <1>2 DEF Row, Column
<1>5. ASSUME NEW k \in Cells(g), IsString(g, k)
      PROVE  /\ Value(h, k).str = Value(g, k).str
             /\ Value(h, k).offset = Null <=> Value(g, k).offset = Null
  <2>1. Row(g, k) \in DOMAIN g.messages /\ Column(g, k) \in DOMAIN g.type
    BY CellOf
  <2>2. g.type[Column(g, k)].kind = "str"
    BY <1>5 DEF IsString
  <2>3. Value(h, k) = h.messages[Row(g, k)][Column(g, k)] /\ Value(g, k) = g.messages[Row(g, k)][Column(g, k)]
    BY <1>4 DEF Value
  <2>4. QED
    BY <2>1, <2>2, <2>3 DEF SameTexts
<1>6. \A k : IsString(h, k) = IsString(g, k)
  BY <1>1, <1>4 DEF IsString
<1>7. QED
  BY <1>3, <1>4, <1>5, <1>6

(* Their strings get the same places. *)
LEMMA SamePlaces ==
    ASSUME NEW g, NEW h, IsTable(g), IsTable(h), SameTexts(g, h)
    PROVE  /\ Texts(h) = Texts(g) /\ Firsts(h) = Firsts(g) /\ Places(h) = Places(g)
           /\ \A k \in Texts(g) :
                Place(h, Value(g, k).str) = Place(g, Value(g, k).str)
<1>1. Cells(h) = Cells(g) /\ Ended(h) = Ended(g)
  BY SameCells
<1>2. ASSUME NEW k \in Cells(g)
      PROVE  /\ IsString(h, k) = IsString(g, k)
             /\ IsString(g, k) =>
                  /\ Value(h, k).str = Value(g, k).str
                  /\ Value(h, k).offset = Null <=> Value(g, k).offset = Null
  BY SameCells
<1>3. Texts(h) = Texts(g)
  BY <1>1, <1>2 DEF Texts
<1>4. \A k \in Texts(g) : k \in Cells(g) /\ Value(h, k).str = Value(g, k).str
  BY <1>2 DEF Texts
<1>5. Firsts(h) = Firsts(g)
  BY <1>3, <1>4 DEF Firsts
<1>6. \A k \in Firsts(g) : Value(h, k).str = Value(g, k).str
  BY <1>4 DEF Firsts
<1>7. Taken(h) = Taken(g)
  BY <1>1, <1>5, <1>6 DEF Taken
<1>8. Places(h) = Places(g)
  BY <1>7, TakenType
<1>9. ASSUME NEW k \in Texts(g)
      PROVE  Place(h, Value(g, k).str) = Place(g, Value(g, k).str)
  <2>1. PICK l \in Firsts(g) : /\ Value(g, l).str = Value(g, k).str
                               /\ Place(g, Value(g, k).str) = Places(g)[l]
    BY FirstOf
  <2>2. PICK m \in Firsts(h) : /\ Value(h, m).str = Value(h, k).str
                               /\ Place(h, Value(h, k).str) = Places(h)[m]
    BY <1>3, FirstOf
  <2>3. l \in Texts(g) /\ m \in Texts(g) /\ l \in Nat /\ m \in Nat /\ m \in Firsts(g)
    BY <1>5, <2>1, <2>2, TextValue DEF Firsts
  <2>4. Value(g, m).str = Value(g, k).str /\ Place(h, Value(g, k).str) = Places(g)[m]
    BY <1>4, <1>8, <1>9, <2>2, <2>3
  <2>5. l <= m /\ m <= l
    BY <2>1, <2>3, <2>4 DEF Firsts
  <2>6. l = m
    BY <2>3, <2>5
  <2>7. QED
    BY <2>1, <2>4, <2>6
<1>10. QED
  BY <1>3, <1>5, <1>8, <1>9

(* Rows of values. *)
Grid(D, E, p) ==
    p = [j \in D |-> p[j]] /\ \A j \in D : p[j] = [i \in E |-> p[j][i]]

(* Two grids are the same when all their values are. *)
LEMMA SameGrid ==
    ASSUME NEW D, NEW E, NEW p, NEW q, Grid(D, E, p), Grid(D, E, q),
           \A j \in D : \A i \in E : q[j][i] = p[j][i]
    PROVE  q = p
<1>1. ASSUME NEW j \in D PROVE q[j] = p[j]
  <2> DEFINE x == p[j]
             y == q[j]
  <2>1. x = [i \in E |-> x[i]] /\ y = [i \in E |-> y[i]] /\ \A i \in E : y[i] = x[i]
    BY DEF Grid
  <2> HIDE DEF x, y
  <2>2. x = y
    BY <2>1
  <2>3. QED
    BY <2>2 DEF x, y
<1>2. p = [j \in D |-> p[j]] /\ q = [j \in D |-> q[j]]
  BY DEF Grid
<1>3. QED
  BY <1>1, <1>2

(* The messages of a table whose strings have their places are one.          *)
LEMMA PlacedGrid ==
    ASSUME NEW g
    PROVE  Grid(DOMAIN g.messages, DOMAIN g.type, Placed(g))
<1> DEFINE p == Placed(g)
           D == DOMAIN g.messages
           E == DOMAIN g.type
<1> DEFINE V(j, i) == IF g.type[i].kind = "str" /\ g.messages[j][i].offset # Null
                     THEN [g.messages[j][i] EXCEPT !.offset = Place(g, g.messages[j][i].str)]
                     ELSE g.messages[j][i]
<1>0. p = [j \in D |-> [i \in E |-> V(j, i)]]
  BY Zenon DEF Placed
<1> HIDE DEF V, p
<1>1. p = [j \in D |-> p[j]]
  BY <1>0
<1>2. ASSUME NEW j \in D PROVE p[j] = [i \in E |-> p[j][i]]
  BY <1>0
<1> HIDE DEF p, D, E
<1>3. Grid(D, E, p)
  BY <1>1, <1>2 DEF Grid
<1>4. QED
  BY <1>3 DEF p, D, E

(* So that nothing tells them apart when their sizes were calculated.        *)
LEMMA SameSize ==
    ASSUME NEW g, NEW h, IsTable(g), IsTable(h), SameTexts(g, h),
           h.gstl = g.gstl, h.fix_k = g.fix_k
    PROVE  RecalcSize(h) = RecalcSize(g)
<1>1. /\ h.type = g.type /\ DOMAIN h.messages = DOMAIN g.messages
      /\ Texts(h) = Texts(g) /\ Places(h) = Places(g) /\ Ended(h) = Ended(g)
  BY SamePlaces, SameCells DEF SameTexts
<1>2. ASSUME NEW j \in DOMAIN g.messages, NEW i \in DOMAIN g.type
      PROVE  Placed(h)[j][i] = Placed(g)[j][i]
  <2> DEFINE v == g.messages[j][i]
             w == h.messages[j][i]
  <2>1. Placed(g)[j][i] = IF g.type[i].kind = "str" /\ v.offset # Null
                          THEN [v EXCEPT !.offset = Place(g, v.str)] ELSE v
    BY DEF Placed
  <2>2. Placed(h)[j][i] = IF g.type[i].kind = "str" /\ w.offset # Null
                          THEN [w EXCEPT !.offset = Place(h, w.str)] ELSE w
    BY <1>1 DEF Placed
  <2>3. CASE g.type[i].kind # "str"
    <3>1. w = v
      BY <2>3 DEF SameTexts
    <3>2. QED
      BY <2>1, <2>2, <2>3, <3>1
  <2>4. CASE g.type[i].kind = "str"
    <3>1. /\ v \in [str : Seq(Char), offset : Nat \cup {Null}]
          /\ v.offset = Null => v.str = <<>>
      BY <2>4, StringValue
    <3>2. /\ w \in [str : Seq(Char), offset : Nat \cup {Null}]
          /\ w.offset = Null => w.str = <<>>
      BY <1>1, <2>4, StringValue
    <3>3. w.str = v.str /\ (w.offset = Null <=> v.offset = Null)
      BY <2>4 DEF SameTexts
    <3>4. CASE v.offset = Null
      <4> HIDE DEF v, w
      <4>1. w = v
        BY <3>1, <3>2, <3>3, <3>4
      <4>2. QED
        BY <2>1, <2>2, <3>3, <3>4, <4>1
    <3>5. CASE v.offset # Null
      <4>1. Cell(g, j, i) \in Texts(g) /\ Value(g, Cell(g, j, i)) = v
        BY <2>4, <3>5, TextOfCell
      <4>2. Place(h, v.str) = Place(g, v.str)
        BY <4>1, SamePlaces
      <4> DEFINE p == Place(g, v.str)
      <4>3. Placed(g)[j][i] = [v EXCEPT !.offset = p]
        BY <2>1, <2>4, <3>5
      <4>4. Placed(h)[j][i] = [w EXCEPT !.offset = p]
        BY <2>2, <2>4, <3>3, <3>5, <4>2
      <4> HIDE DEF p, v, w
      <4>5. [v EXCEPT !.offset = p] = [w EXCEPT !.offset = p]
        BY <3>1, <3>2, <3>3
      <4>6. QED
        BY <4>3, <4>4, <4>5
    <3>6. QED
      BY <3>4, <3>5
  <2>5. QED
    BY <2>3, <2>4
<1>3. Placed(h) = Placed(g)
  <2> DEFINE p == Placed(g)
             q == Placed(h)
  <2> DEFINE D == DOMAIN g.messages
             E == DOMAIN g.type
  <2>1. Grid(D, E, p) /\ Grid(D, E, q)
    BY <1>1, PlacedGrid
  <2>2. \A j \in D : \A i \in E : q[j][i] = p[j][i]
    BY <1>2
  <2> HIDE DEF p, q, D, E
  <2>3. q = p
    BY <2>1, <2>2, SameGrid
  <2>4. QED
    BY <2>3 DEF p, q
<1>4. DOMAIN g = DOMAIN h /\ DOMAIN g = {"gstl", "fix_k", "type", "messages", "msgs_size"}
  BY DEF IsTable
<1> DEFINE m == Placed(g)
           s == Places(g)[Ended(g) + 1]
<1>5. RecalcSize(g) = [g EXCEPT !.messages = m, !.msgs_size = s]
  BY DEF RecalcSize, Ended
<1>6. RecalcSize(h) = [h EXCEPT !.messages = m, !.msgs_size = s]
  BY <1>1, <1>3 DEF RecalcSize, Ended
<1> HIDE DEF m, s
<1>7. [g EXCEPT !.messages = m, !.msgs_size = s] = [h EXCEPT !.messages = m, !.msgs_size = s]
  BY <1>1, <1>4
<1>8. QED
  BY <1>5, <1>6, <1>7

(* Dump_ writes the strings that were counted, where they were counted.      *)
LEMMA WalkIsPlaces ==
    ASSUME NEW g, IsTable(g)
    PROVE  \A k \in 1 .. Ended(g) + 1 : Walk(RecalcSize(g))[k] = Places(g)[k]
<1> DEFINE h == RecalcSize(g)
           n == Ended(g)
           p == Places(g)
<1>1. /\ IsTable(h) /\ SameTexts(g, h) /\ Ended(h) = n /\ Cells(h) = Cells(g)
      /\ n \in Nat /\ Cells(g) = 1 .. n
  BY RecalcTable, RecalcSame, SameCells, CellsCounted
<1>2. /\ p \in [1 .. n + 1 -> Nat] /\ p[1] = 0
      /\ \A k \in 1 .. n : p[k + 1] = p[k] + (IF k \in Firsts(g) THEN Len(Value(g, k).str) + 1 ELSE 0)
  BY PlacesStep
<1>3. ASSUME NEW k \in 1 .. n
      PROVE  p[k + 1] = IF IsString(h, k) /\ Value(h, k).offset = p[k]
                        THEN p[k] + Len(Value(h, k).str) + 1 ELSE p[k]
  <2>1. /\ k \in Cells(g) /\ IsString(h, k) = IsString(g, k)
        /\ IsString(g, k) => Value(h, k).str = Value(g, k).str
        /\ Row(h, k) = Row(g, k) /\ Column(h, k) = Column(g, k)
    BY <1>1, SameCells
  <2>2. p[k] \in Nat
    <3>1. k \in 1 .. n + 1
      BY <1>1
    <3> HIDE DEF p, n
    <3>2. QED
      BY <1>2, <3>1
  <2>3. CASE ~IsString(g, k)
    <3>1. k \notin Firsts(g)
      BY <2>3 DEF Firsts, Texts
    <3> HIDE DEF p, n, h
    <3>2. QED
      BY <1>2, <2>1, <2>2, <2>3, <3>1
  <2>4. CASE IsString(g, k) /\ Value(g, k).offset = Null
    <3>1. k \notin Firsts(g)
      BY <2>4 DEF Firsts, Texts
    <3>2. Value(h, k).offset = Null
      BY <1>1, <2>1, <2>4, SameCells
    <3>3. Value(h, k).offset # p[k]
      BY <2>2, <3>2 DEF Null
    <3> HIDE DEF p, n, h
    <3>4. QED
      BY <1>2, <2>1, <2>2, <3>1, <3>3
  <2>5. CASE IsString(g, k) /\ Value(g, k).offset # Null
    <3>1. k \in Texts(g)
      BY <2>1, <2>5 DEF Texts
    <3>2. Row(g, k) \in DOMAIN g.messages /\ Column(g, k) \in DOMAIN g.type
      BY <2>1, CellOf
    <3>3. Value(h, k).offset = Place(g, Value(g, k).str)
      <4>1. g.type[Column(g, k)].kind = "str" /\ g.messages[Row(g, k)][Column(g, k)].offset # Null
        BY <2>5 DEF IsString, Value
      <4>2. h.messages[Row(g, k)][Column(g, k)] =
              [str |-> g.messages[Row(g, k)][Column(g, k)].str,
               offset |-> Place(g, g.messages[Row(g, k)][Column(g, k)].str)]
        BY <3>2, <4>1, RecalcSame
      <4>3. Value(h, k) = [str |-> Value(g, k).str, offset |-> Place(g, Value(g, k).str)]
        BY <2>1, <4>2 DEF Value
      <4>4. QED
        BY <4>3
    <3>4. PICK l \in Firsts(g) : /\ l \in Cells(g) /\ l <= k
                                 /\ Value(g, l).str = Value(g, k).str
                                 /\ (k \in Firsts(g) => l = k)
                                 /\ Place(g, Value(g, k).str) = p[l]
      BY <3>1, FirstOf
    <3>5. CASE k \in Firsts(g)
      <4>1. Value(h, k).offset = p[k]
        BY <3>3, <3>4, <3>5
      <4>2. Len(Value(g, k).str) \in Nat
        BY <3>1, TextValue
      <4> HIDE DEF p, n, h
      <4>3. QED
        BY <1>2, <2>1, <2>2, <2>5, <3>5, <4>1, <4>2
    <3>6. CASE k \notin Firsts(g)
      <4>1. l # k /\ l < k
        BY <1>1, <2>1, <3>4, <3>6
      <4>2. p[l] < p[k] /\ p[l] \in Nat
        <5>1. k \in 1 .. n + 1
          BY <1>1
        <5>2. QED
          BY <3>4, <4>1, <5>1, PlacesApart
      <4>3. Value(h, k).offset # p[k]
        <5> HIDE DEF p
        <5>1. QED
          BY <2>2, <3>3, <3>4, <4>2
      <4> HIDE DEF p, n, h
      <4>4. QED
        BY <1>2, <2>1, <2>2, <3>6, <4>3
    <3>7. QED
      BY <3>5, <3>6
  <2>6. QED
    BY <2>3, <2>4, <2>5
<1> HIDE DEF p, n
<1>4. p = [k \in 1 .. n + 1 |->
            IF k = 1 THEN 0
            ELSE IF IsString(h, k - 1) /\ Value(h, k - 1).offset = p[k - 1]
                 THEN p[k - 1] + Len(Value(h, k - 1).str) + 1 ELSE p[k - 1]]
  <2>1. ASSUME NEW k \in 1 .. n + 1, k # 1
        PROVE  p[k] = IF IsString(h, k - 1) /\ Value(h, k - 1).offset = p[k - 1]
                      THEN p[k - 1] + Len(Value(h, k - 1).str) + 1 ELSE p[k - 1]
    <3> DEFINE l == k - 1
    <3>1. l \in 1 .. n /\ l + 1 = k
      BY <1>1, <2>1
    <3> HIDE DEF l, h
    <3>2. p[l + 1] = IF IsString(h, l) /\ Value(h, l).offset = p[l]
                     THEN p[l] + Len(Value(h, l).str) + 1 ELSE p[l]
      BY <1>3, <3>1
    <3>3. QED
      BY <3>1, <3>2 DEF l
  <2>2. QED
    BY <1>2, <2>1
<1> DEFINE f == Walk(h)
           Step(k, x) == IF IsString(h, k) /\ Value(h, k).offset = x
                         THEN x + Len(Value(h, k).str) + 1 ELSE x
<1>5. f = [k \in 1 .. n + 1 |->
            IF k = 1 THEN 0
            ELSE IF IsString(h, k - 1) /\ Value(h, k - 1).offset = f[k - 1]
                 THEN f[k - 1] + Len(Value(h, k - 1).str) + 1 ELSE f[k - 1]]
  <2> DEFINE at == CHOOSE q : q = [k \in 1 .. Width(h) * Len(h.messages) + 1 |->
                     IF k = 1 THEN 0
                     ELSE IF IsString(h, k - 1) /\ Value(h, k - 1).offset = q[k - 1]
                          THEN q[k - 1] + Len(Value(h, k - 1).str) + 1 ELSE q[k - 1]]
  <2> HIDE DEF h
  <2>1. f = at
    BY DEF Walk
  <2>2. Width(h) * Len(h.messages) = n
    BY <1>1 DEF Ended
  <2>3. at = [k \in 1 .. Width(h) * Len(h.messages) + 1 |->
                     IF k = 1 THEN 0
                     ELSE IF IsString(h, k - 1) /\ Value(h, k - 1).offset = at[k - 1]
                          THEN at[k - 1] + Len(Value(h, k - 1).str) + 1 ELSE at[k - 1]]
    BY <1>4, <2>2, Zenon
  <2> HIDE DEF at
  <2>4. QED
    BY <2>1, <2>2, <2>3, Zenon
<1> HIDE DEF f, h
<1>6. ASSUME NEW k \in 1 .. n
      PROVE  f[k + 1] = Step(k, f[k]) /\ p[k + 1] = Step(k, p[k])
  <2> DEFINE l == k + 1
  <2>1. l \in 1 .. n + 1 /\ l # 1 /\ l - 1 = k
    BY <1>1
  <2> HIDE DEF l
  <2>2. f[l] = Step(k, f[k])
    BY <1>5, <2>1
  <2>3. p[k + 1] = Step(k, p[k])
    BY <1>3
  <2>4. QED
    BY <2>2, <2>3 DEF l
<1> HIDE DEF Step
<1> DEFINE Same == {k \in 1 .. n + 1 : f[k] = p[k]}
<1>7. 1 \in Same
  <2>1. 1 \in 1 .. n + 1
    BY <1>1
  <2>2. f[1] = 0
    BY <1>5, <2>1
  <2>3. QED
    BY <1>2, <2>1, <2>2
<1>8. \A k \in 1 .. n : k \in Same => k + 1 \in Same
  <2> SUFFICES ASSUME NEW k \in 1 .. n, k \in Same PROVE k + 1 \in Same
    OBVIOUS
  <2>1. f[k] = p[k]
    OBVIOUS
  <2>2. f[k + 1] = p[k + 1]
    BY <1>6, <2>1
  <2>3. k + 1 \in 1 .. n + 1
    BY <1>1
  <2>4. QED
    BY <2>2, <2>3
<1> HIDE DEF Same
<1>9. \A k \in 1 .. n + 1 : k \in Same
  BY <1>1, <1>7, <1>8, Induction
<1>10. QED
  BY <1>9 DEF Same, f, h, p, n

-----------------------------------------------------------------------------
(* The layout of a file *)

RowsStart(g) == IF g.gstl THEN HeaderSize ELSE 0
RowsLength(g) == msg_descr_size(g) * Len(g.messages)
TypesStart(g) == Align(g, RowsStart(g) + RowsLength(g))
ControlEnd(g) ==
    Align(g, Align(g, RowsLength(g)) + DescriptorSize * real_item_count(g))

(* A row of the file. *)
CellOfFile(g, j, i) ==
    [at |-> RowsStart(g) + msg_descr_size(g) * (j - 1) + FieldOffset(g.type, i),
     field |-> g.type[i], value |-> Stored(g.type[i], g.messages[j][i])]

FileRows(g) ==
    [j \in DOMAIN g.messages |-> [i \in DOMAIN g.type |-> CellOfFile(g, j, i)]]

(* A string of the file. *)
StringOfFile(g, k) ==
    [at |-> RowsStart(g) + ControlEnd(g) + Walk(g)[k], str |-> Value(g, k).str]

FileStrings(g) ==
    {StringOfFile(g, k) : k \in {l \in Cells(g) : Walk(g)[l + 1] # Walk(g)[l]}}

(* The parts of a file. *)
LEMMA DumpParts ==
    ASSUME NEW g
    PROVE  Dump(g) =
      [gstl |-> g.gstl,
       fix_k |-> g.fix_k,
       descr_offset |-> RowsStart(g),
       count_msgs |-> Len(g.messages),
       msg_descr_size |-> msg_descr_size(g),
       count_types |-> real_item_count(g),
       offset_types |-> TypesStart(g),
       offset_msgs |->
         IF g.msgs_size = 0 THEN 0
         ELSE Align(g, TypesStart(g) + DescriptorSize * real_item_count(g)),
       rows |-> FileRows(g),
       types_at |-> RowsStart(g) + Align(g, RowsLength(g)),
       types |-> Descriptors(g.type),
       strings |-> FileStrings(g),
       strings_size |-> Walk(g)[Ended(g) + 1],
       size |-> HeaderSize + Align(g, ControlEnd(g) + Walk(g)[Ended(g) + 1])]
BY Zenon DEF Dump, RowsStart, RowsLength, TypesStart, ControlEnd, CellOfFile,
             FileRows, StringOfFile, FileStrings, Ended

(* Each of them. *)
LEMMA DumpFields ==
    ASSUME NEW g
    PROVE  /\ Dump(g).gstl = g.gstl /\ Dump(g).fix_k = g.fix_k
           /\ Dump(g).descr_offset = RowsStart(g)
           /\ Dump(g).count_msgs = Len(g.messages)
           /\ Dump(g).msg_descr_size = msg_descr_size(g)
           /\ Dump(g).count_types = real_item_count(g)
           /\ Dump(g).offset_types = TypesStart(g)
           /\ Dump(g).offset_msgs =
                IF g.msgs_size = 0 THEN 0
                ELSE Align(g, TypesStart(g) + DescriptorSize * real_item_count(g))
           /\ Dump(g).rows = FileRows(g)
           /\ Dump(g).types_at = RowsStart(g) + Align(g, RowsLength(g))
           /\ Dump(g).types = Descriptors(g.type)
           /\ Dump(g).strings = FileStrings(g)
           /\ Dump(g).strings_size = Walk(g)[Ended(g) + 1]
           /\ Dump(g).size = HeaderSize + Align(g, ControlEnd(g) + Walk(g)[Ended(g) + 1])
BY DumpParts

(* Rounding up. *)
LEMMA Rounded ==
    ASSUME NEW g, g.gstl \in BOOLEAN, NEW n \in Nat
    PROVE  Align(g, n) \in Nat /\ n <= Align(g, n) /\ (g.gstl => Align(g, n) = n)
<1>1. ((n + 15) \div 16) * 16 \in Nat /\ n <= ((n + 15) \div 16) * 16
  BY SMT
<1>2. QED
  BY <1>1 DEF Align

(* The size of a field. *)
LEMMA FieldRecord ==
    ASSUME NEW x \in [kind : {"int", "float", "str", "fix", "pad"}, size : Nat \ {0}]
    PROVE  x.size \in Nat \ {0} /\ x.kind \in {"int", "float", "str", "fix", "pad"}
OBVIOUS

(* The offsets of fields. *)
LEMMA FieldOffsets ==
    ASSUME NEW g, IsTable(g)
    PROVE  /\ FieldOffset(g.type, 1) = 0
           /\ \A i \in 1 .. Width(g) + 1 : FieldOffset(g.type, i) \in Nat
           /\ \A i \in 1 .. Width(g) :
                /\ g.type[i].size \in Nat \ {0}
                /\ FieldOffset(g.type, i + 1) = FieldOffset(g.type, i) + g.type[i].size
           /\ msg_descr_size(g) = FieldOffset(g.type, Width(g) + 1)
<1> DEFINE n == Width(g)
           s == [k \in DOMAIN g.type |-> g.type[k].size]
<1>1. /\ n \in Nat /\ DOMAIN g.type = 1 .. n
      /\ g.type \in Seq([kind : {"int", "float", "str", "fix", "pad"}, size : Nat \ {0}])
  BY TableParts
<1>2. \A i \in 1 .. n : g.type[i].size \in Nat \ {0}
  <2> DEFINE R == [kind : {"int", "float", "str", "fix", "pad"}, size : Nat \ {0}]
             t == g.type
  <2>1. t \in Seq(R) /\ n = Len(t)
    BY <1>1 DEF Width
  <2>2. \A x \in R : x.size \in Nat \ {0}
    BY FieldRecord, Zenon
  <2> HIDE DEF R, t, n
  <2>3. \A i \in 1 .. n : t[i] \in R
    BY <2>1
  <2>4. QED
    BY <2>2, <2>3 DEF t
<1>3. s \in [1 .. n -> Nat] /\ \A i \in 1 .. n : s[i] = g.type[i].size
  BY <1>1, <1>2
<1>4. \A i : FieldOffset(g.type, i) = Sums(s)[i]
  BY DEF FieldOffset
<1>5. msg_descr_size(g) = FieldOffset(g.type, n + 1)
  BY DEF msg_descr_size, Width
<1> HIDE DEF s, n
<1>6. /\ Sums(s) \in [1 .. n + 1 -> Nat] /\ Sums(s)[1] = 0
      /\ \A i \in 1 .. n : Sums(s)[i + 1] = Sums(s)[i] + s[i]
  BY <1>1, <1>3, SumsStep
<1>7. \A i \in 1 .. n + 1 : Sums(s)[i] \in Nat
  BY <1>6
<1>8. QED
  BY <1>2, <1>3, <1>4, <1>5, <1>6, <1>7 DEF n

(* A field ends where a later one begins, or before it. *)
LEMMA FieldsApart ==
    ASSUME NEW g, IsTable(g), NEW i \in 1 .. Width(g), NEW k \in 1 .. Width(g) + 1, i < k
    PROVE  /\ FieldOffset(g.type, i) \in Nat /\ FieldOffset(g.type, k) \in Nat
           /\ FieldOffset(g.type, i) < FieldOffset(g.type, k)
<1> DEFINE n == Width(g)
           f == [l \in 1 .. n + 1 |-> FieldOffset(g.type, l)]
<1>1. n \in Nat
  BY TableParts
<1>2. f \in [1 .. n + 1 -> Nat]
  BY FieldOffsets
<1>3. \A l \in 1 .. n : g.type[l].size \in Nat \ {0} /\ f[l + 1] = f[l] + g.type[l].size
  <2> SUFFICES ASSUME NEW l \in 1 .. n
               PROVE  g.type[l].size \in Nat \ {0} /\ f[l + 1] = f[l] + g.type[l].size
    OBVIOUS
  <2>1. l \in 1 .. n + 1 /\ l + 1 \in 1 .. n + 1
    BY <1>1
  <2>2. QED
    BY <2>1, FieldOffsets
<1>4. f[i] = FieldOffset(g.type, i) /\ f[k] = FieldOffset(g.type, k)
  BY <1>1
<1> HIDE DEF f
<1>5. \A l \in 1 .. n : f[l] <= f[l + 1]
  <2> SUFFICES ASSUME NEW l \in 1 .. n PROVE f[l] <= f[l + 1]
    OBVIOUS
  <2>1. l \in 1 .. n + 1
    BY <1>1
  <2>2. f[l] \in Nat
    BY <1>2, <2>1
  <2>3. QED
    BY <1>3, <2>2
<1> HIDE DEF n
<1>6. \A l \in 1 .. n + 1 : \A m \in 1 .. l : f[m] <= f[l]
  BY <1>1, <1>2, <1>5, Growing
<1> DEFINE m == i + 1
<1>7. m \in 1 .. k /\ k \in 1 .. n + 1 /\ i \in 1 .. n + 1 /\ m \in 1 .. n + 1 /\ i \in 1 .. n
  BY <1>1 DEF n
<1>8. f[m] = f[i] + g.type[i].size /\ g.type[i].size \in Nat \ {0}
  BY <1>3, <1>7
<1> HIDE DEF m
<1>9. f[m] <= f[k] /\ f[i] \in Nat /\ f[k] \in Nat /\ f[m] \in Nat
  BY <1>2, <1>6, <1>7
<1>10. f[i] < f[k]
  BY <1>8, <1>9
<1>11. QED
  BY <1>4, <1>9, <1>10

(* The numbers of the layout. *)
LEMMA LayoutNumbers ==
    ASSUME NEW g, IsTable(g)
    PROVE  /\ msg_descr_size(g) \in Nat /\ RowsLength(g) \in Nat
           /\ real_item_count(g) \in Nat /\ RowsStart(g) \in Nat
           /\ TypesStart(g) \in Nat /\ ControlEnd(g) \in Nat
           /\ TypesStart(g) = RowsStart(g) + Align(g, RowsLength(g))
           /\ Align(g, TypesStart(g) + DescriptorSize * real_item_count(g))
                = RowsStart(g) + ControlEnd(g)
           /\ RowsLength(g) <= ControlEnd(g)
           /\ Align(g, RowsLength(g)) + DescriptorSize * real_item_count(g) <= ControlEnd(g)
<1>1. g.gstl \in BOOLEAN
  BY DEF IsTable
<1>2. msg_descr_size(g) \in Nat /\ RowsLength(g) \in Nat
  <2> DEFINE w == Width(g)
             s == msg_descr_size(g)
             n == Len(g.messages)
  <2>1. w \in Nat /\ n \in Nat
    BY TableParts
  <2>2. s \in Nat
    <3>1. w + 1 \in 1 .. w + 1
      BY <2>1
    <3>2. QED
      BY <3>1, FieldOffsets
  <2> HIDE DEF s, n, w
  <2>3. s * n \in Nat
    BY <2>1, <2>2
  <2>4. QED
    BY <2>2, <2>3 DEF s, n, RowsLength
<1>3. real_item_count(g) \in Nat
  <2> DEFINE S == {i \in DOMAIN g.type : g.type[i].kind # "pad"}
  <2>1. IsFiniteSet(1 .. Width(g)) /\ DOMAIN g.type = 1 .. Width(g)
    BY TableParts, FS_Interval
  <2>2. IsFiniteSet(S)
    BY <2>1, FS_Subset
  <2> HIDE DEF S
  <2>3. Cardinality(S) \in Nat
    BY <2>2, FS_CardinalityType
  <2>4. QED
    BY <2>3 DEF S, real_item_count
<1>4. RowsStart(g) \in Nat
  BY DEF RowsStart, HeaderSize
<1> DEFINE a == RowsLength(g)
           b == Align(g, a)
           c == DescriptorSize * real_item_count(g)
           d == Align(g, b + c)
           e == RowsStart(g)
<1>5. a \in Nat /\ c \in Nat /\ e \in Nat /\ (g.gstl => e = 64) /\ (~g.gstl => e = 0)
  BY <1>1, <1>2, <1>3, <1>4 DEF DescriptorSize, RowsStart, HeaderSize
<1> HIDE DEF a, c, e
<1>6. b \in Nat /\ a <= b /\ (g.gstl => b = a)
  BY <1>1, <1>5, Rounded
<1> HIDE DEF b
<1>7. b + c \in Nat
  BY <1>5, <1>6
<1>8. d \in Nat /\ b + c <= d /\ (g.gstl => d = b + c)
  BY <1>1, <1>7, Rounded
<1>9. Align(g, e + a) = e + b
  <2>1. CASE g.gstl
    BY <1>5, <1>6, <2>1 DEF Align
  <2>2. CASE ~g.gstl
    <3>1. e + a = a /\ e + b = b
      BY <1>5, <1>6, <2>2
    <3>2. QED
      BY <3>1 DEF b
  <2>3. QED
    BY <1>1, <2>1, <2>2
<1>10. Align(g, e + b + c) = e + d
  <2>1. CASE g.gstl
    BY <1>5, <1>6, <1>8, <2>1 DEF Align
  <2>2. CASE ~g.gstl
    <3>1. e + b + c = b + c
      BY <1>5, <1>6, <2>2
    <3>2. QED
      BY <1>5, <1>8, <2>2, <3>1
  <2>3. QED
    BY <1>1, <2>1, <2>2
<1>11. TypesStart(g) = e + b /\ ControlEnd(g) = d
  BY <1>9 DEF TypesStart, ControlEnd, a, b, c, d, e
<1> HIDE DEF d
<1>12. e + b \in Nat /\ a <= d /\ d \in Nat
  BY <1>5, <1>6, <1>8
<1>13. QED
  BY <1>2, <1>3, <1>4, <1>8, <1>10, <1>11, <1>12 DEF a, b, c, e

(* What Dump_ asserts: it writes what was counted, and as much as was         *)
(* announced.                                                                 *)
LEMMA DumpAsserted ==
    ASSUME NEW g, IsTable(g)
    PROVE  /\ Dump(RecalcSize(g)).strings_size = RecalcSize(g).msgs_size
           /\ Dump(RecalcSize(g)).size = GetSize(RecalcSize(g))
<1> DEFINE h == RecalcSize(g)
           n == Ended(g)
<1>1. IsTable(h) /\ Ended(h) = n /\ n \in Nat
  BY RecalcTable, RecalcSame, SameCells, CellsCounted
<1>2. Walk(h)[n + 1] = h.msgs_size
  <2>1. n + 1 \in 1 .. n + 1
    BY <1>1
  <2>2. Walk(h)[n + 1] = Places(g)[n + 1]
    BY <2>1, WalkIsPlaces
  <2>3. QED
    BY <2>2, Recalculated
<1> HIDE DEF h, n
<1>3. Dump(h).strings_size = h.msgs_size
  BY <1>1, <1>2, DumpFields
<1>4. Dump(h).size = HeaderSize + Align(h, ControlEnd(h) + h.msgs_size)
  BY <1>1, <1>2, DumpFields
<1>5. GetSize(h) = Align(h, ControlEnd(h) + h.msgs_size) + HeaderSize
  BY DEF GetSize, ControlEnd, RowsLength
<1>6. Align(h, ControlEnd(h) + h.msgs_size) \in Nat
  <2>1. h.gstl \in BOOLEAN /\ h.msgs_size \in Nat
    BY <1>1 DEF IsTable
  <2>2. ControlEnd(h) \in Nat
    BY <1>1, LayoutNumbers
  <2> DEFINE s == ControlEnd(h) + h.msgs_size
  <2>3. s \in Nat
    BY <2>1, <2>2
  <2> HIDE DEF s
  <2>4. Align(h, s) \in Nat
    BY <2>1, <2>3, Rounded
  <2>5. QED
    BY <2>4 DEF s
<1>7. HeaderSize \in Nat
  BY DEF HeaderSize
<1>8. QED
  BY <1>3, <1>4, <1>5, <1>6, <1>7 DEF h

-----------------------------------------------------------------------------
(* Lists of what is picked *)

(* list is what x has for the members of R, in their order; r counts them.   *)
Picks(R, V, x, list, r) ==
    /\ list \in Seq(V) /\ Len(list) \in Nat /\ r \in [1 .. Len(list) -> R]
    /\ \A k \in 1 .. Len(list) : list[k] = x[r[k]]
    /\ \A i \in R : \E k \in 1 .. Len(list) : r[k] = i
    /\ \A k, l \in 1 .. Len(list) : k < l => r[k] < r[l]

(* c[i] is how many members of R are before i. *)
Counts(n, c, R) ==
    /\ n \in Nat /\ c \in [1 .. n + 1 -> Nat] /\ R \in SUBSET (1 .. n)
    /\ c[1] = 0
    /\ \A i \in 1 .. n : c[i + 1] = c[i] + (IF i \in R THEN 1 ELSE 0)

MeetsAll(n, c, R) ==
    \A i \in 1 .. n + 1 : \A k \in 0 .. c[i] - 1 : \E j \in R : j < i /\ c[j] = k

(* Counting up by at most one, every number on the way is met. *)
LEMMA Met ==
    ASSUME NEW n, NEW c, NEW R, Counts(n, c, R)
    PROVE  MeetsAll(n, c, R)
<1> SUFFICES ASSUME n \in Nat, c \in [1 .. n + 1 -> Nat], R \in SUBSET (1 .. n),
                    c[1] = 0, \A i \in 1 .. n : c[i + 1] = c[i] + (IF i \in R THEN 1 ELSE 0)
             PROVE  \A i \in 1 .. n + 1 : \A k \in 0 .. c[i] - 1 : \E j \in R : j < i /\ c[j] = k
  BY DEF Counts, MeetsAll
<1> DEFINE S == {i \in 1 .. n + 1 : \A k \in 0 .. c[i] - 1 : \E j \in R : j < i /\ c[j] = k}
<1>1. 1 \in S
  OBVIOUS
<1>2. ASSUME NEW i \in 1 .. n, i \in S PROVE i + 1 \in S
  <2> DEFINE m == i + 1
  <2>1. m \in 1 .. n + 1 /\ i \in Nat /\ i < m
    OBVIOUS
  <2>2. c[i] \in Nat /\ c[m] = c[i] + (IF i \in R THEN 1 ELSE 0)
    OBVIOUS
  <2> HIDE DEF m
  <2>3. ASSUME NEW k \in 0 .. c[m] - 1 PROVE \E j \in R : j < m /\ c[j] = k
    <3>1. CASE k = c[i]
      <4>1. i \in R
        BY <2>2, <3>1
      <4>2. QED
        BY <2>1, <3>1, <4>1
    <3>2. CASE k # c[i]
      <4>1. k \in 0 .. c[i] - 1
        BY <2>2, <3>2
      <4>2. PICK j \in R : j < i /\ c[j] = k
        BY <1>2, <4>1
      <4>3. j \in Nat /\ j < m
        BY <2>1, <4>2
      <4>4. QED
        BY <4>2, <4>3
    <3>3. QED
      BY <3>1, <3>2
  <2>4. QED
    BY <2>1, <2>3 DEF m
<1> HIDE DEF S
<1>3. \A i \in 1 .. n + 1 : i \in S
  BY <1>1, <1>2, Induction
<1>4. QED
  BY <1>3 DEF S

(* Every number that a set of indices leaves out leaves nothing in the list.  *)
LEMMA Picked ==
    ASSUME NEW n \in Nat, NEW V, NEW R \in SUBSET (1 .. n), NEW x \in [R -> V],
           NEW seqs \in [1 .. n -> Seq(V)],
           \A i \in 1 .. n : seqs[i] = IF i \in R THEN <<x[i]>> ELSE <<>>
    PROVE  \E r : Picks(R, V, x, FlattenSeq(seqs), r)
<1> DEFINE s == [i \in 1 .. n |-> IF i \in R THEN 1 ELSE 0]
           c == Sums(s)
<1>1. s \in [1 .. n -> Nat] /\ \A i \in 1 .. n : s[i] = IF i \in R THEN 1 ELSE 0
  OBVIOUS
<1> HIDE DEF s
<1>2. /\ c \in [1 .. n + 1 -> Nat] /\ c[1] = 0
      /\ \A i \in 1 .. n : c[i + 1] = c[i] + s[i]
  BY <1>1, SumsStep
<1>3. \A i, j \in 1 .. n + 1 : i <= j => c[i] <= c[j]
  BY <1>1, SumsGrow
<1> HIDE DEF c
<1>4. \A i \in 1 .. n : c[i + 1] = c[i] + (IF i \in R THEN 1 ELSE 0)
  BY <1>1, <1>2
<1>5. \A i \in 1 .. n : Len(seqs[i]) = IF i \in R THEN 1 ELSE 0
  <2> SUFFICES ASSUME NEW i \in 1 .. n PROVE Len(seqs[i]) = IF i \in R THEN 1 ELSE 0
    OBVIOUS
  <2>1. CASE i \in R
    BY <2>1
  <2>2. CASE i \notin R
    BY <2>2
  <2>3. QED
    BY <2>1, <2>2
<1>6. Laid(V, n, seqs, c)
  BY <1>2, <1>4, <1>5 DEF Laid
<1> DEFINE list == FlattenSeq(seqs)
           K == c[n + 1]
<1>7. /\ list \in Seq(V) /\ Len(list) = K
      /\ \A i \in 1 .. n : \A j \in 1 .. Len(seqs[i]) :
           c[i] + j \in 1 .. Len(list) /\ list[c[i] + j] = seqs[i][j]
  <2>1. Joins(V, n, seqs, c, list)
    BY <1>6, Flattened
  <2> HIDE DEF list
  <2>2. QED
    BY <2>1 DEF Joins
<1> HIDE DEF list, K
<1>8. ASSUME NEW i \in R PROVE c[i] + 1 \in 1 .. K /\ list[c[i] + 1] = x[i]
  <2>1. i \in 1 .. n /\ seqs[i] = <<x[i]>>
    OBVIOUS
  <2>2. 1 \in 1 .. Len(seqs[i]) /\ seqs[i][1] = x[i]
    BY <2>1
  <2>3. QED
    BY <1>7, <2>1, <2>2
<1>9. K \in Nat /\ \A i \in R : i \in 1 .. n /\ i \in 1 .. n + 1 /\ c[i] \in Nat
  BY <1>2 DEF K
<1>10. \A i, j \in R : i < j => c[i] < c[j]
  <2> SUFFICES ASSUME NEW i \in R, NEW j \in R, i < j PROVE c[i] < c[j]
    OBVIOUS
  <2> DEFINE m == i + 1
  <2>1. m \in 1 .. n + 1 /\ j \in 1 .. n + 1 /\ m <= j /\ i \in 1 .. n
    OBVIOUS
  <2>2. c[m] = c[i] + 1
    BY <1>4, <2>1
  <2> HIDE DEF m
  <2>3. c[m] <= c[j] /\ c[i] \in Nat /\ c[j] \in Nat
    BY <1>2, <1>3, <2>1
  <2>4. QED
    BY <2>2, <2>3
<1>11. \A k \in 1 .. K : \E j \in R : c[j] = k - 1
  <2> SUFFICES ASSUME NEW k \in 1 .. K PROVE \E j \in R : c[j] = k - 1
    OBVIOUS
  <2> DEFINE e == n + 1
             l == k - 1
  <2>1. e \in 1 .. n + 1 /\ l \in 0 .. c[e] - 1
    BY <1>9 DEF K
  <2> HIDE DEF e, l
  <2>2. Counts(n, c, R)
    BY <1>2, <1>4 DEF Counts
  <2>3. MeetsAll(n, c, R)
    BY <2>2, Met
  <2>4. \E j \in R : j < e /\ c[j] = l
    BY <2>1, <2>3 DEF MeetsAll
  <2>5. QED
    BY <2>4 DEF l
<1> DEFINE r == [k \in 1 .. K |-> CHOOSE j \in R : c[j] = k - 1]
<1>12. \A k \in 1 .. K : r[k] \in R /\ c[r[k]] = k - 1
  <2> SUFFICES ASSUME NEW k \in 1 .. K PROVE r[k] \in R /\ c[r[k]] = k - 1
    OBVIOUS
  <2>1. r[k] = CHOOSE j \in R : c[j] = k - 1
    OBVIOUS
  <2> HIDE DEF r
  <2>2. QED
    BY <1>11, <2>1, Zenon
<1>13. r \in [1 .. K -> R]
  BY <1>12
<1> HIDE DEF r
<1>14. \A k \in 1 .. K : list[k] = x[r[k]]
  <2> SUFFICES ASSUME NEW k \in 1 .. K PROVE list[k] = x[r[k]]
    OBVIOUS
  <2>1. r[k] \in R /\ c[r[k]] = k - 1
    BY <1>12
  <2> DEFINE i == r[k]
  <2>2. i \in R /\ c[i] = k - 1
    BY <2>1
  <2> HIDE DEF i
  <2>3. list[c[i] + 1] = x[i] /\ c[i] + 1 = k
    BY <1>8, <1>9, <2>2
  <2>4. QED
    BY <2>3 DEF i
<1>15. \A i \in R : \E k \in 1 .. K : r[k] = i
  <2> SUFFICES ASSUME NEW i \in R PROVE \E k \in 1 .. K : r[k] = i
    OBVIOUS
  <2> DEFINE k == c[i] + 1
  <2>1. k \in 1 .. K /\ k - 1 = c[i]
    BY <1>8, <1>9
  <2> HIDE DEF k
  <2> DEFINE j == r[k]
  <2>2. j \in R /\ c[j] = c[i]
    BY <1>12, <2>1
  <2> HIDE DEF j
  <2>3. j \in Nat /\ i \in Nat /\ c[i] \in Nat /\ c[j] \in Nat
    BY <1>9, <2>2
  <2>4. ~(j < i) /\ ~(i < j)
    BY <1>10, <2>2, <2>3
  <2>5. j = i
    BY <2>3, <2>4
  <2>6. QED
    BY <2>1, <2>5 DEF j
<1>16. \A k, l \in 1 .. K : k < l => r[k] < r[l]
  <2> SUFFICES ASSUME NEW k \in 1 .. K, NEW l \in 1 .. K, k < l PROVE r[k] < r[l]
    OBVIOUS
  <2>1. r[k] \in R /\ c[r[k]] = k - 1 /\ r[l] \in R /\ c[r[l]] = l - 1
    BY <1>12
  <2>2. r[k] \in 1 .. n + 1 /\ r[l] \in 1 .. n + 1
    BY <1>9, <2>1
  <2>3. ~(r[l] <= r[k])
    BY <1>3, <2>1, <2>2
  <2>4. QED
    BY <2>2, <2>3
<1>17. Picks(R, V, x, list, r)
  BY <1>7, <1>9, <1>13, <1>14, <1>15, <1>16 DEF Picks
<1>18. QED
  BY <1>17 DEF list

-----------------------------------------------------------------------------
(* The types of a file *)

(* The bounds of what is picked: before the first, the k-th, behind the last. *)
Bounds(n, list, r) ==
    [k \in 0 .. Len(list) + 1 |->
       IF k = 0 THEN 0 ELSE IF k = Len(list) + 1 THEN n + 1 ELSE r[k]]

GapAt(n, R, b, r, k) ==
    /\ b[k] \in 0 .. n /\ b[k + 1] \in 1 .. n + 1 /\ b[k] < b[k + 1]
    /\ \A e \in R : ~(b[k] < e /\ e < b[k + 1])
    /\ k # 0 => b[k] = r[k] /\ r[k] \in R

(* Between what is picked is nothing else. *)
LEMMA Gaps ==
    ASSUME NEW n \in Nat, NEW R \in SUBSET (1 .. n), NEW V, NEW x, NEW list, NEW r,
           Picks(R, V, x, list, r), NEW k \in 0 .. Len(list)
    PROVE  GapAt(n, R, Bounds(n, list, r), r, k)
<1> DEFINE K == Len(list)
           b == Bounds(n, list, r)
           l == k + 1
<1>1. /\ K \in Nat /\ r \in [1 .. K -> R]
      /\ \A i \in R : \E m \in 1 .. K : r[m] = i
      /\ \A m, p \in 1 .. K : m < p => r[m] < r[p]
  BY DEF Picks
<1>2. /\ k \in 0 .. K + 1 /\ l \in 0 .. K + 1 /\ l # 0 /\ k # K + 1
      /\ (k # 0 => k \in 1 .. K) /\ (l # K + 1 => l \in 1 .. K) /\ k \in 0 .. K
  BY <1>1
<1>3. b = [m \in 0 .. K + 1 |-> IF m = 0 THEN 0 ELSE IF m = K + 1 THEN n + 1 ELSE r[m]]
  BY DEF Bounds
<1> HIDE DEF K, b
<1>4. b[k] = IF k = 0 THEN 0 ELSE r[k]
  BY <1>2, <1>3
<1>5. b[l] = IF l = K + 1 THEN n + 1 ELSE r[l]
  BY <1>2, <1>3
<1>6. (k # 0 => r[k] \in R /\ r[k] \in 1 .. n) /\ (l # K + 1 => r[l] \in R /\ r[l] \in 1 .. n)
  BY <1>1, <1>2
<1>7. b[k] \in 0 .. n /\ b[l] \in 1 .. n + 1
  BY <1>4, <1>5, <1>6
<1>8. k # 0 /\ l # K + 1 => r[k] < r[l]
  BY <1>1, <1>2
<1>9. b[k] < b[l]
  BY <1>4, <1>5, <1>6, <1>7, <1>8
<1>10. ASSUME NEW e \in R, b[k] < e, e < b[l] PROVE FALSE
  <2>1. PICK m \in 1 .. K : r[m] = e
    BY <1>1
  <2>2. e \in 1 .. n
    OBVIOUS
  <2>3. ASSUME m <= k PROVE FALSE
    <3>1. k # 0 /\ k \in 1 .. K /\ b[k] = r[k]
      BY <1>1, <1>2, <1>4, <2>3
    <3>2. m = k \/ m < k
      BY <1>1, <2>3
    <3>3. CASE m = k
      BY <1>6, <1>10, <2>1, <2>2, <3>1, <3>3
    <3>4. CASE m < k
      <4>1. r[m] < r[k]
        BY <1>1, <3>1, <3>4
      <4>2. QED
        BY <1>6, <1>10, <2>1, <2>2, <3>1, <4>1
    <3>5. QED
      BY <3>2, <3>3, <3>4
  <2>4. m >= l /\ l # K + 1 /\ l \in 1 .. K /\ b[l] = r[l]
    BY <1>1, <1>2, <1>5, <2>3
  <2>5. m = l \/ l < m
    BY <1>1, <1>2, <2>4
  <2>6. CASE m = l
    BY <1>6, <1>10, <2>1, <2>2, <2>4, <2>6
  <2>7. CASE l < m
    <3>1. r[l] < r[m]
      BY <1>1, <2>4, <2>7
    <3>2. QED
      BY <1>6, <1>10, <2>1, <2>2, <2>4, <3>1
  <2>8. QED
    BY <2>5, <2>6, <2>7
<1>11. QED
  BY <1>4, <1>6, <1>7, <1>9, <1>10 DEF b, GapAt

(* The fields that have a descriptor, and what it says. *)
Real(g) == {i \in DOMAIN g.type : g.type[i].kind # "pad"}

Descriptor(type, i) ==
    [offset |-> FieldOffset(type, i),
     kind |-> IF type[i].kind = "fix" THEN "int" ELSE type[i].kind,
     size |-> IF type[i].kind = "fix" THEN 1 ELSE type[i].size]

(* There is one for every such field. *)
LEMMA DescriptorsPicked ==
    ASSUME NEW g, IsTable(g)
    PROVE  \E V, r : Picks(Real(g), V, [i \in Real(g) |-> Descriptor(g.type, i)],
                           Descriptors(g.type), r)
<1> DEFINE n == Width(g)
           R == Real(g)
           x == [i \in R |-> Descriptor(g.type, i)]
           V == {x[i] : i \in R}
           seqs == [i \in DOMAIN g.type |->
                      IF g.type[i].kind = "pad" THEN <<>> ELSE <<Descriptor(g.type, i)>>]
<1>1. n \in Nat /\ DOMAIN g.type = 1 .. n
  BY TableParts
<1>2. R \in SUBSET (1 .. n) /\ \A i \in 1 .. n : i \in R <=> g.type[i].kind # "pad"
  BY <1>1 DEF Real
<1>3. Descriptors(g.type) = FlattenSeq(seqs)
  BY Zenon DEF Descriptors, Descriptor
<1>4. \A i \in R : x[i] = Descriptor(g.type, i) /\ x[i] \in V
  OBVIOUS
<1>5. x \in [R -> V]
  BY <1>4
<1>6. seqs = [i \in 1 .. n |-> IF g.type[i].kind = "pad" THEN <<>> ELSE <<Descriptor(g.type, i)>>]
  BY <1>1
<1> HIDE DEF n, R, x, V, seqs
<1>7. \A i \in 1 .. n : seqs[i] = IF i \in R THEN <<x[i]>> ELSE <<>>
  BY <1>2, <1>4, <1>6
<1>8. \A i \in 1 .. n : seqs[i] \in Seq(V)
  <2> SUFFICES ASSUME NEW i \in 1 .. n PROVE seqs[i] \in Seq(V)
    OBVIOUS
  <2>1. CASE i \in R
    <3>1. seqs[i] = <<x[i]>> /\ x[i] \in V
      BY <1>4, <1>7, <2>1
    <3>2. QED
      BY <3>1
  <2>2. CASE i \notin R
    <3>1. seqs[i] = <<>>
      BY <1>7, <2>2
    <3>2. QED
      BY <3>1
  <2>3. QED
    BY <2>1, <2>2
<1>9. seqs \in [1 .. n -> Seq(V)]
  BY <1>6, <1>8
<1>10. \E r : Picks(R, V, x, FlattenSeq(seqs), r)
  BY <1>1, <1>2, <1>5, <1>7, <1>9, Picked
<1>11. QED
  BY <1>3, <1>10 DEF R, x

(* What the bounds of the descriptors say about the fields between them. *)
LEMMA FieldGaps ==
    ASSUME NEW g, IsTable(g), NEW V, NEW x, NEW list, NEW r,
           Picks(Real(g), V, x, list, r), NEW k \in 0 .. Len(list)
    PROVE  LET b == Bounds(Width(g), list, r) IN
           /\ b[k] \in 0 .. Width(g) /\ b[k + 1] \in 1 .. Width(g) + 1
           /\ b[k + 1] \in {b[k] + 1, b[k] + 2}
           /\ b[k + 1] = b[k] + 2 =>
                /\ b[k] + 1 \in 1 .. Width(g) /\ g.type[b[k] + 1].kind = "pad"
                /\ k # 0 => /\ g.type[b[k]].kind \in {"int", "float", "str"}
                            /\ g.type[b[k]].kind = "int" /\ g.type[b[k]].size = 1 =>
                                 g.type[b[k] + 1].size < 4
           /\ k # 0 => b[k] = r[k] /\ b[k] \in Real(g)
<1> DEFINE n == Width(g)
           b == Bounds(n, list, r)
           p == b[k]
           q == b[k + 1]
<1>1. n \in Nat /\ DOMAIN g.type = 1 .. n
  BY TableParts
<1>2. Real(g) \in SUBSET (1 .. n) /\ \A i \in 1 .. n : i \in Real(g) <=> g.type[i].kind # "pad"
  BY <1>1 DEF Real
<1> HIDE DEF n, b
<1>3. /\ p \in 0 .. n /\ q \in 1 .. n + 1 /\ p < q
      /\ \A e \in Real(g) : ~(p < e /\ e < q)
      /\ k # 0 => p = r[k] /\ r[k] \in Real(g)
  <2>1. GapAt(n, Real(g), b, r, k)
    BY <1>1, <1>2, Gaps DEF b
  <2>2. QED
    BY <2>1 DEF GapAt
<1> HIDE DEF p, q
<1>4. \A e \in 1 .. n : p < e /\ e < q => g.type[e].kind = "pad"
  BY <1>2, <1>3
<1>5. ASSUME NEW e \in 1 .. n, g.type[e].kind = "pad", e # 1
      PROVE  /\ g.type[e - 1].kind \in {"int", "float", "str"}
             /\ g.type[e - 1].kind = "int" /\ g.type[e - 1].size = 1 => g.type[e].size < 4
  <2>1. /\ g.type[e].kind # "int" /\ g.type[e].kind \notin {"float", "str"}
        /\ g.type[e].kind # "fix"
    BY <1>5
  <2>2. e \in DOMAIN g.type
    BY <1>1
  <2>3. \/ e = 1
        \/ g.type[e - 1].kind \in {"float", "str"}
        \/ /\ g.type[e - 1].kind = "int"
           /\ g.type[e - 1].size = 1 => g.type[e].size < 4
    BY <2>1, <2>2, Zenon DEF IsTable, IsType
  <2>4. QED
    BY <1>5, <2>3
<1>6. q <= p + 2
  <2> SUFFICES ASSUME q > p + 2 PROVE FALSE
    BY <1>1, <1>3
  <2> DEFINE e == p + 2
             d == p + 1
  <2>1. e \in 1 .. n /\ d \in 1 .. n /\ e # 1 /\ e - 1 = d /\ p < e /\ e < q /\ p < d /\ d < q
    BY <1>1, <1>3
  <2> HIDE DEF e, d
  <2>2. g.type[e].kind = "pad" /\ g.type[d].kind = "pad"
    BY <1>4, <2>1
  <2>3. g.type[d].kind \in {"int", "float", "str"}
    BY <1>5, <2>1, <2>2
  <2>4. QED
    BY <2>2, <2>3
<1>7. ASSUME q = p + 2
      PROVE  /\ p + 1 \in 1 .. n /\ g.type[p + 1].kind = "pad"
             /\ k # 0 => /\ g.type[p].kind \in {"int", "float", "str"}
                         /\ g.type[p].kind = "int" /\ g.type[p].size = 1 => g.type[p + 1].size < 4
  <2> DEFINE e == p + 1
  <2>1. e \in 1 .. n /\ p < e /\ e < q /\ e - 1 = p
    BY <1>1, <1>3, <1>7
  <2>2. k # 0 => e # 1
    BY <1>2, <1>3
  <2> HIDE DEF e
  <2>3. g.type[e].kind = "pad"
    BY <1>4, <2>1
  <2>4. k # 0 => /\ g.type[p].kind \in {"int", "float", "str"}
                 /\ g.type[p].kind = "int" /\ g.type[p].size = 1 => g.type[e].size < 4
    BY <1>5, <2>1, <2>2, <2>3
  <2>5. QED
    BY <2>1, <2>3, <2>4 DEF e
<1>8. q \in {p + 1, p + 2}
  BY <1>1, <1>3, <1>6
<1>9. QED
  BY <1>3, <1>7, <1>8 DEF p, q, b, n

(* f describes the fields of g; r are those that have a descriptor.          *)
Describes(g, f, V, r) ==
    /\ Picks(Real(g), V, [i \in Real(g) |-> Descriptor(g.type, i)], f.types, r)
    /\ f.msg_descr_size = msg_descr_size(g)

FieldBounds(g, f, r) == Bounds(Width(g), f.types, r)

(* The field behind a descriptor begins where the next one says. *)
LEMMA NextIsNext ==
    ASSUME NEW g, IsTable(g), NEW f, NEW V, NEW r, Describes(g, f, V, r),
           NEW k \in 0 .. Len(f.types)
    PROVE  NextOffset(f, k) = FieldOffset(g.type, FieldBounds(g, f, r)[k + 1])
<1> DEFINE n == Width(g)
           K == Len(f.types)
           l == k + 1
           b == FieldBounds(g, f, r)
<1>1. /\ K \in Nat /\ r \in [1 .. K -> Real(g)]
      /\ \A m \in 1 .. K : f.types[m] = [i \in Real(g) |-> Descriptor(g.type, i)][r[m]]
  BY DEF Describes, Picks
<1>2. b = [m \in 0 .. K + 1 |-> IF m = 0 THEN 0 ELSE IF m = K + 1 THEN n + 1 ELSE r[m]]
  BY DEF FieldBounds, Bounds
<1> HIDE DEF b, K
<1>3. CASE k = K
  <2>1. l \in 0 .. K + 1 /\ l # 0 /\ l = K + 1
    BY <1>1, <1>3
  <2>2. b[l] = n + 1
    BY <1>2, <2>1
  <2>3. NextOffset(f, k) = f.msg_descr_size
    BY <1>3 DEF NextOffset, K
  <2>4. f.msg_descr_size = FieldOffset(g.type, n + 1)
    BY FieldOffsets DEF Describes
  <2>5. QED
    BY <2>2, <2>3, <2>4 DEF b
<1>4. CASE k # K
  <2>1. l \in 1 .. K /\ l \in 0 .. K + 1 /\ l # 0 /\ l # K + 1
    BY <1>1, <1>4 DEF K
  <2>2. b[l] = r[l]
    BY <1>2, <2>1
  <2>3. NextOffset(f, k) = f.types[l].offset
    BY <1>4 DEF NextOffset, K
  <2>4. r[l] \in Real(g)
    BY <1>1, <2>1
  <2>5. f.types[l] = Descriptor(g.type, r[l])
    BY <1>1, <2>1, <2>4
  <2>6. f.types[l].offset = FieldOffset(g.type, r[l])
    BY <2>5 DEF Descriptor
  <2>7. QED
    BY <2>2, <2>3, <2>6 DEF b
<1>5. QED
  BY <1>3, <1>4

(* A field is its kind and its size. *)
LEMMA FieldIs ==
    ASSUME NEW g, IsTable(g), NEW i \in DOMAIN g.type
    PROVE  /\ g.type[i] \in [kind : {"int", "float", "str", "fix", "pad"}, size : Nat \ {0}]
           /\ g.type[i] = [kind |-> g.type[i].kind, size |-> g.type[i].size]
           /\ g.type[i].kind = "fix" => g.type[i].size > 4
           /\ g.type[i].size \in Nat \ {0}
<1> DEFINE R == [kind : {"int", "float", "str", "fix", "pad"}, size : Nat \ {0}]
           t == g.type
           v == g.type[i]
<1>1. t \in Seq(R) /\ i \in DOMAIN t
  BY DEF IsTable, IsType
<1>2. v \in R
  <2> HIDE DEF R, t
  <2>1. t[i] \in R
    BY <1>1
  <2>2. QED
    BY <2>1 DEF t
<1>3. v.kind = "fix" => v.size > 4
  <2> SUFFICES ASSUME v.kind = "fix" PROVE v.size > 4
    OBVIOUS
  <2>1. v.kind # "int" /\ v.kind \notin {"float", "str"}
    OBVIOUS
  <2>2. QED
    BY <2>1, Zenon DEF IsTable, IsType
<1> HIDE DEF v
<1>4. v = [kind |-> v.kind, size |-> v.size]
  BY <1>2
<1>5. v.size \in Nat \ {0}
  BY <1>2, FieldRecord
<1>6. QED
  BY <1>2, <1>3, <1>4, <1>5 DEF v

(* What Parse_ makes of a descriptor: the field, and the padding behind it.  *)
ReadsFields(g, item, p, q) ==
    /\ item \in Seq(ToSet(g.type))
    /\ Len(item) = q - p
    /\ \A m \in 1 .. Len(item) : item[m] = g.type[p + m - 1]

LEMMA ItemRead ==
    ASSUME NEW g, IsTable(g), NEW f, NEW V, NEW r, Describes(g, f, V, r),
           NEW k \in 1 .. Len(f.types)
    PROVE  ReadsFields(g, ReadItem(f, k), FieldBounds(g, f, r)[k], FieldBounds(g, f, r)[k + 1])
<1> DEFINE n == Width(g)
           b == FieldBounds(g, f, r)
           p == b[k]
           q == b[k + 1]
           T == ToSet(g.type)
<1>1. n \in Nat /\ DOMAIN g.type = 1 .. n
  BY TableParts
<1>2. k \in 0 .. Len(f.types) /\ k # 0
  OBVIOUS
<1>3. /\ p \in 0 .. n /\ q \in 1 .. n + 1
      /\ q \in {p + 1, p + 2}
      /\ q = p + 2 =>
           /\ p + 1 \in 1 .. n /\ g.type[p + 1].kind = "pad"
           /\ g.type[p].kind \in {"int", "float", "str"}
           /\ g.type[p].kind = "int" /\ g.type[p].size = 1 => g.type[p + 1].size < 4
      /\ p = r[k] /\ p \in Real(g)
  <2>1. Picks(Real(g), V, [i \in Real(g) |-> Descriptor(g.type, i)], f.types, r)
    BY DEF Describes
  <2>2. QED
    BY <1>2, <2>1, FieldGaps DEF FieldBounds
<1>4. NextOffset(f, k) = FieldOffset(g.type, q)
  BY <1>2, NextIsNext
<1>5. f.types[k] = Descriptor(g.type, p)
  <2>1. f.types[k] = [i \in Real(g) |-> Descriptor(g.type, i)][r[k]]
    BY DEF Describes, Picks
  <2>2. QED
    BY <1>3, <2>1
<1> DEFINE t == f.types[k]
           v == g.type[p]
           gap == NextOffset(f, k) - t.offset - t.size
<1>6. /\ t.offset = FieldOffset(g.type, p)
      /\ t.kind = IF v.kind = "fix" THEN "int" ELSE v.kind
      /\ t.size = IF v.kind = "fix" THEN 1 ELSE v.size
  BY <1>5 DEF Descriptor
<1>7. p \in 1 .. n /\ p \in DOMAIN g.type /\ v \in T
  BY <1>1, <1>3 DEF Real, ToSet
<1>8. /\ v = [kind |-> v.kind, size |-> v.size] /\ v.size \in Nat \ {0}
      /\ v.kind = "fix" => v.size > 4
  BY <1>7, FieldIs
<1>9. ReadItem(f, k) = IF t.kind = "int" /\ t.size = 1 /\ gap > 3
                       THEN <<[kind |-> "fix", size |-> gap + 1]>>
                       ELSE <<[kind |-> t.kind, size |-> t.size]>> \o Padding(gap)
  BY DEF ReadItem
<1> DEFINE o == FieldOffset(g.type, p)
           c == FieldOffset(g.type, p + 1)
<1>10. o \in Nat /\ c = o + v.size
  <2>1. p \in 1 .. n + 1 /\ p \in 1 .. n
    <3> HIDE DEF n, p
    <3>1. QED
      BY <1>1, <1>7
  <2>2. v = g.type[p]
    OBVIOUS
  <2> HIDE DEF p, v
  <2>3. o \in Nat
    BY <2>1, FieldOffsets DEF n
  <2>4. c = o + v.size
    BY <2>1, <2>2, FieldOffsets DEF n
  <2>5. QED
    BY <2>3, <2>4
<1> HIDE DEF n, b, p, q, t, v, o, c, T
<1>11. gap = FieldOffset(g.type, q) - o - t.size
  BY <1>4, <1>6 DEF o
<1>12. CASE q = p + 1
  <2>1. gap = c - o - t.size
    BY <1>11, <1>12 DEF c
  <2> HIDE DEF gap
  <2>2. CASE v.kind = "fix"
    <3>1. gap = v.size - 1 /\ t.kind = "int" /\ t.size = 1 /\ gap > 3 /\ gap + 1 = v.size
      BY <1>6, <1>8, <1>10, <2>1, <2>2
    <3>2. ReadItem(f, k) = <<[kind |-> "fix", size |-> gap + 1]>>
      BY <1>9, <3>1
    <3>3. ReadItem(f, k) = <<v>>
      BY <1>8, <2>2, <3>1, <3>2
    <3>4. QED
      BY <1>7, <1>12, <3>3 DEF ReadsFields, v, T, p, q, b
  <2>3. CASE v.kind # "fix"
    <3>1. gap = 0 /\ t.kind = v.kind /\ t.size = v.size
      BY <1>6, <1>8, <1>10, <2>1, <2>3
    <3>2. Padding(gap) = <<>>
      BY <3>1 DEF Padding
    <3>3. ~(t.kind = "int" /\ t.size = 1 /\ gap > 3)
      BY <3>1
    <3>4. ReadItem(f, k) = <<[kind |-> t.kind, size |-> t.size]>> \o <<>>
      BY <1>9, <3>2, <3>3
    <3>5. [kind |-> t.kind, size |-> t.size] = v
      BY <1>8, <3>1
    <3>6. ReadItem(f, k) = <<v>> \o <<>>
      BY <3>4, <3>5
    <3>7. ReadItem(f, k) = <<v>>
      BY <3>6
    <3>8. QED
      BY <1>7, <1>12, <3>7 DEF ReadsFields, v, T, p, q, b
  <2>4. QED
    BY <2>2, <2>3
<1>13. CASE q = p + 2
  <2> DEFINE e == p + 1
             w == g.type[e]
             d == FieldOffset(g.type, e + 1)
  <2>1. e \in 1 .. n /\ w.kind = "pad" /\ v.kind \in {"int", "float", "str"}
        /\ (v.kind = "int" /\ v.size = 1 => w.size < 4)
    BY <1>3, <1>13 DEF p, q, v, b
  <2>2. w \in T /\ w = [kind |-> w.kind, size |-> w.size] /\ w.size \in Nat \ {0}
    <3>1. e \in DOMAIN g.type
      BY <1>1, <2>1 DEF n
    <3>2. QED
      BY <3>1, FieldIs DEF T, ToSet
  <2>3. d = c + w.size
    BY <2>1, FieldOffsets DEF n, c
  <2>4. e + 1 = q
    BY <1>7, <1>13
  <2>5. gap = d - o - t.size
    BY <1>11, <2>4
  <2> HIDE DEF gap, d, w
  <2>6. t.kind = v.kind /\ t.size = v.size
    BY <1>6, <2>1
  <2>7. gap = w.size
    BY <1>8, <1>10, <2>2, <2>3, <2>5, <2>6
  <2>8. ReadItem(f, k) = <<[kind |-> t.kind, size |-> t.size]>> \o Padding(gap)
    BY <1>9, <2>1, <2>2, <2>6, <2>7
  <2>9. Padding(gap) = <<w>>
    BY <2>1, <2>2, <2>7 DEF Padding
  <2>10. ReadItem(f, k) = <<v>> \o <<w>>
    BY <1>8, <2>6, <2>8, <2>9
  <2>11. w = g.type[p + 1] /\ v = g.type[p] /\ p \in Nat
    BY <1>7 DEF w, v
  <2>12. QED
    <3> DEFINE i == ReadItem(f, k)
    <3>1. i \in Seq(T) /\ Len(i) = 2 /\ i[1] = v /\ i[2] = w
      BY <1>7, <2>2, <2>10
    <3> HIDE DEF i
    <3>2. \A m \in 1 .. Len(i) : i[m] = g.type[p + m - 1]
      BY <2>11, <3>1
    <3>3. Len(i) = q - p
      BY <1>13, <2>11, <3>1
    <3>4. ReadsFields(g, i, p, q)
      BY <3>1, <3>2, <3>3 DEF ReadsFields, T
    <3>5. QED
      BY <3>4 DEF i, p, q, b
<1>14. QED
  BY <1>3, <1>12, <1>13 DEF p, q, b

(* A descriptor is behind the last one, and the last field is behind all.    *)
BoundsRise(n, K, b) ==
    /\ K \in Nat /\ b \in [0 .. K + 1 -> Nat] /\ b[K + 1] = n + 1
    /\ \A k \in 1 .. K : b[k] < b[k + 1]

LEMMA FieldsRise ==
    ASSUME NEW g, IsTable(g), NEW f, NEW V, NEW r, Describes(g, f, V, r)
    PROVE  BoundsRise(Width(g), Len(f.types), FieldBounds(g, f, r))
<1> DEFINE n == Width(g)
           K == Len(f.types)
           b == FieldBounds(g, f, r)
           R == Real(g)
           x == [i \in R |-> Descriptor(g.type, i)]
<1>1. n \in Nat /\ R \in SUBSET (1 .. n)
  BY TableParts DEF Real
<1>2. Picks(R, V, x, f.types, r)
  BY DEF Describes
<1>3. K \in Nat /\ r \in [1 .. K -> R]
  BY <1>2 DEF Picks
<1>4. b = [k \in 0 .. K + 1 |-> IF k = 0 THEN 0 ELSE IF k = K + 1 THEN n + 1 ELSE r[k]]
  BY DEF FieldBounds, Bounds
<1>5. ASSUME NEW k \in 1 .. K PROVE b[k] < b[k + 1]
  <2>1. k \in 0 .. Len(f.types)
    BY <1>3
  <2> HIDE DEF x, R
  <2>2. GapAt(n, R, Bounds(n, f.types, r), r, k)
    BY <1>1, <1>2, <2>1, Gaps
  <2>3. QED
    BY <2>2 DEF GapAt, FieldBounds
<1> HIDE DEF n, K, b, R
<1>6. b \in [0 .. K + 1 -> Nat] /\ b[K + 1] = n + 1
  <2>1. \A k \in 0 .. K + 1 : k # 0 /\ k # K + 1 => k \in 1 .. K
    BY <1>3
  <2>2. ASSUME NEW k \in 1 .. K PROVE r[k] \in Nat
    <3>1. r[k] \in R
      BY <1>3
    <3>2. r[k] \in 1 .. n
      BY <1>1, <3>1
    <3>3. QED
      BY <3>2
  <2>3. QED
    BY <1>1, <1>3, <1>4, <2>1, <2>2
<1>7. QED
  BY <1>3, <1>5, <1>6 DEF BoundsRise, n, K, b

(* The padding before all fields. *)
LEMMA HeadRead ==
    ASSUME NEW g, IsTable(g), NEW f, NEW V, NEW r, Describes(g, f, V, r)
    PROVE  /\ ReadsFields(g, Padding(NextOffset(f, 0)), 1, FieldBounds(g, f, r)[1])
           /\ FieldBounds(g, f, r)[1] \in {1, 2}
<1> DEFINE n == Width(g)
           K == Len(f.types)
           b == FieldBounds(g, f, r)
           p == b[0]
           q == b[1]
           T == ToSet(g.type)
           x == [i \in Real(g) |-> Descriptor(g.type, i)]
<1>1. n \in Nat /\ DOMAIN g.type = 1 .. n
  BY TableParts
<1>2. Picks(Real(g), V, x, f.types, r)
  BY DEF Describes
<1>3. K \in Nat /\ 0 \in 0 .. Len(f.types)
  BY <1>2 DEF Picks
<1>4. p = 0
  BY <1>3 DEF FieldBounds, Bounds
<1>5. /\ q \in {p + 1, p + 2}
      /\ q = p + 2 => p + 1 \in 1 .. n /\ g.type[p + 1].kind = "pad"
  <2> DEFINE k == 0
             l == k + 1
             c == Bounds(Width(g), f.types, r)
  <2> HIDE DEF k, x, c
  <2>1. k \in 0 .. Len(f.types)
    BY <1>3 DEF k
  <2>2. /\ c[l] \in {c[k] + 1, c[k] + 2}
        /\ c[l] = c[k] + 2 => c[k] + 1 \in 1 .. Width(g) /\ g.type[c[k] + 1].kind = "pad"
    BY <1>2, <2>1, FieldGaps DEF c
  <2>3. l = 1 /\ c[k] = p /\ c[1] = q
    BY DEF k, c, FieldBounds
  <2>4. QED
    BY <2>2, <2>3
<1>6. NextOffset(f, 0) = FieldOffset(g.type, q)
  <2> DEFINE k == 0
  <2> HIDE DEF k
  <2>1. k \in 0 .. Len(f.types)
    BY <1>3 DEF k
  <2>2. NextOffset(f, k) = FieldOffset(g.type, FieldBounds(g, f, r)[k + 1])
    BY <2>1, NextIsNext
  <2>3. QED
    BY <2>2 DEF k
<1> HIDE DEF b, x
<1>7. CASE q = 1
  <2>1. NextOffset(f, 0) = 0
    BY <1>6, <1>7, FieldOffsets
  <2>2. Padding(NextOffset(f, 0)) = <<>>
    BY <2>1 DEF Padding
  <2>3. ReadsFields(g, <<>>, 1, 1)
    BY DEF ReadsFields
  <2>4. QED
    BY <1>7, <2>2, <2>3 DEF b
<1>8. CASE q = 2
  <2> DEFINE v == g.type[1]
             a == FieldOffset(g.type, 1)
             d == FieldOffset(g.type, 2)
  <2>1. 1 \in 1 .. n /\ v.kind = "pad"
    BY <1>4, <1>5, <1>8
  <2>2. v = [kind |-> v.kind, size |-> v.size] /\ v.size \in Nat \ {0} /\ v \in T
    <3>1. 1 \in DOMAIN g.type
      BY <1>1, <2>1
    <3>2. QED
      BY <3>1, FieldIs DEF ToSet
  <2>3. a = 0 /\ d = a + v.size
    <3> DEFINE i == 1
    <3> HIDE DEF i
    <3>1. i \in 1 .. Width(g)
      BY <2>1 DEF i
    <3>2. FieldOffset(g.type, i + 1) = FieldOffset(g.type, i) + g.type[i].size
      BY <3>1, FieldOffsets
    <3>3. i = 1 /\ i + 1 = 2
      BY DEF i
    <3>4. QED
      BY <3>2, <3>3, FieldOffsets
  <2>4. NextOffset(f, 0) = d
    BY <1>6, <1>8
  <2> HIDE DEF d, a, v, T
  <2>5. NextOffset(f, 0) = v.size /\ v.size # 0
    BY <2>2, <2>3, <2>4
  <2>6. Padding(NextOffset(f, 0)) = <<v>>
    BY <2>1, <2>2, <2>5 DEF Padding
  <2>7. ReadsFields(g, <<v>>, 1, 2)
    BY <2>2 DEF ReadsFields, v, T
  <2>8. QED
    BY <1>8, <2>6, <2>7 DEF b
<1>9. QED
  BY <1>4, <1>5, <1>7, <1>8 DEF b

(* Parse_ finds the fields of the table in the descriptors of its file.      *)
LEMMA TypeRead ==
    ASSUME NEW g, IsTable(g), NEW f, NEW V, NEW r, Describes(g, f, V, r)
    PROVE  ReadType(f) = g.type
<1> DEFINE n == Width(g)
           K == Len(f.types)
           b == FieldBounds(g, f, r)
           T == ToSet(g.type)
           head == Padding(NextOffset(f, 0))
           seqs == [k \in 1 .. K |-> ReadItem(f, k)]
           at == [k \in 1 .. K + 1 |-> b[k] - b[1]]
           flat == FlattenSeq(seqs)
<1>1. n \in Nat /\ DOMAIN g.type = 1 .. n /\ Len(g.type) = n
  BY TableParts DEF Width
<1>2. /\ K \in Nat /\ b \in [0 .. K + 1 -> Nat] /\ b[K + 1] = n + 1
      /\ \A k \in 1 .. K : b[k] < b[k + 1]
  BY FieldsRise DEF BoundsRise
<1>3. /\ head \in Seq(T) /\ Len(head) = b[1] - 1 /\ b[1] \in {1, 2}
      /\ \A m \in 1 .. Len(head) : head[m] = g.type[m]
  <2>1. ReadsFields(g, head, 1, b[1]) /\ b[1] \in {1, 2}
    BY HeadRead
  <2> HIDE DEF head, b
  <2>2. \A m \in 1 .. Len(head) : head[m] = g.type[1 + m - 1] /\ 1 + m - 1 = m
    BY <2>1 DEF ReadsFields
  <2>3. QED
    BY <2>1, <2>2 DEF ReadsFields
<1>4. \A k \in 1 .. K : ReadsFields(g, seqs[k], b[k], b[k + 1])
  BY ItemRead
<1>5. ReadType(f) = Join(head, flat)
  <2>1. f.types \in Seq(V)
    BY DEF Describes, Picks
  <2>2. DOMAIN f.types = 1 .. K
    BY <2>1
  <2>3. ReadType(f) = head \o FlattenSeq([k \in DOMAIN f.types |-> ReadItem(f, k)])
    BY DEF ReadType
  <2>4. QED
    BY <2>2, <2>3 DEF Join
<1>6. seqs \in [1 .. K -> Seq(T)] /\ \A k \in 1 .. K : Len(seqs[k]) = b[k + 1] - b[k]
  <2> DEFINE s == seqs
  <2>1. s = [k \in 1 .. K |-> s[k]]
    OBVIOUS
  <2> HIDE DEF s
  <2>2. \A k \in 1 .. K : s[k] \in Seq(T) /\ Len(s[k]) = b[k + 1] - b[k]
    BY <1>4 DEF ReadsFields, s
  <2>3. QED
    BY <2>1, <2>2 DEF s
<1> HIDE DEF n, K, b, head, seqs
<1>7. \A k \in 1 .. K : k \in 0 .. K + 1 /\ k + 1 \in 0 .. K + 1 /\ k \in 1 .. K + 1 /\ k + 1 \in 1 .. K + 1
  BY <1>2
<1>8. at \in [1 .. K + 1 -> Nat]
  <2> DEFINE S == {k \in 1 .. K + 1 : b[k] >= b[1]}
  <2>1. 1 \in 0 .. K + 1 /\ b[1] \in Nat /\ \A k \in 1 .. K + 1 : b[k] \in Nat
    BY <1>2
  <2>2. 1 \in S
    BY <1>2, <2>1
  <2>3. ASSUME NEW k \in 1 .. K, k \in S PROVE k + 1 \in S
    <3>1. b[k] < b[k + 1] /\ b[k] >= b[1] /\ k + 1 \in 1 .. K + 1 /\ k \in 1 .. K + 1
      BY <1>2, <1>7, <2>3
    <3>2. b[k] \in Nat /\ b[k + 1] \in Nat
      BY <2>1, <3>1
    <3>3. QED
      BY <2>1, <3>1, <3>2
  <2> HIDE DEF S
  <2>4. \A k \in 1 .. K + 1 : k \in S
    BY <1>2, <2>2, <2>3, Induction
  <2>5. \A k \in 1 .. K + 1 : b[k] - b[1] \in Nat
    BY <2>1, <2>4 DEF S
  <2>6. QED
    BY <2>5
<1>9. Laid(T, K, seqs, at)
  <2>1. \A k \in 1 .. K : at[k + 1] = at[k] + Len(seqs[k])
    <3> SUFFICES ASSUME NEW k \in 1 .. K PROVE at[k + 1] = at[k] + Len(seqs[k])
      OBVIOUS
    <3>1. at[k + 1] = b[k + 1] - b[1] /\ at[k] = b[k] - b[1]
      BY <1>7
    <3>2. b[k + 1] \in Nat /\ b[k] \in Nat /\ b[1] \in Nat
      BY <1>2, <1>7
    <3>3. Len(seqs[k]) = b[k + 1] - b[k]
      BY <1>6
    <3>4. QED
      BY <3>1, <3>2, <3>3
  <2>2. at[1] = 0
    BY <1>2, <1>3
  <2> HIDE DEF at
  <2>3. QED
    BY <1>2, <1>6, <1>8, <2>1, <2>2 DEF Laid
<1>10. Joins(T, K, seqs, at, flat)
  <2> HIDE DEF at
  <2>1. QED
    BY <1>9, Flattened
<1> HIDE DEF flat
<1>11. /\ flat \in Seq(T) /\ Len(flat) = n + 1 - b[1]
       /\ \A k \in 1 .. K : \A m \in 1 .. Len(seqs[k]) : flat[at[k] + m] = seqs[k][m]
  <2>1. at[K + 1] = n + 1 - b[1]
    <3>1. K + 1 \in 1 .. K + 1
      BY <1>2
    <3>2. at[K + 1] = b[K + 1] - b[1]
      BY <3>1
    <3>3. b[K + 1] = n + 1
      BY <1>2
    <3> HIDE DEF at
    <3>4. QED
      <4>1. n \in Nat /\ b[1] \in Nat
        BY <1>1, <1>3
      <4>2. QED
        BY <3>2, <3>3, <4>1
  <2> HIDE DEF at
  <2>2. QED
    BY <1>10, <2>1 DEF Joins
<1> DEFINE S == {k \in 1 .. K + 1 :
                   \A e \in 1 .. n : b[1] <= e /\ e < b[k] => flat[e - b[1] + 1] = g.type[e]}
<1>12. 1 \in S
  <2>1. b[1] \in Nat /\ 1 \in 1 .. K + 1
    BY <1>2, <1>3
  <2>2. \A e \in 1 .. n : ~(b[1] <= e /\ e < b[1])
    BY <1>1, <2>1
  <2>3. QED
    BY <2>1, <2>2
<1>13. ASSUME NEW k \in 1 .. K, k \in S PROVE k + 1 \in S
  <2> DEFINE l == k + 1
  <2>1. l \in 1 .. K + 1 /\ k \in 1 .. K + 1 /\ b[k] \in Nat /\ b[l] \in Nat /\ b[1] \in Nat
    BY <1>2, <1>7
  <2>2. /\ at[k] = b[k] - b[1] /\ Len(seqs[k]) = b[l] - b[k]
        /\ \A m \in 1 .. Len(seqs[k]) : seqs[k][m] = g.type[b[k] + m - 1]
        /\ \A m \in 1 .. Len(seqs[k]) : flat[at[k] + m] = seqs[k][m]
    BY <1>4, <1>6, <1>11, <2>1 DEF ReadsFields
  <2> HIDE DEF l, at
  <2>3. ASSUME NEW e \in 1 .. n, b[1] <= e, e < b[l]
        PROVE  flat[e - b[1] + 1] = g.type[e]
    <3>1. CASE e < b[k]
      BY <1>13, <2>3, <3>1
    <3>2. CASE ~(e < b[k])
      <4> DEFINE m == e - b[k] + 1
      <4>1. m \in 1 .. Len(seqs[k]) /\ at[k] + m = e - b[1] + 1 /\ b[k] + m - 1 = e
        <5> DEFINE x == b[k]
                   y == b[l]
                   z == b[1]
                   u == at[k]
                   v == Len(seqs[k])
        <5>1. x \in Nat /\ y \in Nat /\ z \in Nat /\ u = x - z /\ v = y - x
          BY <2>1, <2>2
        <5>2. e \in Int /\ x <= e /\ e < y
          BY <1>1, <2>1, <2>3, <3>2
        <5>3. m = e - x + 1
          OBVIOUS
        <5> HIDE DEF x, y, z, u, v, m
        <5>4. m \in 1 .. v /\ u + m = e - z + 1 /\ x + m - 1 = e
          BY <5>1, <5>2, <5>3
        <5>5. QED
          BY <5>4 DEF x, z, u, v
      <4> HIDE DEF m
      <4>2. flat[at[k] + m] = seqs[k][m] /\ seqs[k][m] = g.type[b[k] + m - 1]
        BY <2>2, <4>1
      <4>3. QED
        BY <4>1, <4>2
    <3>3. QED
      BY <3>1, <3>2
  <2>4. QED
    BY <2>1, <2>3 DEF l
<1>14. \A e \in 1 .. n : b[1] <= e => flat[e - b[1] + 1] = g.type[e]
  <2> HIDE DEF S
  <2>1. \A k \in 1 .. K + 1 : k \in S
    BY <1>2, <1>12, <1>13, Induction
  <2>2. K + 1 \in S
    BY <1>2, <2>1
  <2>3. \A e \in 1 .. n : e < n + 1
    BY <1>1
  <2>4. QED
    BY <1>2, <2>2, <2>3 DEF S
<1> DEFINE t == Join(head, flat)
<1>15. /\ t \in Seq(T) /\ Len(t) = Len(head) + Len(flat)
       /\ \A i \in 1 .. Len(head) : t[i] = head[i]
       /\ \A i \in 1 .. Len(flat) : t[Len(head) + i] = flat[i]
  <2> HIDE DEF T
  <2>1. head \in Seq(T) /\ flat \in Seq(T)
    BY <1>3, <1>11
  <2>2. QED
    BY <2>1, Joined
<1> HIDE DEF t, at, S
<1>16. Len(t) = n
  BY <1>1, <1>3, <1>11, <1>15
<1>17. ASSUME NEW e \in 1 .. n PROVE t[e] = g.type[e]
  <2>1. CASE e < b[1]
    <3>1. e \in 1 .. Len(head)
      BY <1>3, <2>1
    <3>2. QED
      BY <1>3, <1>15, <3>1
  <2>2. CASE ~(e < b[1])
    <3> DEFINE i == e - b[1] + 1
    <3>1. i \in 1 .. Len(flat) /\ Len(head) + i = e /\ b[1] <= e
      BY <1>1, <1>3, <1>11, <2>2
    <3>2. flat[i] = g.type[e]
      BY <1>14, <3>1
    <3> HIDE DEF i
    <3>3. QED
      BY <1>15, <3>1, <3>2
  <2>3. QED
    BY <2>1, <2>2
<1>18. g.type \in Seq(T)
  <2> DEFINE R == [kind : {"int", "float", "str", "fix", "pad"}, size : Nat \ {0}]
             u == g.type
  <2>1. u \in Seq(R)
    BY TableParts
  <2>2. \A i \in 1 .. n : u[i] \in T
    BY <1>1 DEF ToSet
  <2> HIDE DEF R, T, u
  <2>3. Len(u) \in Nat /\ u = [i \in 1 .. Len(u) |-> u[i]] /\ Len(u) = n
    BY <1>1, <2>1 DEF u
  <2>4. u \in [1 .. n -> T]
    BY <2>2, <2>3
  <2>5. QED
    BY <1>1, <2>4 DEF u
<1>19. t = g.type
  <2> DEFINE u == g.type
  <2> HIDE DEF u, T
  <2>1. t \in Seq(T) /\ u \in Seq(T) /\ Len(t) = n /\ Len(u) = n /\ \A e \in 1 .. n : t[e] = u[e]
    BY <1>1, <1>15, <1>16, <1>17, <1>18 DEF u
  <2>2. QED
    BY <1>1, <2>1 DEF u
<1>20. QED
  BY <1>5, <1>19 DEF t

-----------------------------------------------------------------------------
(* Reading a file back *)

(* No two fields of a file are at the same place. *)
LEMMA CellsApart ==
    ASSUME NEW g, IsTable(g), NEW j \in DOMAIN g.messages, NEW i \in DOMAIN g.type,
           NEW l \in DOMAIN g.messages, NEW k \in DOMAIN g.type,
           CellOfFile(g, j, i).at = CellOfFile(g, l, k).at
    PROVE  j = l /\ i = k
<1> DEFINE n == Width(g)
           w == msg_descr_size(g)
           a == RowsStart(g)
           o == FieldOffset(g.type, i)
           p == FieldOffset(g.type, k)
<1>1. /\ n \in Nat /\ DOMAIN g.type = 1 .. n
      /\ DOMAIN g.messages = 1 .. Len(g.messages) /\ Len(g.messages) \in Nat
  BY TableParts
<1>2. i \in 1 .. n /\ k \in 1 .. n /\ j \in Nat \ {0} /\ l \in Nat \ {0}
  BY <1>1
<1>3. w = FieldOffset(g.type, n + 1)
  BY FieldOffsets
<1>4. n + 1 \in 1 .. n + 1 /\ i < n + 1 /\ k < n + 1
  BY <1>1, <1>2
<1>5. o \in Nat /\ p \in Nat /\ w \in Nat /\ o < w /\ p < w
  <2> DEFINE m == n + 1
  <2> HIDE DEF m
  <2>1. m \in 1 .. n + 1 /\ i < m /\ k < m /\ w = FieldOffset(g.type, m)
    BY <1>3, <1>4 DEF m
  <2>2. o \in Nat /\ FieldOffset(g.type, m) \in Nat /\ o < FieldOffset(g.type, m)
    BY <1>2, <2>1, FieldsApart
  <2>3. p \in Nat /\ p < FieldOffset(g.type, m)
    BY <1>2, <2>1, FieldsApart
  <2> HIDE DEF w, o, p
  <2>4. QED
    BY <2>1, <2>2, <2>3
<1>6. CellOfFile(g, j, i).at = a + w * (j - 1) + o
  BY DEF CellOfFile
<1>7. CellOfFile(g, l, k).at = a + w * (l - 1) + p
  BY DEF CellOfFile
<1>8. a \in Nat
  BY LayoutNumbers
<1> DEFINE x == j - 1
           y == l - 1
<1>9. x \in Nat /\ y \in Nat
  BY <1>2
<1> HIDE DEF n, w, a, o, p, x, y
<1>10. w * x + o = w * y + p
  <2>1. w * x \in Nat /\ w * y \in Nat
    BY <1>5, <1>9
  <2>2. a + w * x + o = a + w * y + p
    BY <1>6, <1>7 DEF x, y
  <2>3. QED
    BY <1>5, <1>8, <2>1, <2>2
<1>11. w \in Nat \ {0} /\ o \in 0 .. w - 1 /\ p \in 0 .. w - 1
  BY <1>5
<1>12. x = y /\ o = p
  BY <1>9, <1>10, <1>11, OneDivision
<1>13. j = l
  BY <1>2, <1>12 DEF x, y
<1>14. i = k
  <2>1. CASE i < k
    <3>1. k \in 1 .. n + 1
      BY <1>1, <1>2
    <3>2. o < p /\ o \in Nat
      BY <1>2, <2>1, <3>1, FieldsApart DEF o, p, n
    <3>3. QED
      BY <1>12, <3>2
  <2>2. CASE k < i
    <3>1. i \in 1 .. n + 1
      BY <1>1, <1>2
    <3>2. p < o /\ p \in Nat
      BY <1>2, <2>2, <3>1, FieldsApart DEF o, p, n
    <3>3. QED
      BY <1>12, <3>2
  <2>3. QED
    BY <1>1, <1>2, <2>1, <2>2
<1>15. QED
  BY <1>13, <1>14

(* What a file has are the fields of the messages. *)
LEMMA CellsOfFile ==
    ASSUME NEW g, IsTable(g)
    PROVE  /\ \A c \in FileCells(Dump(g)) : \E j \in DOMAIN g.messages : \E i \in DOMAIN g.type :
                c = CellOfFile(g, j, i)
           /\ \A j \in DOMAIN g.messages : \A i \in DOMAIN g.type :
                CellOfFile(g, j, i) \in FileCells(Dump(g))
<1> DEFINE rows == FileRows(g)
<1>1. FileCells(Dump(g)) = UNION {ToSet(rows[j]) : j \in DOMAIN rows}
  BY DumpFields DEF FileCells
<1>2. DOMAIN rows = DOMAIN g.messages
  BY DEF FileRows
<1>3. \A j \in DOMAIN g.messages :
        /\ DOMAIN rows[j] = DOMAIN g.type
        /\ \A i \in DOMAIN g.type : rows[j][i] = CellOfFile(g, j, i)
  BY DEF FileRows
<1> HIDE DEF rows
<1>4. ASSUME NEW c \in FileCells(Dump(g))
      PROVE  \E j \in DOMAIN g.messages : \E i \in DOMAIN g.type : c = CellOfFile(g, j, i)
  <2>1. PICK j \in DOMAIN rows : c \in ToSet(rows[j])
    BY <1>1
  <2>2. PICK i \in DOMAIN rows[j] : c = rows[j][i]
    BY <2>1 DEF ToSet
  <2>3. QED
    BY <1>2, <1>3, <2>1, <2>2
<1>5. ASSUME NEW j \in DOMAIN g.messages, NEW i \in DOMAIN g.type
      PROVE  CellOfFile(g, j, i) \in FileCells(Dump(g))
  <2>1. CellOfFile(g, j, i) \in ToSet(rows[j])
    BY <1>3 DEF ToSet
  <2>2. j \in DOMAIN rows
    BY <1>2
  <2>3. QED
    BY <1>1, <2>1, <2>2
<1>6. QED
  BY <1>4, <1>5

(* The field that is read at a place is the one that was written there.      *)
LEMMA CellFound ==
    ASSUME NEW g, IsTable(g), NEW j \in DOMAIN g.messages, NEW i \in DOMAIN g.type
    PROVE  (CHOOSE c \in FileCells(Dump(g)) :
               c.at = CellOfFile(g, j, i).at /\ c.field = g.type[i]) = CellOfFile(g, j, i)
<1> DEFINE F == FileCells(Dump(g))
           d == CellOfFile(g, j, i)
           t == g.type[i]
           e == CHOOSE c \in F : c.at = d.at /\ c.field = t
<1>1. d \in F
  BY CellsOfFile
<1>2. d.field = t
  BY DEF CellOfFile
<1>3. \A c \in F : c.at = d.at => c = d
  <2> SUFFICES ASSUME NEW c \in F, c.at = d.at PROVE c = d
    OBVIOUS
  <2>1. PICK l \in DOMAIN g.messages, k \in DOMAIN g.type : c = CellOfFile(g, l, k)
    <3> HIDE DEF d
    <3>1. QED
      BY CellsOfFile
  <2>2. CellOfFile(g, l, k).at = CellOfFile(g, j, i).at
    BY <2>1
  <2>3. l = j /\ k = i
    BY <2>2, CellsApart
  <2>4. QED
    BY <2>1, <2>3
<1> HIDE DEF F, d, t
<1>4. e \in F /\ e.at = d.at /\ e.field = t
  BY <1>1, <1>2
<1>5. e = d
  <2> HIDE DEF e
  <2>1. QED
    BY <1>3, <1>4
<1>6. QED
  BY <1>5 DEF F, d, t

(* A file has the first of equal strings, where RecalcSize places them.      *)
StringsAt(g, F, base) ==
    /\ base \in Nat
    /\ \A s \in F : \E l \in Firsts(g) :
         s.str = Value(g, l).str /\ s.at = base + Places(g)[l]
    /\ \A l \in Firsts(g) : \E s \in F :
         s.str = Value(g, l).str /\ s.at = base + Places(g)[l]

StringsStart(g) == RowsStart(g) + ControlEnd(g)

FirstStrings(g, h) == StringsAt(g, FileStrings(h), StringsStart(h))

(* str is what is read from F at a place. *)
StringAt(F, at, str) ==
    /\ \E s \in F : s.at = at
    /\ (CHOOSE s \in F : s.at = at).str = str

LEMMA StringsOfFile ==
    ASSUME NEW g, IsTable(g)
    PROVE  FirstStrings(g, RecalcSize(g))
<1> DEFINE h == RecalcSize(g)
           S == {l \in Cells(h) : Walk(h)[l + 1] # Walk(h)[l]}
<1>1. /\ IsTable(h) /\ SameTexts(g, h)
  BY RecalcTable, RecalcSame
<1>2. Cells(h) = Cells(g) /\ Cells(g) = 1 .. Ended(g) /\ Ended(g) \in Nat
  <2> HIDE DEF h
  <2>1. QED
    BY <1>1, SameCells, CellsCounted
<1>3. \A l \in 1 .. Ended(g) + 1 : Walk(h)[l] = Places(g)[l]
  BY WalkIsPlaces
<1>4. Firsts(g) \subseteq Texts(g) /\ Texts(g) \subseteq Cells(g)
  BY DEF Firsts, Texts
<1>5. \A l \in Cells(g) : l \in S <=> l \in Firsts(g)
  <2> SUFFICES ASSUME NEW l \in Cells(g) PROVE l \in S <=> l \in Firsts(g)
    OBVIOUS
  <2> DEFINE m == l + 1
             x == Places(g)[l]
             y == Places(g)[m]
             z == IF l \in Firsts(g) THEN Len(Value(g, l).str) + 1 ELSE 0
  <2>1. l \in 1 .. Ended(g) /\ l \in 1 .. Ended(g) + 1 /\ m \in 1 .. Ended(g) + 1
    BY <1>2
  <2>2. l \in S <=> Walk(h)[m] # Walk(h)[l]
    BY <1>2
  <2>3. Walk(h)[m] = y /\ Walk(h)[l] = x
    <3> HIDE DEF m, h
    <3>1. QED
      BY <1>3, <2>1
  <2>4. x \in Nat /\ y = x + z
    BY <2>1, PlacesStep
  <2>5. l \in Firsts(g) => Len(Value(g, l).str) \in Nat
    BY <1>4, TextValue
  <2>6. l \in Firsts(g) <=> y # x
    <3>1. l \in Firsts(g) => z \in Nat \ {0}
      BY <2>5
    <3>2. l \notin Firsts(g) => z = 0
      OBVIOUS
    <3> HIDE DEF x, y, z
    <3>3. QED
      BY <2>4, <3>1, <3>2
  <2> HIDE DEF S, x, y
  <2>7. QED
    BY <2>2, <2>3, <2>6
<1>6. \A l \in Firsts(g) : Value(h, l).str = Value(g, l).str
  <2> HIDE DEF h
  <2>1. QED
    BY <1>1, <1>4, SameCells, TextValue
<1>7. FileStrings(h) = {StringOfFile(h, k) : k \in S}
  BY DEF FileStrings
<1>8. \A l \in Firsts(g) : /\ StringOfFile(h, l).str = Value(g, l).str
                           /\ StringOfFile(h, l).at = StringsStart(h) + Places(g)[l]
  <2> SUFFICES ASSUME NEW l \in Firsts(g)
               PROVE  /\ StringOfFile(h, l).str = Value(g, l).str
                      /\ StringOfFile(h, l).at = StringsStart(h) + Places(g)[l]
    OBVIOUS
  <2>1. l \in 1 .. Ended(g) + 1
    BY <1>2, <1>4
  <2>2. Walk(h)[l] = Places(g)[l]
    BY <1>3, <2>1
  <2>3. Value(h, l).str = Value(g, l).str
    BY <1>6
  <2> HIDE DEF h
  <2>4. QED
    BY <2>2, <2>3 DEF StringOfFile, StringsStart
<1>9. S \subseteq Cells(g)
  BY <1>2
<1>a. StringsStart(h) \in Nat
  <2> HIDE DEF h
  <2>1. RowsStart(h) \in Nat /\ ControlEnd(h) \in Nat
    BY <1>1, LayoutNumbers
  <2>2. QED
    BY <2>1 DEF StringsStart
<1> HIDE DEF h, S
<1>10. S = Firsts(g)
  BY <1>4, <1>5, <1>9
<1>11. FirstStrings(g, h)
  BY <1>7, <1>8, <1>10, <1>a DEF FirstStrings, StringsAt
<1>12. QED
  BY <1>11 DEF h

(* The string that is read at the place of a text is the text.               *)
LEMMA StringFound ==
    ASSUME NEW g, IsTable(g), NEW k \in Texts(g), NEW F, NEW base, StringsAt(g, F, base)
    PROVE  StringAt(F, base + Place(g, Value(g, k).str), Value(g, k).str)
<1> DEFINE at == base + Place(g, Value(g, k).str)
<1>0. /\ base \in Nat
      /\ \A s \in F : \E l \in Firsts(g) :
           s.str = Value(g, l).str /\ s.at = base + Places(g)[l]
      /\ \A l \in Firsts(g) : \E s \in F :
           s.str = Value(g, l).str /\ s.at = base + Places(g)[l]
  BY DEF StringsAt
<1> HIDE DEF at
<1>b. at = base + Place(g, Value(g, k).str)
  BY DEF at
<1>1. PICK l \in Firsts(g) : /\ Value(g, l).str = Value(g, k).str /\ l \in Cells(g)
                             /\ Place(g, Value(g, k).str) = Places(g)[l]
  BY FirstOf
<1>2. \E s \in F : s.at = at
  BY <1>0, <1>1, <1>b
<1> DEFINE e == CHOOSE s \in F : s.at = at
<1>3. e \in F /\ e.at = at
  BY <1>2
<1> HIDE DEF e
<1>4. PICK m \in Firsts(g) : e.str = Value(g, m).str /\ e.at = base + Places(g)[m]
  BY <1>0, <1>3
<1>5. Cells(g) = 1 .. Ended(g) /\ Ended(g) \in Nat
  BY CellsCounted
<1>6. m \in Cells(g)
  BY DEF Firsts, Texts
<1>7. l \in 1 .. Ended(g) + 1 /\ m \in 1 .. Ended(g) + 1 /\ l \in Nat /\ m \in Nat
  BY <1>1, <1>5, <1>6
<1>8. Places(g)[l] \in Nat /\ Places(g)[m] \in Nat
  BY <1>7, PlacesStep
<1>9. Places(g)[m] = Places(g)[l]
  <2>1. base + Places(g)[m] = base + Places(g)[l]
    BY <1>1, <1>3, <1>4, <1>b
  <2>2. QED
    BY <1>0, <1>8, <2>1
<1>10. ASSUME l < m PROVE FALSE
  <2>1. Places(g)[l] < Places(g)[m]
    BY <1>1, <1>6, <1>7, <1>10, PlacesApart
  <2>2. QED
    BY <1>8, <1>9, <2>1
<1>11. ASSUME m < l PROVE FALSE
  <2>1. Places(g)[m] < Places(g)[l]
    BY <1>1, <1>6, <1>7, <1>11, PlacesApart
  <2>2. QED
    BY <1>8, <1>9, <2>1
<1>12. l = m
  BY <1>7, <1>8, <1>10, <1>11
<1>13. e.str = Value(g, k).str
  BY <1>1, <1>4, <1>12
<1>14. QED
  BY <1>2, <1>13 DEF e, StringAt, at

(* Where the strings of a file begin, which of them is read, and that all    *)
(* of them are inside it.                                                    *)
LEMMA TextRead ==
    ASSUME NEW g, IsTable(g), NEW k \in Texts(g), NEW at,
           at = Dump(RecalcSize(g)).offset_msgs + Place(g, Value(g, k).str)
    PROVE  /\ StringAt(Dump(RecalcSize(g)).strings, at, Value(g, k).str)
           /\ at < Dump(RecalcSize(g)).size
<1> DEFINE h == RecalcSize(g)
           f == Dump(h)
           F == FileStrings(h)
           base == StringsStart(h)
           size == Places(g)[Ended(g) + 1]
           p == Place(g, Value(g, k).str)
<1>1. IsTable(h)
  BY RecalcTable
<1>2. h.msgs_size = size /\ size \in Nat
  BY Recalculated
<1>3. PICK l \in Firsts(g) : l \in Cells(g) /\ p = Places(g)[l]
  BY FirstOf
<1>4. p \in Nat /\ p < size
  <2> DEFINE m == Ended(g) + 1
  <2>1. m \in 1 .. Ended(g) + 1 /\ l < m
    BY <1>3, CellsCounted
  <2> HIDE DEF m
  <2>2. Places(g)[l] \in Nat /\ Places(g)[l] < Places(g)[m]
    BY <1>3, <2>1, PlacesApart
  <2>3. QED
    BY <1>3, <2>2 DEF m
<1>5. /\ RowsStart(h) \in Nat /\ ControlEnd(h) \in Nat
      /\ Align(h, TypesStart(h) + DescriptorSize * real_item_count(h)) = base
  <2> HIDE DEF h
  <2>1. QED
    BY <1>1, LayoutNumbers DEF StringsStart
<1>6. f.offset_msgs = base
  <2>1. f.offset_msgs = IF h.msgs_size = 0 THEN 0
                        ELSE Align(h, TypesStart(h) + DescriptorSize * real_item_count(h))
    BY DumpFields
  <2>2. h.msgs_size # 0
    <3> HIDE DEF p, size
    <3>1. QED
      BY <1>2, <1>4
  <2>3. QED
    BY <1>5, <2>1, <2>2
<1>7. f.strings = F
  BY DumpFields
<1>8. StringsAt(g, F, base)
  BY StringsOfFile DEF FirstStrings
<1>10. at = base + p
  BY <1>6
<1>11. StringAt(F, at, Value(g, k).str)
  <2> HIDE DEF F, base, h
  <2>1. QED
    BY <1>8, <1>10, StringFound
<1>12. at < f.size
  <2> DEFINE n == ControlEnd(h) + size
             a == Align(h, n)
  <2>1. f.size = GetSize(h) /\ f.strings_size = size
    BY <1>2, DumpAsserted
  <2>2. f.size = HeaderSize + Align(h, ControlEnd(h) + Walk(h)[Ended(h) + 1])
        /\ f.strings_size = Walk(h)[Ended(h) + 1]
    BY DumpFields
  <2>3. f.size = HeaderSize + a
    BY <2>1, <2>2
  <2>4. n \in Nat
    BY <1>2, <1>5
  <2>5. a \in Nat /\ n <= a
    <3>1. h.gstl \in BOOLEAN
      BY <1>1 DEF IsTable
    <3> HIDE DEF n, h
    <3>2. QED
      BY <2>4, <3>1, Rounded
  <2>6. RowsStart(h) <= HeaderSize /\ HeaderSize \in Nat
    BY DEF RowsStart, HeaderSize
  <2> DEFINE x == RowsStart(h)
             y == ControlEnd(h)
  <2>8. /\ x \in Nat /\ y \in Nat /\ size \in Nat /\ p \in Nat /\ p < size /\ at = base + p
        /\ base = x + y /\ n = y + size /\ x <= HeaderSize
    BY <1>2, <1>4, <1>5, <1>10, <2>6 DEF StringsStart
  <2> HIDE DEF a, n, base, size, p, h, f, x, y
  <2>9. at < HeaderSize + n
    BY <2>6, <2>8
  <2>10. at \in Nat
    BY <2>8
  <2>11. QED
    BY <2>3, <2>4, <2>5, <2>6, <2>9, <2>10
<1>13. QED
  BY <1>7, <1>11, <1>12

(* What a value is when it was written and read: a string has no place.      *)
Unplaced(field, v) ==
    IF field.kind = "str"
    THEN [str |-> v.str, offset |-> IF v.offset = Null THEN Null ELSE 0] ELSE v

LEMMA ValueRead ==
    ASSUME NEW g, IsTable(g), NEW j \in DOMAIN g.messages, NEW i \in DOMAIN g.type
    PROVE  ReadValue(Dump(RecalcSize(g)), CellOfFile(RecalcSize(g), j, i).at, g.type[i])
             = Unplaced(g.type[i], g.messages[j][i])
<1> DEFINE h == RecalcSize(g)
           f == Dump(h)
           d == CellOfFile(h, j, i)
           t == g.type[i]
           v == g.messages[j][i]
           w == h.messages[j][i]
           cell == CHOOSE c \in FileCells(f) : c.at = d.at /\ c.field = t
           string(offset) == (CHOOSE s \in f.strings : s.at = f.offset_msgs + offset).str
<1>1. IsTable(h) /\ h.type = g.type /\ DOMAIN h.messages = DOMAIN g.messages
  BY RecalcTable, RecalcSame DEF SameTexts
<1>2. SameTexts(g, h)
  BY RecalcSame
<1>3. cell = d
  <2> HIDE DEF h
  <2>1. (CHOOSE c \in FileCells(Dump(h)) : c.at = CellOfFile(h, j, i).at /\ c.field = h.type[i])
          = CellOfFile(h, j, i)
    BY <1>1, CellFound
  <2>2. QED
    BY <1>1, <2>1
<1>4. d.value = Stored(t, w)
  BY <1>1 DEF CellOfFile
<1>5. ReadValue(f, d.at, t) =
        IF t.kind # "str" THEN cell.value
        ELSE IF cell.value = Null THEN [str |-> <<>>, offset |-> Null]
        ELSE [str |-> string(cell.value), offset |-> 0]
  BY DEF ReadValue
<1> HIDE DEF cell
<1>6. CASE t.kind # "str"
  <2>1. w = v
    BY <1>2, <1>6 DEF SameTexts
  <2>2. ReadValue(f, d.at, t) = Stored(t, v)
    BY <1>3, <1>4, <1>5, <1>6, <2>1
  <2>3. Stored(t, v) = v
    <3>1. CASE t.kind = "fix"
      <4>1. IsValue(t, v)
        BY TableParts
      <4>2. v \in Seq(Char) /\ Len(v) < t.size
        BY <1>6, <3>1, <4>1 DEF IsValue
      <4>3. t.size \in Nat \ {0}
        BY FieldIs
      <4> DEFINE n == t.size
      <4> HIDE DEF n, v, t
      <4>4. Len(v) \in Nat /\ v \in Seq(Char)
        BY <4>2
      <4>5. strncpy(v, n - 1) = SubSeq(v, 1, Len(v))
        <5>1. CASE Len(v) < n - 1
          BY <5>1 DEF strncpy
        <5>2. CASE ~(Len(v) < n - 1)
          <6>1. Len(v) = n - 1
            BY <4>2, <4>3, <4>4, <5>2 DEF n
          <6>2. QED
            BY <5>2, <6>1 DEF strncpy
        <5>3. QED
          BY <5>1, <5>2
      <4>6. SubSeq(v, 1, Len(v)) = v
        BY <4>4
      <4>7. Stored(t, v) = strncpy(v, n - 1)
        BY <3>1 DEF Stored, n
      <4>8. QED
        BY <4>5, <4>6, <4>7
    <3>2. CASE t.kind # "fix"
      BY <1>6, <3>2 DEF Stored
    <3>3. QED
      BY <3>1, <3>2
  <2>4. QED
    BY <1>6, <2>2, <2>3 DEF Unplaced
<1>7. CASE t.kind = "str"
  <2>1. d.value = w.offset
    BY <1>4, <1>7 DEF Stored
  <2>2. /\ v \in [str : Seq(Char), offset : Nat \cup {Null}]
        /\ v.offset = Null => v.str = <<>>
    BY <1>7, StringValue
  <2>3. w.str = v.str /\ (w.offset = Null <=> v.offset = Null)
    BY <1>2, <1>7 DEF SameTexts
  <2>4. CASE v.offset = Null
    <3>1. ReadValue(f, d.at, t) = [str |-> <<>>, offset |-> Null]
      BY <1>3, <1>5, <1>7, <2>1, <2>3, <2>4
    <3>2. QED
      BY <1>7, <2>2, <2>4, <3>1 DEF Unplaced
  <2>5. CASE v.offset # Null
    <3>1. Cell(g, j, i) \in Texts(g) /\ Value(g, Cell(g, j, i)) = v
      BY <1>7, <2>5, TextOfCell
    <3>2. w = [str |-> v.str, offset |-> Place(g, v.str)]
      BY <1>7, <2>5, RecalcSame
    <3> DEFINE k == Cell(g, j, i)
               p == Place(g, v.str)
               at == f.offset_msgs + p
    <3>3. d.value = p
      BY <2>1, <3>2
    <3>4. StringAt(f.strings, at, v.str)
      <4>1. k \in Texts(g) /\ Value(g, k) = v
        BY <3>1
      <4>2. at = f.offset_msgs + Place(g, Value(g, k).str)
        BY <3>1
      <4> HIDE DEF k, at, v
      <4>3. StringAt(Dump(RecalcSize(g)).strings, at, Value(g, k).str)
        BY <4>1, <4>2, TextRead
      <4>4. QED
        BY <4>1, <4>3
    <3>5. string(p) = v.str
      BY <3>4 DEF StringAt
    <3>6. cell.value = p /\ cell.value # Null
      BY <1>3, <2>1, <2>3, <2>5, <3>3
    <3> HIDE DEF string, p, at, f
    <3>7. ReadValue(f, d.at, t) = [str |-> string(p), offset |-> 0]
      BY <1>5, <1>7, <3>6
    <3>8. QED
      BY <1>7, <2>5, <3>5, <3>7 DEF Unplaced, f
  <2>6. QED
    BY <2>4, <2>5
<1>8. QED
  BY <1>6, <1>7

(* What Parse_ makes of a file before it places the strings.                 *)
Unpacked(f) ==
    [gstl |-> f.gstl, fix_k |-> f.fix_k, type |-> ReadType(f), msgs_size |-> 0,
     messages |-> [j \in 1 .. f.count_msgs |-> [i \in DOMAIN ReadType(f) |->
       ReadValue(f, f.descr_offset + f.msg_descr_size * (j - 1)
                      + FieldOffset(ReadType(f), i), ReadType(f)[i])]]]

(* Its fields are those of the table. *)
LEMMA DumpDescribes ==
    ASSUME NEW g, IsTable(g)
    PROVE  ReadType(Dump(g)) = g.type
<1>1. PICK V, r : Picks(Real(g), V, [i \in Real(g) |-> Descriptor(g.type, i)],
                        Descriptors(g.type), r)
  BY DescriptorsPicked
<1> DEFINE f == Dump(g)
<1>2. f.types = Descriptors(g.type) /\ f.msg_descr_size = msg_descr_size(g)
  BY DumpFields
<1> HIDE DEF f
<1>3. Describes(g, f, V, r)
  BY <1>1, <1>2 DEF Describes
<1>4. ReadType(f) = g.type
  BY <1>3, TypeRead
<1>5. QED
  BY <1>4 DEF f

(* They are a table like the one that was written. *)
LEMMA UnpackedTable ==
    ASSUME NEW g, IsTable(g)
    PROVE  LET p == Unpacked(Dump(RecalcSize(g))) IN
           /\ IsTable(p) /\ SameTexts(g, p)
           /\ p.gstl = g.gstl /\ p.fix_k = g.fix_k
<1> DEFINE h == RecalcSize(g)
           f == Dump(h)
           p == Unpacked(f)
           n == Len(g.messages)
           E == DOMAIN g.type
<1>1. IsTable(h) /\ h.type = g.type /\ Len(h.messages) = n /\ DOMAIN h.messages = DOMAIN g.messages
  BY RecalcTable, RecalcSame DEF SameTexts
<1>2. h.gstl = g.gstl /\ h.fix_k = g.fix_k
  BY Recalculated
<1>3. n \in Nat /\ DOMAIN g.messages = 1 .. n
  BY TableParts
<1>4. /\ f.gstl = g.gstl /\ f.fix_k = g.fix_k /\ f.count_msgs = n
      /\ f.descr_offset = RowsStart(h) /\ f.msg_descr_size = msg_descr_size(h)
  BY <1>1, <1>2, DumpFields
<1>5. ReadType(f) = g.type
  <2> HIDE DEF h
  <2>1. QED
    BY <1>1, DumpDescribes
<1>6. /\ p.gstl = g.gstl /\ p.fix_k = g.fix_k /\ p.type = g.type /\ p.msgs_size = 0
      /\ DOMAIN p = {"gstl", "fix_k", "type", "messages", "msgs_size"}
  <2> HIDE DEF f
  <2>1. QED
    BY <1>4, <1>5 DEF Unpacked
<1> DEFINE M == p.messages
           R(j, i) == ReadValue(f, f.descr_offset + f.msg_descr_size * (j - 1)
                        + FieldOffset(ReadType(f), i), ReadType(f)[i])
<1>7. M = [j \in 1 .. n |-> [i \in E |-> R(j, i)]]
  <2> HIDE DEF f
  <2>1. M = [j \in 1 .. f.count_msgs |-> [i \in DOMAIN ReadType(f) |-> R(j, i)]]
    BY DEF Unpacked
  <2>2. QED
    BY <1>4, <1>5, <2>1
<1>8. \A j \in 1 .. n : \A i \in E : R(j, i) = Unplaced(g.type[i], g.messages[j][i])
  <2> SUFFICES ASSUME NEW j \in 1 .. n, NEW i \in E
               PROVE  R(j, i) = Unplaced(g.type[i], g.messages[j][i])
    OBVIOUS
  <2>1. CellOfFile(h, j, i).at = RowsStart(h) + msg_descr_size(h) * (j - 1) + FieldOffset(h.type, i)
    BY DEF CellOfFile
  <2>2. R(j, i) = ReadValue(f, CellOfFile(h, j, i).at, g.type[i])
    <3> HIDE DEF h, f
    <3>1. QED
      BY <1>1, <1>4, <1>5, <2>1
  <2>3. j \in DOMAIN g.messages
    BY <1>3
  <2>4. QED
    BY <2>2, <2>3, ValueRead
<1> HIDE DEF p, R, f, h
<1>9. /\ DOMAIN M = 1 .. n
      /\ \A j \in 1 .. n : DOMAIN M[j] = E
      /\ \A j \in 1 .. n : \A i \in E : M[j][i] = Unplaced(g.type[i], g.messages[j][i])
  BY <1>7, <1>8
<1>10. M \in Seq(ToSet(M)) /\ Len(M) = n
  <2> HIDE DEF M
  <2>1. M = [j \in 1 .. n |-> M[j]]
    BY <1>7
  <2>2. QED
    BY <1>3, <2>1, SequenceOf
<1>11. ASSUME NEW j \in 1 .. n, NEW i \in E
       PROVE  /\ IsValue(g.type[i], M[j][i])
              /\ g.type[i].kind = "str" =>
                   /\ M[j][i].str = g.messages[j][i].str
                   /\ M[j][i].offset = Null <=> g.messages[j][i].offset = Null
              /\ g.type[i].kind # "str" => M[j][i] = g.messages[j][i]
  <2> DEFINE v == g.messages[j][i]
             u == M[j][i]
             t == g.type[i]
  <2>1. u = Unplaced(t, v) /\ IsValue(t, v)
    BY <1>3, <1>9, TableParts
  <2> HIDE DEF u, v, t, M
  <2>2. CASE t.kind # "str"
    <3>1. u = v
      BY <2>1, <2>2 DEF Unplaced
    <3>2. QED
      BY <2>1, <2>2, <3>1 DEF u, v, t
  <2>3. CASE t.kind = "str"
    <3>1. /\ v \in [str : Seq(Char), offset : Nat \cup {Null}]
          /\ v.offset = Null => v.str = <<>>
      BY <2>1, <2>3 DEF IsValue
    <3>2. u = [str |-> v.str, offset |-> IF v.offset = Null THEN Null ELSE 0]
      BY <2>1, <2>3 DEF Unplaced
    <3>3. u.str = v.str /\ (u.offset = Null <=> v.offset = Null)
      BY <3>2 DEF Null
    <3>4. v.str \in Seq(Char) /\ u.offset \in Nat \cup {Null}
      BY <3>1, <3>2
    <3>5. u \in [str : Seq(Char), offset : Nat \cup {Null}]
      BY <3>2, <3>4
    <3>6. IsValue(t, u)
      BY <2>3, <3>1, <3>3, <3>5 DEF IsValue
    <3>7. QED
      BY <2>3, <3>3, <3>6 DEF u, v, t
  <2>4. QED
    BY <2>2, <2>3
<1>12. p.messages = M
  OBVIOUS
<1> HIDE DEF M, E
<1>13. IsTable(p)
  <2>1. IsType(p.type) /\ p.gstl \in BOOLEAN /\ p.fix_k \in Nat /\ p.msgs_size \in Nat
    BY <1>6 DEF IsTable
  <2>2. \A j \in DOMAIN p.messages :
          /\ DOMAIN p.messages[j] = DOMAIN p.type
          /\ \A i \in DOMAIN p.type : IsValue(p.type[i], p.messages[j][i])
    BY <1>6, <1>9, <1>11, <1>12 DEF E
  <2>3. p.messages \in Seq(ToSet(p.messages))
    BY <1>10, <1>12
  <2>4. QED
    BY <1>6, <2>1, <2>2, <2>3 DEF IsTable
<1>14. SameTexts(g, p)
  BY <1>3, <1>6, <1>9, <1>10, <1>11, <1>12 DEF SameTexts, E
<1>15. QED
  BY <1>6, <1>13, <1>14 DEF p, f, h

(* A table is read as it was when it was saved.                              *)
LEMMA ReadsBack ==
    ASSUME NEW g, IsTable(g)
    PROVE  Parse(Dump(RecalcSize(g))) = RecalcSize(g)
<1> DEFINE f == Dump(RecalcSize(g))
           p == Unpacked(f)
<1>1. IsTable(p) /\ SameTexts(g, p) /\ p.gstl = g.gstl /\ p.fix_k = g.fix_k
  BY UnpackedTable
<1>2. Parse(f) = RecalcSize(p)
  <2> HIDE DEF f
  <2>1. QED
    BY Zenon DEF Parse, Unpacked
<1> HIDE DEF p
<1>3. RecalcSize(p) = RecalcSize(g)
  BY <1>1, SameSize
<1>4. QED
  BY <1>2, <1>3

(* Its header leads to its parts. *)
LEMMA Leads ==
    ASSUME NEW g, IsTable(g)
    PROVE  OffsetsLead(Dump(RecalcSize(g)))
<1> DEFINE h == RecalcSize(g)
           f == Dump(h)
<1>1. /\ IsTable(h) /\ h.type = g.type /\ DOMAIN h.messages = DOMAIN g.messages
      /\ Len(h.messages) = Len(g.messages) /\ SameTexts(g, h)
  BY RecalcTable, RecalcSame DEF SameTexts
<1>2. /\ f.descr_offset = RowsStart(h) /\ f.msg_descr_size = msg_descr_size(h)
      /\ f.count_msgs = Len(g.messages) /\ f.offset_types = TypesStart(h)
      /\ f.types_at = RowsStart(h) + Align(h, RowsLength(h))
  BY <1>1, DumpFields
<1>3. f.offset_types = f.types_at
  <2> HIDE DEF h, f
  <2>1. QED
    BY <1>1, <1>2, LayoutNumbers
<1>4. ReadType(f) = g.type
  <2> HIDE DEF h
  <2>1. QED
    BY <1>1, DumpDescribes
<1>5. DOMAIN g.messages = 1 .. Len(g.messages)
  BY TableParts
<1>6. ASSUME NEW j \in DOMAIN g.messages, NEW i \in DOMAIN g.type
      PROVE  \E c \in FileCells(f) :
               /\ c.at = f.descr_offset + f.msg_descr_size * (j - 1) + FieldOffset(g.type, i)
               /\ c.field = g.type[i]
               /\ g.type[i].kind = "str" /\ c.value # Null =>
                    \E s \in f.strings : s.at = f.offset_msgs + c.value
  <2> DEFINE d == CellOfFile(h, j, i)
             v == g.messages[j][i]
             w == h.messages[j][i]
  <2>1. d \in FileCells(f)
    <3> HIDE DEF h
    <3>1. QED
      BY <1>1, CellsOfFile
  <2>2. /\ d.at = f.descr_offset + f.msg_descr_size * (j - 1) + FieldOffset(g.type, i)
        /\ d.field = g.type[i] /\ d.value = Stored(g.type[i], w)
    <3> HIDE DEF h, f
    <3>1. QED
      BY <1>1, <1>2 DEF CellOfFile
  <2>3. ASSUME g.type[i].kind = "str", d.value # Null
        PROVE  \E s \in f.strings : s.at = f.offset_msgs + d.value
    <3>1. d.value = w.offset
      BY <2>2, <2>3 DEF Stored
    <3>2. v.offset # Null
      BY <1>1, <2>3, <3>1 DEF SameTexts
    <3>3. w = [str |-> v.str, offset |-> Place(g, v.str)]
      BY <2>3, <3>2, RecalcSame
    <3>4. Cell(g, j, i) \in Texts(g) /\ Value(g, Cell(g, j, i)) = v
      BY <2>3, <3>2, TextOfCell
    <3> DEFINE k == Cell(g, j, i)
               at == f.offset_msgs + d.value
    <3>5. k \in Texts(g) /\ at = Dump(RecalcSize(g)).offset_msgs + Place(g, Value(g, k).str)
      BY <3>1, <3>3, <3>4
    <3> HIDE DEF k, at
    <3>6. StringAt(Dump(RecalcSize(g)).strings, at, Value(g, k).str)
      BY <3>5, TextRead
    <3>7. \E s \in f.strings : s.at = at
      BY <3>6 DEF StringAt
    <3>8. QED
      BY <3>7 DEF at
  <2> HIDE DEF d, f
  <2>4. QED
    BY <2>1, <2>2, <2>3
<1> HIDE DEF f
<1>7. OffsetsLead(f)
  BY <1>2, <1>3, <1>4, <1>5, <1>6 DEF OffsetsLead
<1>8. QED
  BY <1>7 DEF f, h

(* The parts of its header are inside it. *)
LEMMA HeaderInside ==
    ASSUME NEW g, IsTable(g), g.gstl => RecalcSize(g).msgs_size > 0
    PROVE  ValidHeader(Dump(RecalcSize(g)))
<1> DEFINE h == RecalcSize(g)
           f == Dump(h)
           a == RowsStart(h)
           r == RowsLength(h)
           b == Align(h, r)
           c == ControlEnd(h)
           t == DescriptorSize * real_item_count(h)
           m == h.msgs_size
           n == c + m
           e == Align(h, n)
<1>1. IsTable(h) /\ h.gstl \in BOOLEAN /\ h.gstl = g.gstl
  BY RecalcTable, Recalculated DEF IsTable
<1>2. m \in Nat
  BY Recalculated
<1>3. f.size = HeaderSize + e
  <2>1. f.strings_size = m
    BY DumpAsserted
  <2>2. f.size = HeaderSize + Align(h, ControlEnd(h) + Walk(h)[Ended(h) + 1])
        /\ f.strings_size = Walk(h)[Ended(h) + 1]
    BY DumpFields
  <2>3. QED
    BY <2>1, <2>2
<1>4. /\ f.descr_offset = a /\ f.msg_descr_size * f.count_msgs = r
      /\ f.offset_types = TypesStart(h) /\ DescriptorSize * f.count_types = t
      /\ f.offset_msgs = IF m = 0 THEN 0 ELSE Align(h, TypesStart(h) + t)
  BY DumpFields DEF RowsLength
<1> HIDE DEF h, f
<1>5. /\ a \in Nat /\ r \in Nat /\ c \in Nat /\ TypesStart(h) = a + b
      /\ Align(h, TypesStart(h) + t) = a + c /\ r <= c /\ b + t <= c
  BY <1>1, LayoutNumbers
<1>6. b \in Nat /\ real_item_count(h) \in Nat
  BY <1>1, <1>5, LayoutNumbers, Rounded
<1>7. t \in Nat
  <2> DEFINE x == real_item_count(h)
  <2> HIDE DEF x
  <2>1. x \in Nat
    BY <1>6 DEF x
  <2>2. DescriptorSize * x \in Nat
    BY <2>1 DEF DescriptorSize
  <2>3. QED
    BY <2>2 DEF x
<1>8. n \in Nat
  BY <1>2, <1>5
<1>9. e \in Nat /\ n <= e /\ (h.gstl => e = n)
  <2> HIDE DEF n
  <2>1. QED
    BY <1>1, <1>8, Rounded
<1>10. a = IF h.gstl THEN HeaderSize ELSE 0
  BY DEF RowsStart
<1>11. h.gstl => m > 0
  BY <1>1 DEF h
<1>12. HeaderSize = 64
  BY DEF HeaderSize
<1>13. n = c + m
  OBVIOUS
<1> HIDE DEF a, r, b, c, t, m, n, e
<1>14. a + r < HeaderSize + e
  BY <1>1, <1>2, <1>5, <1>9, <1>10, <1>11, <1>12, <1>13
<1>15. a + b + t < HeaderSize + e
  BY <1>1, <1>2, <1>5, <1>6, <1>7, <1>9, <1>10, <1>11, <1>12, <1>13
<1>16. (IF m = 0 THEN 0 ELSE a + c) < HeaderSize + e
  BY <1>1, <1>2, <1>5, <1>9, <1>10, <1>11, <1>12, <1>13
<1>17. ValidHeader(f)
  <2>1. f.descr_offset + f.msg_descr_size * f.count_msgs < f.size
    BY <1>3, <1>4, <1>14
  <2>2. f.offset_types + DescriptorSize * f.count_types < f.size
    BY <1>3, <1>4, <1>5, <1>15
  <2>3. f.offset_msgs < f.size
    BY <1>3, <1>4, <1>5, <1>16
  <2>4. QED
    BY <2>1, <2>2, <2>3 DEF ValidHeader
<1>18. QED
  BY <1>17 DEF f, h

(* It is accepted. *)
LEMMA Validated ==
    ASSUME NEW g, IsTable(g), g.gstl => RecalcSize(g).msgs_size > 0
    PROVE  Validates(Dump(RecalcSize(g)))
<1> DEFINE h == RecalcSize(g)
           f == Dump(h)
<1>1. ValidHeader(f)
  BY HeaderInside
<1>2. Parse(f) = h
  BY ReadsBack
<1>3. msg_descr_size(h) = f.msg_descr_size /\ GetSize(h) = f.size
  BY DumpAsserted, DumpFields
<1>4. /\ h.type = g.type /\ DOMAIN h.messages = DOMAIN g.messages /\ SameTexts(g, h)
  BY RecalcSame DEF SameTexts
<1>5. f.rows = FileRows(h)
  BY DumpFields
<1>6. ASSUME NEW j \in DOMAIN g.messages, NEW i \in DOMAIN g.type,
             CellOfFile(h, j, i).field.kind = "str", CellOfFile(h, j, i).value # Null
      PROVE  f.offset_msgs + CellOfFile(h, j, i).value < f.size
  <2> DEFINE d == CellOfFile(h, j, i)
             v == g.messages[j][i]
             w == h.messages[j][i]
  <2>1. d.field = g.type[i] /\ d.value = Stored(g.type[i], w)
    <3> HIDE DEF h, f
    <3>1. QED
      BY <1>4 DEF CellOfFile
  <2>2. g.type[i].kind = "str" /\ d.value = w.offset
    BY <1>6, <2>1 DEF Stored
  <2>3. v.offset # Null
    BY <1>4, <1>6, <2>2 DEF SameTexts
  <2>4. w = [str |-> v.str, offset |-> Place(g, v.str)]
    BY <2>2, <2>3, RecalcSame
  <2>5. Cell(g, j, i) \in Texts(g) /\ Value(g, Cell(g, j, i)) = v
    BY <2>2, <2>3, TextOfCell
  <2> DEFINE k == Cell(g, j, i)
             at == f.offset_msgs + d.value
  <2>6. k \in Texts(g) /\ at = Dump(RecalcSize(g)).offset_msgs + Place(g, Value(g, k).str)
    BY <2>2, <2>4, <2>5
  <2> HIDE DEF k, at
  <2>7. at < Dump(RecalcSize(g)).size
    BY <2>6, TextRead
  <2>8. QED
    BY <2>7 DEF at
<1>7. /\ DOMAIN FileRows(h) = DOMAIN g.messages
      /\ \A j \in DOMAIN g.messages : /\ DOMAIN FileRows(h)[j] = DOMAIN g.type
                                      /\ \A i \in DOMAIN g.type : FileRows(h)[j][i] = CellOfFile(h, j, i)
  <2> HIDE DEF h
  <2>1. QED
    BY <1>4 DEF FileRows
<1> HIDE DEF h, f
<1>8. \A j \in DOMAIN f.rows : \A i \in DOMAIN f.rows[j] :
         f.rows[j][i].field.kind = "str" /\ f.rows[j][i].value # Null =>
            f.offset_msgs + f.rows[j][i].value < f.size
  BY <1>5, <1>6, <1>7
<1>9. Validates(f)
  BY <1>1, <1>2, <1>3, <1>8 DEF Validates
<1>10. QED
  BY <1>9 DEF f, h

-----------------------------------------------------------------------------
(* Changes of a table *)

(* h is g with another value in field i of message j. *)
Overwrites(g, h, j, i, v) ==
    /\ DOMAIN h = {"gstl", "fix_k", "type", "messages", "msgs_size"}
    /\ h.gstl = g.gstl /\ h.fix_k = g.fix_k /\ h.type = g.type /\ h.msgs_size = g.msgs_size
    /\ DOMAIN h.messages = DOMAIN g.messages /\ Len(h.messages) = Len(g.messages)
    /\ h.messages \in Seq(ToSet(h.messages))
    /\ \A l \in DOMAIN g.messages :
         /\ DOMAIN h.messages[l] = DOMAIN g.type
         /\ \A k \in DOMAIN g.type :
              h.messages[l][k] = IF l = j /\ k = i THEN v ELSE g.messages[l][k]

LEMMA Overwritten ==
    ASSUME NEW g, IsTable(g), NEW j \in DOMAIN g.messages, NEW i \in DOMAIN g.type, NEW v
    PROVE  Overwrites(g, [g EXCEPT !.messages[j][i] = v], j, i, v)
<1> DEFINE m == g.messages
           q == [m EXCEPT ![j][i] = v]
           h == [g EXCEPT !.messages[j][i] = v]
           n == Len(m)
           E == DOMAIN g.type
<1>1. /\ DOMAIN m = 1 .. n /\ n \in Nat
      /\ \A l \in DOMAIN m : DOMAIN m[l] = E
      /\ DOMAIN g = {"gstl", "fix_k", "type", "messages", "msgs_size"}
  BY TableParts DEF IsTable
<1>2. h = [g EXCEPT !.messages = q]
  OBVIOUS
<1>3. q = [l \in DOMAIN m |-> IF l = j THEN [m[j] EXCEPT ![i] = v] ELSE m[l]]
  OBVIOUS
<1>4. [m[j] EXCEPT ![i] = v] = [k \in DOMAIN m[j] |-> IF k = i THEN v ELSE m[j][k]]
  OBVIOUS
<1> DEFINE r == [m[j] EXCEPT ![i] = v]
<1> HIDE DEF q, r
<1>5. DOMAIN r = E /\ \A k \in E : r[k] = IF k = i THEN v ELSE m[j][k]
  BY <1>1, <1>4 DEF r
<1>6. DOMAIN q = 1 .. n /\ \A l \in 1 .. n : q[l] = IF l = j THEN r ELSE m[l]
  BY <1>1, <1>3 DEF r
<1>7. q \in Seq(ToSet(q)) /\ Len(q) = n
  <2>1. q = [l \in 1 .. n |-> q[l]]
    BY <1>1, <1>3
  <2>2. QED
    BY <1>1, <2>1, SequenceOf
<1>8. /\ h.gstl = g.gstl /\ h.fix_k = g.fix_k /\ h.type = g.type /\ h.msgs_size = g.msgs_size
      /\ h.messages = q /\ DOMAIN h = {"gstl", "fix_k", "type", "messages", "msgs_size"}
  BY <1>1, <1>2
<1>9. ASSUME NEW l \in DOMAIN g.messages
      PROVE  /\ DOMAIN q[l] = E
             /\ \A k \in E : q[l][k] = IF l = j /\ k = i THEN v ELSE m[l][k]
  <2>1. CASE l = j
    BY <1>1, <1>5, <1>6, <2>1
  <2>2. CASE l # j
    BY <1>1, <1>6, <2>2
  <2>3. QED
    BY <2>1, <2>2
<1> HIDE DEF h
<1>10. Overwrites(g, h, j, i, v)
  BY <1>1, <1>6, <1>7, <1>8, <1>9 DEF Overwrites
<1>11. QED
  BY <1>10 DEF h

(* A value of the field's type makes it a table again. *)
LEMMA OverwrittenTable ==
    ASSUME NEW g, IsTable(g), NEW j \in DOMAIN g.messages, NEW i \in DOMAIN g.type, NEW v,
           IsValue(g.type[i], v), NEW h, Overwrites(g, h, j, i, v)
    PROVE  IsTable(h)
<1>1. \A l \in DOMAIN h.messages :
        /\ DOMAIN h.messages[l] = DOMAIN h.type
        /\ \A k \in DOMAIN h.type : IsValue(h.type[k], h.messages[l][k])
  <2> SUFFICES ASSUME NEW l \in DOMAIN h.messages
               PROVE  /\ DOMAIN h.messages[l] = DOMAIN h.type
                      /\ \A k \in DOMAIN h.type : IsValue(h.type[k], h.messages[l][k])
    OBVIOUS
  <2>1. l \in DOMAIN g.messages /\ h.type = g.type /\ DOMAIN h.messages[l] = DOMAIN g.type
    BY DEF Overwrites
  <2>2. ASSUME NEW k \in DOMAIN g.type PROVE IsValue(g.type[k], h.messages[l][k])
    <3>1. h.messages[l][k] = IF l = j /\ k = i THEN v ELSE g.messages[l][k]
      BY <2>1 DEF Overwrites
    <3>2. IsValue(g.type[k], g.messages[l][k])
      BY <2>1, TableParts
    <3>3. QED
      BY <3>1, <3>2
  <2>3. QED
    BY <2>1, <2>2
<1>2. QED
  BY <1>1 DEF IsTable, Overwrites

(* A table is one without any of its messages. *)
LEMMA RemovedTable ==
    ASSUME NEW g, IsTable(g), NEW j \in DOMAIN g.messages
    PROVE  IsTable([g EXCEPT !.messages = RemoveAt(@, j)])
<1> DEFINE m == g.messages
           q == RemoveAt(m, j)
           n == Len(m)
           S == ToSet(m)
<1>1. m \in Seq(S) /\ DOMAIN m = 1 .. n /\ n \in Nat
  BY TableParts DEF IsTable
<1>2. q \in Seq(S)
  <2> HIDE DEF S, m
  <2>1. j \in 1 .. n
    BY <1>1 DEF m
  <2>2. SubSeq(m, 1, j - 1) \in Seq(S) /\ SubSeq(m, j + 1, Len(m)) \in Seq(S)
    BY <1>1, <2>1
  <2>3. QED
    BY <2>2 DEF RemoveAt
<1>3. \A l \in DOMAIN q : \E k \in DOMAIN m : q[l] = m[k]
  <2> SUFFICES ASSUME NEW l \in DOMAIN q PROVE q[l] \in S
    BY DEF ToSet
  <2> HIDE DEF q, S
  <2>1. QED
    BY <1>2
<1>4. q \in Seq(ToSet(q))
  <2> HIDE DEF q, S
  <2>1. Len(q) \in Nat /\ q = [l \in 1 .. Len(q) |-> q[l]]
    BY <1>2
  <2> DEFINE k == Len(q)
  <2>2. k \in Nat /\ q = [l \in 1 .. k |-> q[l]]
    BY <2>1
  <2> HIDE DEF k
  <2>3. QED
    BY <2>2, SequenceOf
<1> DEFINE h == [g EXCEPT !.messages = q]
<1>5. /\ DOMAIN h = {"gstl", "fix_k", "type", "messages", "msgs_size"}
      /\ h.gstl = g.gstl /\ h.fix_k = g.fix_k /\ h.type = g.type /\ h.msgs_size = g.msgs_size
      /\ h.messages = q
  <2> HIDE DEF q
  <2>1. QED
    BY DEF IsTable
<1> HIDE DEF h, q
<1>6. \A l \in DOMAIN h.messages :
        /\ DOMAIN h.messages[l] = DOMAIN h.type
        /\ \A i \in DOMAIN h.type : IsValue(h.type[i], h.messages[l][i])
  BY <1>3, <1>5, TableParts
<1>7. IsTable(h)
  BY <1>4, <1>5, <1>6 DEF IsTable
<1>8. QED
  BY <1>7 DEF h, q

(* Two tables with the same texts to edit, whatever these say.               *)
Alike(g, h) ==
    /\ h.gstl = g.gstl /\ h.fix_k = g.fix_k /\ h.type = g.type
    /\ DOMAIN h.messages = DOMAIN g.messages /\ Len(h.messages) = Len(g.messages)
    /\ \A j \in DOMAIN g.messages : \A i \in DOMAIN g.type :
         /\ g.type[i].kind = "str" =>
              (h.messages[j][i].offset = Null <=> g.messages[j][i].offset = Null)
         /\ g.type[i].kind \notin {"str", "fix"} => h.messages[j][i] = g.messages[j][i]

LEMMA AlikeChain ==
    ASSUME NEW f, NEW g, NEW h, Alike(f, g), Alike(g, h)
    PROVE  Alike(f, h)
BY DEF Alike

(* They have the same ids. *)
LEMMA SameIds ==
    ASSUME NEW g, NEW h, IsTable(g), Alike(g, h)
    PROVE  /\ Targets(h) = Targets(g)
           /\ \A t \in Targets(g) :
                /\ GetId(TRUE, h, t[1], t[2]) = GetId(TRUE, g, t[1], t[2])
                /\ GetId(FALSE, h, t[1], t[2]) = GetId(FALSE, g, t[1], t[2])
<1>1. /\ h.gstl = g.gstl /\ h.fix_k = g.fix_k /\ h.type = g.type
      /\ DOMAIN h.messages = DOMAIN g.messages /\ Width(h) = Width(g)
  BY DEF Alike, Width
<1>2. \A j \in DOMAIN g.messages : \A i \in DOMAIN g.type : HasId(h, j, i) <=> HasId(g, j, i)
  BY DEF Alike, HasId
<1>3. Targets(h) = Targets(g)
  <2>1. \A t \in (DOMAIN g.messages) \X (DOMAIN g.type) : HasId(h, t[1], t[2]) <=> HasId(g, t[1], t[2])
    BY <1>2
  <2>2. QED
    BY <1>1, <2>1 DEF Targets
<1>4. DOMAIN g.type = 1 .. Width(g) /\ Width(g) \in Nat
  BY TableParts
<1>5. ASSUME NEW j \in DOMAIN g.messages, NEW i \in DOMAIN g.type
      PROVE  /\ GetId(TRUE, h, j, i) = GetId(TRUE, g, j, i)
             /\ GetId(FALSE, h, j, i) = GetId(FALSE, g, j, i)
  <2>1. StringsUpTo(h, j, i) = StringsUpTo(g, j, i)
    <3>1. \A k \in 1 .. i : k \in DOMAIN g.type
      BY <1>4
    <3>2. \A k \in 1 .. i : h.type[k].kind = "str" /\ h.messages[j][k].offset # Null
                              <=> g.type[k].kind = "str" /\ g.messages[j][k].offset # Null
      BY <1>1, <3>1 DEF Alike
    <3>3. {k \in 1 .. i : h.type[k].kind = "str" /\ h.messages[j][k].offset # Null}
            = {k \in 1 .. i : g.type[k].kind = "str" /\ g.messages[j][k].offset # Null}
      BY <3>2
    <3>4. QED
      BY <3>3 DEF StringsUpTo
  <2>2. \A k \in {1, 2} : /\ IsInt(h, k) <=> IsInt(g, k)
                          /\ IsInt(g, k) => h.messages[j][k] = g.messages[j][k]
    <3> SUFFICES ASSUME NEW k \in {1, 2}
                 PROVE  /\ IsInt(h, k) <=> IsInt(g, k)
                        /\ IsInt(g, k) => h.messages[j][k] = g.messages[j][k]
      OBVIOUS
    <3>1. IsInt(h, k) <=> IsInt(g, k)
      BY <1>1 DEF IsInt
    <3>2. ASSUME IsInt(g, k) PROVE h.messages[j][k] = g.messages[j][k]
      <4>1. k \in DOMAIN g.type /\ g.type[k].kind = "int"
        BY <1>4, <3>2 DEF IsInt
      <4>2. QED
        BY <4>1 DEF Alike
    <3>3. QED
      BY <3>1, <3>2
  <2> DEFINE a == ~g.gstl /\ IsInt(g, 1) /\ ((i = 9 /\ Width(g) = 9) \/ (i = 106 /\ Width(g) = 107))
             b == g.gstl /\ Width(g) = 3 /\ IsInt(g, 2)
             u == IF g.type[i].kind = "fix" THEN g.fix_k ELSE StringsUpTo(g, j, i)
  <2>3. GetId(TRUE, h, j, i) = GetId(TRUE, g, j, i)
    <3>1. GetId(TRUE, h, j, i) = (i - 1) + (j - 1) * 1000
      BY DEF GetId
    <3>2. GetId(TRUE, g, j, i) = (i - 1) + (j - 1) * 1000
      BY DEF GetId
    <3>3. QED
      BY <3>1, <3>2, Zenon
  <2> DEFINE x == GetId(FALSE, g, j, i)
             y == GetId(FALSE, h, j, i)
             p == g.messages[j][1]
             q == g.messages[j][2] + (IF i = 1 THEN 100000 ELSE 0)
             r == u * 10000 + (j - 1)
             p2 == h.messages[j][1]
             q2 == h.messages[j][2] + (IF i = 1 THEN 100000 ELSE 0)
  <2>4. (a => x = p) /\ (~a /\ b => x = q) /\ (~a /\ ~b => x = r)
    BY DEF GetId
  <2> DEFINE a2 == ~h.gstl /\ IsInt(h, 1) /\ ((i = 9 /\ Width(h) = 9) \/ (i = 106 /\ Width(h) = 107))
             b2 == h.gstl /\ Width(h) = 3 /\ IsInt(h, 2)
             u2 == IF h.type[i].kind = "fix" THEN h.fix_k ELSE StringsUpTo(h, j, i)
             r2 == u2 * 10000 + (j - 1)
  <2>5. (a2 => y = p2) /\ (~a2 /\ b2 => y = q2) /\ (~a2 /\ ~b2 => y = r2)
    BY DEF GetId
  <2>6. (a => p2 = p) /\ (b => h.messages[j][2] = g.messages[j][2])
    BY <2>2
  <2>a. u2 = u /\ (a2 <=> a) /\ (b2 <=> b)
    <3>1. IsInt(h, 1) <=> IsInt(g, 1)
      BY <2>2
    <3>2. IsInt(h, 2) <=> IsInt(g, 2)
      BY <2>2
    <3>3. QED
      BY <1>1, <2>1, <3>1, <3>2, Zenon
  <2> HIDE DEF a, b, u, a2, b2, u2
  <2>b. r2 = r
    BY <2>a
  <2>c. b => q2 = q
    BY <2>6
  <2> HIDE DEF x, y, p, q, p2, q2, r, r2
  <2>7. x = y
    BY <2>4, <2>5, <2>6, <2>a, <2>b, <2>c
  <2>8. QED
    BY <2>3, <2>7 DEF x, y
<1>6. \A t \in Targets(g) : t[1] \in DOMAIN g.messages /\ t[2] \in DOMAIN g.type
  BY DEF Targets
<1>7. QED
  BY <1>3, <1>5, <1>6

(* Only the places of strings change when they are calculated. *)
LEMMA RecalcAlike ==
    ASSUME NEW g, IsTable(g)
    PROVE  Alike(g, RecalcSize(g))
<1>1. SameTexts(g, RecalcSize(g))
  BY RecalcSame
<1>2. RecalcSize(g).gstl = g.gstl /\ RecalcSize(g).fix_k = g.fix_k
  BY Recalculated
<1>3. QED
  BY <1>1, <1>2 DEF SameTexts, Alike

(* A text, as it is put into a field. *)
Written(field, v, text) ==
    IF field.kind = "str" THEN [v EXCEPT !.str = text] ELSE strncpy(text, field.size - 1)

(* It is a value of the field, with an id if the text before had one.        *)
LEMMA WrittenValue ==
    ASSUME NEW g, IsTable(g), NEW t \in Targets(g), NEW text \in Seq(Char)
    PROVE  LET field == g.type[t[2]]
               v == g.messages[t[1]][t[2]]
               w == Written(field, v, text)
           IN  /\ IsValue(field, w)
               /\ field.kind = "str" =>
                    /\ w.str = text /\ v.offset # Null /\ w.offset # Null
               /\ field.kind # "str" => field.kind = "fix" /\ w = strncpy(text, field.size - 1)
<1> DEFINE i == t[2]
           field == g.type[i]
           v == g.messages[t[1]][i]
           w == Written(field, v, text)
<1>1. t[1] \in DOMAIN g.messages /\ i \in DOMAIN g.type /\ HasId(g, t[1], i)
  BY DEF Targets
<1>2. IsValue(field, v) /\ field.size \in Nat \ {0} /\ (field.kind = "fix" => field.size > 4)
  BY <1>1, TableParts, FieldIs
<1>3. field.kind = "fix" \/ (field.kind = "str" /\ v.offset # Null)
  BY <1>1, Zenon DEF HasId
<1> DEFINE n == field.size
<1> HIDE DEF i, v, field
<1>4. CASE field.kind = "str"
  <2>1. v \in [str : Seq(Char), offset : Nat \cup {Null}] /\ v.offset # Null
    BY <1>2, <1>3, <1>4 DEF IsValue
  <2>2. w = [v EXCEPT !.str = text]
    BY <1>4 DEF Written
  <2>3. w \in [str : Seq(Char), offset : Nat \cup {Null}] /\ w.str = text /\ w.offset = v.offset
    BY <2>1, <2>2
  <2> HIDE DEF w
  <2>4. IsValue(field, w)
    BY <1>4, <2>1, <2>3 DEF IsValue
  <2>5. QED
    BY <1>4, <2>1, <2>3, <2>4 DEF w, i, v, field
<1>5. CASE field.kind = "fix"
  <2>1. w = strncpy(text, n - 1)
    BY <1>5 DEF Written
  <2>2. n \in Nat \ {0}
    BY <1>2
  <2> HIDE DEF n
  <2>3. Len(text) \in Nat
    OBVIOUS
  <2>4. strncpy(text, n - 1) \in Seq(Char) /\ Len(strncpy(text, n - 1)) < n
    <3> DEFINE k == IF Len(text) < n - 1 THEN Len(text) ELSE n - 1
    <3>1. k \in 0 .. Len(text) /\ k < n
      BY <2>2, <2>3
    <3>2. strncpy(text, n - 1) = SubSeq(text, 1, k)
      BY DEF strncpy
    <3> HIDE DEF k
    <3>3. SubSeq(text, 1, k) \in Seq(Char) /\ Len(SubSeq(text, 1, k)) = k
      BY <3>1
    <3>4. QED
      BY <3>1, <3>2, <3>3
  <2> HIDE DEF w
  <2>5. IsValue(field, w)
    BY <1>5, <2>1, <2>4 DEF IsValue, n
  <2>6. QED
    BY <1>5, <2>1, <2>5 DEF w, i, v, field, n
<1>6. QED
  BY <1>3, <1>4, <1>5

(* What the end of a block does. *)
LEMMA BlockEnded ==
    ASSUME IsTable(table), msg \in Seq(Char),
           pos.field # 0 => <<pos.index, pos.field>> \in Targets(table)
    PROVE  /\ IsTable(EndBlock) /\ Alike(table, EndBlock)
           /\ \A t \in Targets(table) :
                TextOf(EndBlock, t[1], t[2]) =
                  IF pos.field # 0 /\ t = <<pos.index, pos.field>>
                  THEN Fitting(table.type[t[2]], Front(msg)) ELSE TextOf(table, t[1], t[2])
<1> DEFINE g == table
           h == EndBlock
<1>1. CASE pos.field = 0
  <2>1. h = g
    BY <1>1 DEF EndBlock
  <2>2. Alike(g, g)
    BY DEF Alike
  <2> HIDE DEF h
  <2>3. QED
    BY <1>1, <2>1, <2>2 DEF h
<1>2. CASE pos.field # 0
  <2> DEFINE j == pos.index
             i == pos.field
             field == g.type[i]
             text == Front(msg)
             v == g.messages[j][i]
             w == Written(field, v, text)
  <2>1. <<j, i>> \in Targets(g) /\ j \in DOMAIN g.messages /\ i \in DOMAIN g.type
    <3>1. <<j, i>> \in Targets(g)
      BY <1>2
    <3>2. QED
      BY <3>1 DEF Targets
  <2>2. text \in Seq(Char)
    BY DEF Front
  <2>3. /\ IsValue(field, w)
        /\ field.kind = "str" => w.str = text /\ v.offset # Null /\ w.offset # Null
        /\ field.kind # "str" => field.kind = "fix" /\ w = strncpy(text, field.size - 1)
    <3> DEFINE t == <<j, i>>
    <3>1. t \in Targets(g) /\ t[1] = j /\ t[2] = i
      BY <2>1
    <3> HIDE DEF t, text
    <3>2. LET fie == g.type[t[2]]
              va == g.messages[t[1]][t[2]]
              wr == Written(fie, va, text)
          IN  /\ IsValue(fie, wr)
              /\ fie.kind = "str" => wr.str = text /\ va.offset # Null /\ wr.offset # Null
              /\ fie.kind # "str" => fie.kind = "fix" /\ wr = strncpy(text, fie.size - 1)
      BY <2>2, <3>1, WrittenValue
    <3>3. QED
      BY <3>1, <3>2
  <2>4. h = [g EXCEPT !.messages[j][i] = w]
    BY <1>2 DEF EndBlock, Written
  <2> HIDE DEF w, text
  <2>5. Overwrites(g, h, j, i, w)
    BY <2>1, <2>4, Overwritten
  <2> HIDE DEF h
  <2>6. IsTable(h)
    BY <2>1, <2>3, <2>5, OverwrittenTable
  <2>7. /\ h.gstl = g.gstl /\ h.fix_k = g.fix_k /\ h.type = g.type
        /\ DOMAIN h.messages = DOMAIN g.messages /\ Len(h.messages) = Len(g.messages)
        /\ \A l \in DOMAIN g.messages : \A k \in DOMAIN g.type :
             h.messages[l][k] = IF l = j /\ k = i THEN w ELSE g.messages[l][k]
    BY <2>5 DEF Overwrites
  <2>8. Alike(g, h)
    BY <2>3, <2>7 DEF Alike
  <2>9. ASSUME NEW t \in Targets(g)
        PROVE  TextOf(h, t[1], t[2]) =
                 IF t = <<j, i>> THEN Fitting(g.type[t[2]], text) ELSE TextOf(g, t[1], t[2])
    <3>1. t[1] \in DOMAIN g.messages /\ t[2] \in DOMAIN g.type /\ t = <<t[1], t[2]>>
      BY DEF Targets
    <3>2. CASE t = <<j, i>>
      <4>1. t[1] = j /\ t[2] = i
        BY <3>2
      <4>2. h.messages[j][i] = w /\ h.type = g.type
        BY <2>1, <2>7
      <4>3. TextOf(h, j, i) = Fitting(field, text)
        BY <2>3, <4>2 DEF TextOf, Fitting
      <4>4. QED
        BY <3>2, <4>1, <4>3
    <3>3. CASE t # <<j, i>>
      <4>1. ~(t[1] = j /\ t[2] = i)
        BY <3>1, <3>3
      <4>2. h.messages[t[1]][t[2]] = g.messages[t[1]][t[2]] /\ h.type = g.type
        BY <2>7, <3>1, <4>1
      <4>3. TextOf(h, t[1], t[2]) = TextOf(g, t[1], t[2])
        BY <4>2 DEF TextOf
      <4>4. QED
        BY <3>3, <4>3
    <3>4. QED
      BY <3>2, <3>3
  <2>10. QED
    BY <1>2, <2>6, <2>8, <2>9 DEF h, text
<1>3. QED
  BY <1>1, <1>2

(* No two messages have the same turn in a search. *)
LEMMA TurnsDiffer ==
    ASSUME NEW n \in Nat, NEW x \in 1 .. n, NEW y \in 1 .. n, NEW d \in 1 .. n,
           (x - d + n) % n = (y - d + n) % n
    PROVE  x = y
<1> DEFINE a == x - d + n
           b == y - d + n
           Turn(c, r) == IF c < n THEN r = c ELSE r = c - n
<1>1. n \in Nat \ {0} /\ a \in Nat /\ b \in Nat /\ a < 2 * n /\ b < 2 * n
  OBVIOUS
<1>2. ASSUME NEW c \in Nat, c < 2 * n PROVE Turn(c, c % n)
  <2> DEFINE q == c \div n
             r == c % n
  <2>1. c = n * q + r /\ r \in 0 .. n - 1 /\ q \in Nat
    BY <1>1, Division
  <2> HIDE DEF q, r
  <2>2. CASE c < n
    <3>1. n * 0 + c = n * q + r /\ c \in 0 .. n - 1
      BY <2>1, <2>2
    <3>2. c = r
      BY <1>1, <2>1, <3>1, OneDivision
    <3>3. QED
      BY <2>2, <3>2 DEF r
  <2>3. CASE ~(c < n)
    <3> DEFINE s == c - n
    <3>1. n * 1 + s = n * q + r /\ s \in 0 .. n - 1
      BY <1>1, <1>2, <2>1, <2>3
    <3> HIDE DEF s
    <3>2. s = r
      BY <1>1, <2>1, <3>1, OneDivision
    <3>3. QED
      BY <2>3, <3>2 DEF r, s
  <2>4. QED
    BY <2>2, <2>3
<1>3. Turn(a, a % n) /\ Turn(b, b % n)
  <2> HIDE DEF a, b, Turn
  <2>1. QED
    BY <1>1, <1>2
<1>4. a % n = b % n
  OBVIOUS
<1> DEFINE r == a % n
           s == b % n
<1>5. Turn(a, r) /\ Turn(b, s) /\ r = s
  BY <1>3, <1>4
<1> HIDE DEF r, s
<1>6. QED
  BY <1>1, <1>5

(* The search finds a text with the id, if there is one. *)
Searched(simple, g, id, index) ==
    /\ simple \in BOOLEAN /\ index \in Nat \ {0}
    /\ index = 1 \/ index \in DOMAIN g.messages
    /\ simple => SimpleDst(id) \in Targets(g)
    /\ ~simple => \E t \in Targets(g) : GetId(simple, g, t[1], t[2]) = id

LEMMA Found ==
    ASSUME NEW g, IsTable(g), NEW simple, NEW id, NEW index, Searched(simple, g, id, index)
    PROVE  /\ FindDst(simple, g, id, index) \in Targets(g)
           /\ ~simple => GetId(simple, g, FindDst(simple, g, id, index)[1],
                                          FindDst(simple, g, id, index)[2]) = id
<1>1. CASE simple
  BY <1>1 DEF FindDst, Searched
<1>2. CASE ~simple
  <2> DEFINE n == Len(g.messages)
             turn(j) == (j - index + n) % n
             found == {t \in Targets(g) : GetId(simple, g, t[1], t[2]) = id}
             Nearest(t) == \A u \in found : \/ turn(t[1]) < turn(u[1])
                                            \/ t[1] = u[1] /\ t[2] <= u[2]
  <2>1. DOMAIN g.messages = 1 .. n /\ n \in Nat /\ DOMAIN g.type = 1 .. Width(g) /\ Width(g) \in Nat
    BY TableParts
  <2>2. found # {} /\ found \subseteq Targets(g)
    BY <1>2 DEF Searched
  <2>3. \A t \in found : t[1] \in 1 .. n /\ t[2] \in Nat
    BY <2>1 DEF Targets
  <2>4. n # 0 /\ index \in 1 .. n
    BY <2>1, <2>2, <2>3 DEF Searched
  <2> HIDE DEF n, found
  <2>5. \A t \in found : turn(t[1]) \in Nat
    <3> SUFFICES ASSUME NEW t \in found PROVE turn(t[1]) \in Nat
      OBVIOUS
    <3>1. t[1] - index + n \in Nat /\ n \in Nat \ {0}
      BY <2>1, <2>3, <2>4
    <3> DEFINE c == t[1] - index + n
    <3> HIDE DEF c
    <3>2. c % n \in 0 .. n - 1
      BY <3>1, Division DEF c
    <3>3. QED
      BY <2>1, <3>2 DEF c
  <2> DEFINE A == {turn(t[1]) : t \in found}
  <2>6. PICK m \in A : \A x \in A : m <= x
    <3>1. A \subseteq Nat /\ A # {}
      BY <2>2, <2>5
    <3> HIDE DEF A
    <3>2. QED
      BY <3>1, Least
  <2> DEFINE B == {t[2] : t \in {u \in found : turn(u[1]) = m}}
  <2>7. PICK i \in B : \A x \in B : i <= x
    <3>1. B \subseteq Nat
      BY <2>3
    <3>2. B # {}
      BY <2>6
    <3> HIDE DEF B
    <3>3. QED
      BY <3>1, <3>2, Least
  <2>8. PICK t \in found : turn(t[1]) = m /\ t[2] = i
    BY <2>7
  <2>9. ASSUME NEW u \in found PROVE turn(t[1]) < turn(u[1]) \/ (t[1] = u[1] /\ t[2] <= u[2])
    <3>1. m <= turn(u[1])
      BY <2>6
    <3>2. CASE turn(u[1]) = m
      <4>1. i <= u[2]
        BY <2>7, <3>2
      <4>2. (t[1] - index + n) % n = (u[1] - index + n) % n
        BY <2>8, <3>2
      <4> DEFINE x == t[1]
                 y == u[1]
      <4>3. x \in 1 .. n /\ y \in 1 .. n /\ (x - index + n) % n = (y - index + n) % n
        BY <2>3, <2>8, <4>2
      <4> HIDE DEF x, y
      <4>4. x = y
        BY <2>1, <2>4, <4>3, TurnsDiffer
      <4>5. QED
        BY <2>8, <4>1, <4>4 DEF x, y
    <3>3. CASE turn(u[1]) # m
      <4> DEFINE a == turn(u[1])
      <4>1. a \in Nat /\ m <= a /\ a # m
        BY <2>5, <3>1, <3>3
      <4>2. m \in Nat
        BY <2>5, <2>8
      <4> HIDE DEF a
      <4>3. m < a
        BY <4>1, <4>2
      <4>4. QED
        BY <2>8, <4>3 DEF a
    <3>4. QED
      BY <3>2, <3>3
  <2>10. Nearest(t)
    BY <2>9
  <2> DEFINE e == CHOOSE s \in found : Nearest(s)
  <2>11. FindDst(simple, g, id, index) = e
    BY <1>2, Zenon DEF FindDst, n, found
  <2>12. e \in found
    <3> HIDE DEF Nearest
    <3>1. QED
      BY <2>8, <2>10
  <2> HIDE DEF e
  <2>13. e \in Targets(g) /\ GetId(simple, g, e[1], e[2]) = id
    BY <2>12 DEF found
  <2>14. QED
    BY <1>2, <2>11, <2>13
<1>3. QED
  BY <1>1, <1>2

-----------------------------------------------------------------------------
(* Text files *)

(* r says where the lines of a text end. *)
LinesAt(text, r) ==
    /\ TextLines(text) \in Seq([is : {"text"}, text : Seq(Char)])
    /\ Len(TextLines(text)) \in Nat \ {0}
    /\ r \in [0 .. Len(TextLines(text)) -> 0 .. Len(text) + 1]
    /\ r[0] = 0 /\ r[Len(TextLines(text))] = Len(text) + 1
    /\ \A k \in 1 .. Len(TextLines(text)) :
         /\ r[k - 1] < r[k]
         /\ r[k] = Len(text) + 1 \/ text[r[k]] = "n"
         /\ TextLines(text)[k] =
              [is |-> "text", text |-> Append(SubSeq(text, r[k - 1] + 1, r[k] - 1), "r")]

(* The line that ends at e begins behind the end before it. *)
LEMMA LineBegins ==
    ASSUME NEW text, NEW e \in Nat, NEW p \in Nat, Ends(text) \subseteq Nat,
           p < e, p = 0 \/ p \in Ends(text),
           \A b \in Ends(text) : b < e => b <= p
    PROVE  LineAt(text, e) = SubSeq(text, p + 1, e - 1)
<1> DEFINE S == {0} \cup {b \in Ends(text) : b < e}
           m == CHOOSE x \in S : \A y \in S : x >= y
<1>1. p \in S /\ \A y \in S : p >= y /\ y \in Nat
  OBVIOUS
<1> HIDE DEF S
<1>2. m \in S /\ \A y \in S : m >= y
  BY <1>1
<1> HIDE DEF m
<1>3. m = p
  BY <1>1, <1>2
<1>4. Max(S) = m
  BY DEF Max, m
<1>5. LineAt(text, e) = SubSeq(text, Max(S) + 1, e - 1)
  BY DEF LineAt, S
<1>6. QED
  BY <1>3, <1>4, <1>5

(* The lines of a text. *)
LEMMA LinesOfText ==
    ASSUME NEW text \in Seq(Char)
    PROVE  \E r : LinesAt(text, r)
<1> DEFINE n == Len(text) + 1
           R == Ends(text)
           L == [is : {"text"}, text : Seq(Char)]
           x == [e \in R |-> [is |-> "text", text |-> Append(LineAt(text, e), "r")]]
           V == {x[e] : e \in R}
           seqs == [e \in 1 .. n |-> IF e \in R THEN <<x[e]>> ELSE <<>>]
           list == FlattenSeq(seqs)
           K == Len(list)
<1>1. n \in Nat /\ R \in SUBSET (1 .. n) /\ n \in R
      /\ \A e \in R : e = Len(text) + 1 \/ text[e] = "n"
  BY DEF Ends
<1>2. TextLines(text) = list
  <2>1. TextLines(text) = FlattenSeq([e \in 1 .. n |->
          IF e \in R THEN <<[is |-> "text", text |-> Append(LineAt(text, e), "r")]>> ELSE <<>>])
    BY Zenon DEF TextLines
  <2>2. [e \in 1 .. n |->
          IF e \in R THEN <<[is |-> "text", text |-> Append(LineAt(text, e), "r")]>> ELSE <<>>]
        = seqs
    <3> HIDE DEF R, n
    <3>1. QED
      OBVIOUS
  <2>3. QED
    BY <2>1, <2>2
<1>3. x \in [R -> V] /\ seqs \in [1 .. n -> Seq(V)]
      /\ \A e \in 1 .. n : seqs[e] = IF e \in R THEN <<x[e]>> ELSE <<>>
  <2> HIDE DEF R, n
  <2>1. x \in [R -> V]
    <3> DEFINE z == x
    <3>1. z = [e \in R |-> z[e]]
      OBVIOUS
    <3> HIDE DEF z
    <3>2. z \in [R -> {z[e] : e \in R}]
      BY <3>1
    <3>3. QED
      BY <3>2 DEF z
  <2> HIDE DEF V, x
  <2>2. \A e \in 1 .. n : (IF e \in R THEN <<x[e]>> ELSE <<>>) \in Seq(V)
    BY <2>1
  <2>3. QED
    BY <2>1, <2>2
<1> HIDE DEF n, R, x, V, seqs, list
<1>4. PICK s : Picks(R, V, x, list, s)
  BY <1>1, <1>3, Picked DEF list
<1>5. /\ list \in Seq(V) /\ K \in Nat /\ s \in [1 .. K -> R]
      /\ \A k \in 1 .. K : list[k] = x[s[k]]
      /\ \A e \in R : \E k \in 1 .. K : s[k] = e
      /\ \A k, l \in 1 .. K : k < l => s[k] < s[l]
  BY <1>4 DEF Picks
<1> HIDE DEF K
<1>6. \A k \in 1 .. K : s[k] \in R /\ s[k] \in 1 .. n /\ s[k] \in Nat
  <2> SUFFICES ASSUME NEW k \in 1 .. K PROVE s[k] \in R /\ s[k] \in 1 .. n /\ s[k] \in Nat
    OBVIOUS
  <2>1. s[k] \in R
    BY <1>5
  <2>2. s[k] \in 1 .. n
    BY <1>1, <2>1
  <2>3. QED
    BY <1>1, <2>1, <2>2
<1>7. K # 0 /\ s[K] = n
  <2>1. PICK k \in 1 .. K : s[k] = n
    BY <1>1, <1>5
  <2>2. K \in 1 .. K /\ K # 0
    BY <1>5, <2>1
  <2>3. k < K => n < s[K]
    BY <1>5, <2>1, <2>2
  <2>4. s[K] \in 1 .. n
    BY <1>6, <2>2
  <2>5. ~(k < K)
    BY <1>1, <2>3, <2>4
  <2>6. k = K
    BY <1>5, <2>5
  <2>7. QED
    BY <2>1, <2>2, <2>6
<1> DEFINE r == [k \in 0 .. K |-> IF k = 0 THEN 0 ELSE s[k]]
<1>8. r \in [0 .. K -> 0 .. n] /\ r[0] = 0 /\ r[K] = n /\ \A k \in 1 .. K : r[k] = s[k]
  <2>1. \A k \in 0 .. K : k # 0 => k \in 1 .. K
    BY <1>5
  <2>2. \A k \in 0 .. K : (IF k = 0 THEN 0 ELSE s[k]) \in 0 .. n
    BY <1>1, <1>6, <2>1
  <2>3. K \in 0 .. K /\ 0 \in 0 .. K
    BY <1>5
  <2>4. QED
    BY <1>5, <1>7, <2>2, <2>3
<1> HIDE DEF r
<1>9. ASSUME NEW k \in 1 .. K
      PROVE  /\ r[k - 1] < r[k] /\ r[k - 1] \in Nat
             /\ LineAt(text, s[k]) = SubSeq(text, r[k - 1] + 1, s[k] - 1)
  <2> DEFINE p == r[k - 1]
             e == s[k]
             j == k - 1
  <2>1. e \in Nat /\ e \in 1 .. n /\ r[k] = e /\ k \in Nat
    BY <1>6, <1>8
  <2>2. p \in Nat /\ (p = 0 \/ p \in R) /\ p < e /\ (k # 1 => p = s[j] /\ j \in 1 .. K)
    <3>1. CASE k = 1
      BY <1>8, <2>1, <3>1
    <3>2. CASE k # 1
      <4>1. j \in 1 .. K /\ j < k
        BY <1>5, <3>2
      <4> HIDE DEF j
      <4>2. r[j] = s[j] /\ s[j] \in R /\ s[j] \in Nat /\ s[j] < s[k]
        BY <1>5, <1>6, <1>8, <4>1
      <4>3. QED
        BY <4>1, <4>2 DEF j
    <3>3. QED
      BY <3>1, <3>2
  <2> HIDE DEF p, j
  <2>3. ASSUME NEW b \in R, b < e PROVE b <= p
    <3>1. PICK l \in 1 .. K : s[l] = b
      BY <1>5
    <3>2. b \in Nat
      BY <1>6, <3>1
    <3>3. ~(k < l) /\ k # l
      BY <1>5, <2>1, <2>3, <3>1, <3>2
    <3>4. l <= j /\ k # 1
      BY <2>1, <3>3 DEF j
    <3>5. CASE l = j
      BY <2>2, <3>1, <3>2, <3>4, <3>5
    <3>6. CASE l # j
      <4>1. l < j /\ j \in 1 .. K
        BY <2>2, <3>4, <3>6
      <4>2. s[l] < s[j]
        BY <1>5, <4>1
      <4>3. QED
        BY <2>2, <3>1, <3>2, <3>4, <4>2
    <3>7. QED
      BY <3>5, <3>6
  <2>4. R \subseteq Nat
    BY <1>1
  <2>5. LineAt(text, e) = SubSeq(text, p + 1, e - 1)
    BY <2>1, <2>2, <2>3, <2>4, LineBegins DEF R
  <2>6. QED
    BY <2>1, <2>2, <2>5 DEF p
<1>10. ASSUME NEW k \in 1 .. K
       PROVE  /\ list[k] = [is |-> "text", text |-> Append(SubSeq(text, r[k - 1] + 1, r[k] - 1), "r")]
              /\ r[k] = n \/ text[r[k]] = "n"
              /\ list[k] \in L
  <2>1. s[k] \in R /\ r[k] = s[k] /\ list[k] = x[s[k]] /\ s[k] \in 1 .. n
    BY <1>5, <1>6, <1>8
  <2>2. x[s[k]] = [is |-> "text", text |-> Append(LineAt(text, s[k]), "r")]
    BY <2>1 DEF x
  <2> DEFINE p == r[k - 1]
             e == s[k]
             line == SubSeq(text, p + 1, e - 1)
  <2>3. p \in Nat /\ p < e /\ e \in 1 .. Len(text) + 1
    BY <1>9, <2>1 DEF n
  <2> HIDE DEF p, e
  <2>4. line \in Seq(Char)
    BY <2>3
  <2>5. Append(line, "r") \in Seq(Char)
    <3>1. "r" \in Char
      BY CharAssumption
    <3> HIDE DEF line
    <3>2. QED
      BY <2>4, <3>1
  <2>6. list[k] = [is |-> "text", text |-> Append(line, "r")]
    BY <1>9, <2>1, <2>2 DEF p, e
  <2>7. list[k] \in L
    <3> HIDE DEF line
    <3>1. QED
      BY <2>5, <2>6
  <2>8. r[k] = n \/ text[r[k]] = "n"
    BY <1>1, <2>1 DEF n
  <2>9. QED
    BY <2>1, <2>6, <2>7, <2>8 DEF p, e
<1>11. list \in Seq(L)
  <2>1. list = [k \in 1 .. K |-> list[k]]
    BY <1>5 DEF K
  <2> HIDE DEF L
  <2>2. list \in [1 .. K -> L]
    BY <1>10, <2>1
  <2>3. QED
    BY <1>5, <2>2
<1>12. K = Len(list)
  BY DEF K
<1>13. LinesAt(text, r)
  BY <1>2, <1>5, <1>7, <1>8, <1>9, <1>10, <1>11, <1>12 DEF LinesAt, n
<1>14. QED
  BY <1>13

(* Reading the line of a text up to q adds what is up to q.                  *)
LEMMA LineAdded ==
    ASSUME NEW text \in Seq(Char), NEW p \in Nat, NEW q \in Nat, p < q, q <= Len(text) + 1,
           q = Len(text) + 1 \/ text[q] = "n"
    PROVE  SubSeq(Append(text, "n"), 1, p)
             \o Chomp(Append(SubSeq(text, p + 1, q - 1), "r")) \o <<"n">>
           = SubSeq(Append(text, "n"), 1, q)
<1> DEFINE T == Append(text, "n")
           n == Len(text)
           x == SubSeq(T, 1, p)
           y == SubSeq(text, p + 1, q - 1)
           line == Append(y, "r")
           z == SubSeq(T, 1, q)
<1>1. "n" \in Char /\ "r" \in Char
  BY CharAssumption
<1>2. /\ n \in Nat /\ T \in Seq(Char) /\ Len(T) = n + 1
      /\ \A i \in 1 .. n : T[i] = text[i]
  BY <1>1
<1>a. T[n + 1] = "n"
  BY <1>1
<1>3. T[q] = "n"
  <2>1. q \in 1 .. n \/ q = n + 1
    BY <1>2
  <2> HIDE DEF T
  <2>2. CASE q = n + 1
    BY <1>a, <2>2
  <2>3. CASE q # n + 1
    BY <1>2, <2>1, <2>3
  <2>4. QED
    BY <2>2, <2>3
<1> HIDE DEF T
<1>4. x \in Seq(Char) /\ Len(x) = p /\ \A i \in 1 .. p : x[i] = T[i]
  BY <1>2
<1>5. y \in Seq(Char) /\ Len(y) = q - 1 - p /\ \A i \in 1 .. q - 1 - p : y[i] = text[p + i]
  BY <1>2
<1>6. z \in Seq(Char) /\ Len(z) = q /\ \A i \in 1 .. q : z[i] = T[i]
  BY <1>2
<1> HIDE DEF x, y, z
<1>7. line \in Seq(Char) /\ Len(line) = Len(y) + 1 /\ line[Len(y) + 1] = "r"
      /\ \A i \in 1 .. Len(y) : line[i] = y[i]
  BY <1>1, <1>5
<1>b. Len(y) \in Nat
  BY <1>5
<1> HIDE DEF line
<1>8. Chomp(line) = y
  <2>1. line # <<>> /\ Last(line) = "r" /\ Len(line) - 1 = Len(y)
    BY <1>7, <1>b DEF Last
  <2>2. Chomp(line) = SubSeq(line, 1, Len(y))
    BY <2>1 DEF Chomp, Front
  <2>3. SubSeq(line, 1, Len(y)) = y
    <3> DEFINE u == SubSeq(line, 1, Len(y))
    <3>1. u \in Seq(Char) /\ Len(u) = Len(y) /\ \A i \in 1 .. Len(y) : u[i] = line[i]
      BY <1>7, <1>b
    <3> HIDE DEF u
    <3>2. u = y
      BY <1>5, <1>7, <3>1
    <3>3. QED
      BY <3>2 DEF u
  <2>4. QED
    BY <2>2, <2>3
<1> DEFINE v == x \o y
           w == v \o <<"n">>
<1>9. /\ v \in Seq(Char) /\ Len(v) = Len(x) + Len(y)
      /\ \A i \in 1 .. Len(x) : v[i] = x[i]
      /\ \A i \in 1 .. Len(y) : v[Len(x) + i] = y[i]
  <2> DEFINE u == Join(x, y)
  <2>1. /\ u \in Seq(Char) /\ Len(u) = Len(x) + Len(y)
        /\ \A i \in 1 .. Len(x) : i \in 1 .. Len(u) /\ u[i] = x[i]
        /\ \A i \in 1 .. Len(y) : Len(x) + i \in 1 .. Len(u) /\ u[Len(x) + i] = y[i]
    <3>1. x \in Seq(Char) /\ y \in Seq(Char)
      BY <1>4, <1>5
    <3>2. QED
      BY <3>1, Joined
  <2>2. u = v
    BY DEF Join
  <2> HIDE DEF u, v
  <2>3. QED
    BY <2>1, <2>2
<1> HIDE DEF v
<1>10. Len(v) = q - 1
  BY <1>4, <1>5, <1>9
<1>11. w \in Seq(Char) /\ Len(w) = q /\ w[q] = "n" /\ \A i \in 1 .. q - 1 : w[i] = v[i]
  <2>1. v \in Seq(Char)
    BY <1>9
  <2>2. QED
    BY <1>1, <1>10, <2>1
<1> HIDE DEF w
<1>12. ASSUME NEW i \in 1 .. q PROVE w[i] = z[i]
  <2>1. z[i] = T[i]
    BY <1>6
  <2>2. CASE i = q
    BY <1>3, <1>11, <2>1, <2>2
  <2>3. CASE i # q /\ i <= p
    <3>1. i \in 1 .. q - 1 /\ i \in 1 .. Len(x) /\ i \in 1 .. p
      BY <1>4, <2>3
    <3>2. QED
      BY <1>4, <1>9, <1>11, <2>1, <3>1
  <2>4. CASE i # q /\ p < i
    <3> DEFINE j == i - p
    <3>1. i \in 1 .. q - 1 /\ j \in 1 .. Len(y) /\ Len(x) + j = i /\ p + j = i /\ i \in 1 .. n
          /\ j \in 1 .. q - 1 - p
      BY <1>2, <1>4, <1>5, <2>4
    <3> HIDE DEF j
    <3>2. w[i] = v[i] /\ v[i] = y[j] /\ y[j] = text[i] /\ T[i] = text[i]
      BY <1>2, <1>5, <1>9, <1>11, <3>1
    <3>3. QED
      BY <2>1, <3>2
  <2>5. QED
    BY <2>2, <2>3, <2>4
<1>13. w = z
  BY <1>6, <1>11, <1>12
<1>14. QED
  BY <1>8, <1>13 DEF T, x, y, z, line, v, w

(* A block's first line, and the lines a text file is made of. *)
Separator(simple, F, k) == [is |-> "separator", id |-> F[k].id, simple |-> simple]

LineSet(simple, F) ==
    [is : {"text"}, text : Seq(Char)] \cup {Separator(simple, F, k) : k \in DOMAIN F}

BlockLines(simple, F, k) == <<Separator(simple, F, k)>> \o TextLines(F[k].text)

(* at says where the blocks begin. *)
BlocksAt(simple, F, at) ==
    /\ at \in [1 .. Len(F) + 1 -> Nat] /\ at[1] = 0
    /\ FileLines(simple, F) \in Seq(LineSet(simple, F))
    /\ Len(FileLines(simple, F)) = at[Len(F) + 1]
    /\ \A k \in 1 .. Len(F) :
         /\ Len(TextLines(F[k].text)) \in Nat
         /\ at[k + 1] = at[k] + 1 + Len(TextLines(F[k].text))
         /\ FileLines(simple, F)[at[k] + 1] = Separator(simple, F, k)
         /\ \A m \in 1 .. Len(TextLines(F[k].text)) :
              FileLines(simple, F)[at[k] + 1 + m] = TextLines(F[k].text)[m]

Starts(simple, F) == Sums([k \in 1 .. Len(F) |-> Len(BlockLines(simple, F, k))])

(* The lines of a file. *)
LEMMA LinesOfFile ==
    ASSUME NEW simple, NEW I, NEW F \in Seq([id : I, text : Seq(Char)])
    PROVE  BlocksAt(simple, F, Starts(simple, F))
<1> DEFINE N == Len(F)
           V == LineSet(simple, F)
           L == [is : {"text"}, text : Seq(Char)]
           s == [k \in 1 .. N |-> BlockLines(simple, F, k)]
           n == [k \in 1 .. N |-> Len(BlockLines(simple, F, k))]
           at == Starts(simple, F)
           flat == FlattenSeq(s)
<1>1. N \in Nat /\ DOMAIN F = 1 .. N /\ \A k \in 1 .. N : F[k].text \in Seq(Char)
  <2> DEFINE B == [id : I, text : Seq(Char)]
  <2>1. F \in Seq(B) /\ \A x \in B : x.text \in Seq(Char)
    OBVIOUS
  <2> HIDE DEF B
  <2>2. QED
    BY <2>1
<1>2. ASSUME NEW k \in 1 .. N
      PROVE  LET x == Separator(simple, F, k)
                 y == TextLines(F[k].text)
             IN  /\ s[k] \in Seq(V) /\ Len(y) \in Nat
                 /\ Len(s[k]) = 1 + Len(y) /\ s[k][1] = x
                 /\ \A m \in 1 .. Len(y) : s[k][1 + m] = y[m]
  <2> DEFINE x == Separator(simple, F, k)
             y == TextLines(F[k].text)
             z == <<x>> \o y
  <2>1. s[k] = z
    BY DEF BlockLines
  <2>2. y \in Seq(L) /\ Len(y) \in Nat
    <3>1. F[k].text \in Seq(Char)
      BY <1>1
    <3>2. PICK r : LinesAt(F[k].text, r)
      BY <3>1, LinesOfText
    <3>3. QED
      BY <3>2 DEF LinesAt
  <2>3. L \subseteq V /\ x \in V
    BY <1>1 DEF LineSet
  <2> HIDE DEF L, V, x, y
  <2>4. y \in Seq(V)
    BY <2>2, <2>3
  <2>5. /\ z \in Seq(V) /\ Len(z) = 1 + Len(y) /\ z[1] = x
        /\ \A m \in 1 .. Len(y) : z[1 + m] = y[m]
    <3> DEFINE a == <<x>>
               u == Join(a, y)
    <3>1. a \in Seq(V) /\ Len(a) = 1 /\ a[1] = x
      BY <2>3
    <3>2. u = z
      BY DEF Join
    <3> HIDE DEF a
    <3>3. /\ u \in Seq(V) /\ Len(u) = Len(a) + Len(y)
          /\ \A i \in 1 .. Len(a) : i \in 1 .. Len(u) /\ u[i] = a[i]
          /\ \A i \in 1 .. Len(y) : Len(a) + i \in 1 .. Len(u) /\ u[Len(a) + i] = y[i]
      <4>1. a \in Seq(V) /\ y \in Seq(V)
        BY <2>4, <3>1
      <4>2. QED
        BY <4>1, Joined
    <3> HIDE DEF u, z
    <3>4. QED
      BY <3>1, <3>2, <3>3
  <2> HIDE DEF s, z
  <2>6. QED
    BY <2>1, <2>2, <2>5 DEF x, y
<1>3. s \in [1 .. N -> Seq(V)] /\ n \in [1 .. N -> Nat] /\ \A k \in 1 .. N : n[k] = Len(s[k])
  <2>1. s = [k \in 1 .. N |-> s[k]]
    OBVIOUS
  <2>2. n = [k \in 1 .. N |-> Len(s[k])]
    OBVIOUS
  <2>3. \A k \in 1 .. N : s[k] \in Seq(V) /\ Len(s[k]) \in Nat
    <3> SUFFICES ASSUME NEW k \in 1 .. N PROVE s[k] \in Seq(V) /\ Len(s[k]) \in Nat
      OBVIOUS
    <3>1. s[k] \in Seq(V)
      BY <1>2
    <3> HIDE DEF V, s
    <3>2. QED
      BY <3>1
  <2> HIDE DEF s, n, V
  <2>4. QED
    BY <2>1, <2>2, <2>3
<1>4. /\ at \in [1 .. N + 1 -> Nat] /\ at[1] = 0
      /\ \A k \in 1 .. N : at[k + 1] = at[k] + n[k]
  <2>1. at = Sums(n)
    BY DEF Starts
  <2> HIDE DEF n, at
  <2>2. QED
    BY <1>1, <1>3, <2>1, SumsStep
<1> HIDE DEF s, n, at, V
<1>5. Joins(V, N, s, at, flat)
  <2>1. Laid(V, N, s, at)
    BY <1>1, <1>3, <1>4 DEF Laid
  <2>2. QED
    BY <2>1, Flattened
<1>6. FileLines(simple, F) = flat
  <2>1. FileLines(simple, F) = FlattenSeq([k \in DOMAIN F |-> BlockLines(simple, F, k)])
    BY Zenon DEF FileLines, BlockLines, Separator
  <2>2. QED
    BY <1>1, <2>1 DEF s
<1> HIDE DEF flat
<1>7. ASSUME NEW k \in 1 .. N
      PROVE  /\ Len(TextLines(F[k].text)) \in Nat
             /\ at[k + 1] = at[k] + 1 + Len(TextLines(F[k].text))
             /\ flat[at[k] + 1] = Separator(simple, F, k)
             /\ \A m \in 1 .. Len(TextLines(F[k].text)) :
                  flat[at[k] + 1 + m] = TextLines(F[k].text)[m]
  <2> DEFINE y == TextLines(F[k].text)
  <2>1. /\ Len(y) \in Nat /\ Len(s[k]) = 1 + Len(y) /\ s[k][1] = Separator(simple, F, k)
        /\ \A m \in 1 .. Len(y) : s[k][1 + m] = y[m]
    BY <1>2
  <2>2. at[k] \in Nat /\ at[k + 1] = at[k] + n[k] /\ n[k] = Len(s[k])
    BY <1>3, <1>4
  <2>3. \A j \in 1 .. Len(s[k]) : flat[at[k] + j] = s[k][j]
    BY <1>5 DEF Joins
  <2> DEFINE a == at[k]
             l == Len(y)
             p == Len(s[k])
  <2>a. /\ l \in Nat /\ a \in Nat /\ p = 1 + l /\ at[k + 1] = a + p
        /\ \A j \in 1 .. p : flat[a + j] = s[k][j]
    BY <2>1, <2>2, <2>3
  <2> HIDE DEF y, a, l, p
  <2>4. flat[a + 1] = Separator(simple, F, k)
    <3>1. 1 \in 1 .. p
      BY <2>a
    <3>2. QED
      BY <2>1, <2>a, <3>1
  <2>5. ASSUME NEW m \in 1 .. l PROVE flat[a + 1 + m] = y[m]
    <3> DEFINE j == 1 + m
    <3>1. j \in 1 .. p /\ a + j = a + 1 + m
      BY <2>a
    <3>2. s[k][j] = y[m]
      BY <2>1 DEF l
    <3> HIDE DEF j
    <3>3. flat[a + j] = s[k][j]
      BY <2>a, <3>1
    <3>4. QED
      BY <3>1, <3>2, <3>3
  <2>6. at[k + 1] = a + 1 + l
    BY <2>a
  <2>7. QED
    BY <2>a, <2>4, <2>5, <2>6 DEF y, a, l
<1>8. flat \in Seq(V) /\ Len(flat) = at[N + 1]
  BY <1>5 DEF Joins
<1>9. BlocksAt(simple, F, at)
  BY <1>4, <1>6, <1>7, <1>8 DEF BlocksAt, V
<1>10. QED
  BY <1>9 DEF at

(* Sequences of the members of a set, one behind the other, are one of them.  *)
LEMMA FlatType ==
    ASSUME NEW V, NEW n \in Nat, NEW seqs \in [1 .. n -> Seq(V)]
    PROVE  FlattenSeq(seqs) \in Seq(V)
<1> DEFINE s == [k \in 1 .. n |-> Len(seqs[k])]
           at == Sums(s)
<1>1. s \in [1 .. n -> Nat] /\ \A k \in 1 .. n : s[k] = Len(seqs[k])
  <2>1. \A k \in 1 .. n : Len(seqs[k]) \in Nat
    <3> SUFFICES ASSUME NEW k \in 1 .. n PROVE Len(seqs[k]) \in Nat
      OBVIOUS
    <3>1. seqs[k] \in Seq(V)
      OBVIOUS
    <3>2. QED
      BY <3>1
  <2>2. QED
    BY <2>1
<1> HIDE DEF s
<1>2. /\ at \in [1 .. n + 1 -> Nat] /\ at[1] = 0
      /\ \A k \in 1 .. n : at[k + 1] = at[k] + s[k]
  BY <1>1, SumsStep
<1> HIDE DEF at
<1>3. Laid(V, n, seqs, at)
  BY <1>1, <1>2 DEF Laid
<1>4. Joins(V, n, seqs, at, FlattenSeq(seqs))
  BY <1>3, Flattened
<1>5. QED
  BY <1>4 DEF Joins

(* The ids of a table and one of no text; the blocks of its text files.      *)
Ids(simple, g) == {GetId(simple, g, t[1], t[2]) : t \in Targets(g)} \cup {-1}

Blocks(simple, g) == [id : Ids(simple, g), text : Seq(Char)]

LEMMA WriteTxtType ==
    ASSUME NEW g, IsTable(g), NEW simple
    PROVE  WriteTxt(simple, g) \in Seq(Blocks(simple, g))
<1> DEFINE n == Ended(g)
           B == Blocks(simple, g)
           b(k) == [id |-> GetId(simple, g, Row(g, k), Column(g, k)),
                    text |-> TextOf(g, Row(g, k), Column(g, k))]
           seqs == [k \in Cells(g) |-> IF HasId(g, Row(g, k), Column(g, k)) THEN <<b(k)>> ELSE <<>>]
<1>1. n \in Nat /\ Cells(g) = 1 .. n
  BY CellsCounted
<1>2. WriteTxt(simple, g) = FlattenSeq(seqs)
  BY Zenon DEF WriteTxt
<1>3. ASSUME NEW k \in Cells(g), HasId(g, Row(g, k), Column(g, k)) PROVE b(k) \in B
  <2> DEFINE j == Row(g, k)
             i == Column(g, k)
             v == g.messages[j][i]
             t == <<j, i>>
  <2>1. j \in DOMAIN g.messages /\ i \in DOMAIN g.type
    BY CellOf
  <2>2. t \in Targets(g) /\ t[1] = j /\ t[2] = i
    BY <1>3, <2>1 DEF Targets
  <2>3. GetId(simple, g, j, i) \in Ids(simple, g)
    <3> HIDE DEF t, j, i
    <3>1. QED
      BY <2>2 DEF Ids
  <2>4. TextOf(g, j, i) \in Seq(Char)
    <3>1. IsValue(g.type[i], v)
      BY <2>1, TableParts
    <3>2. CASE g.type[i].kind = "fix"
      BY <3>1, <3>2 DEF IsValue, TextOf
    <3>3. CASE g.type[i].kind # "fix"
      <4>1. g.type[i].kind = "str"
        BY <1>3, <3>3 DEF HasId
      <4> HIDE DEF i, j, v
      <4>2. v \in [str : Seq(Char), offset : Nat \cup {Null}]
        BY <3>1, <4>1 DEF IsValue
      <4>3. v.str \in Seq(Char)
        BY <4>2
      <4>4. TextOf(g, j, i) = v.str
        BY <3>3 DEF TextOf, v
      <4>5. QED
        BY <4>3, <4>4
    <3>4. QED
      BY <3>2, <3>3
  <2> HIDE DEF j, i
  <2>5. [id |-> GetId(simple, g, j, i), text |-> TextOf(g, j, i)] \in B
    BY <2>3, <2>4 DEF Blocks
  <2>6. QED
    BY <2>5 DEF j, i
<1>4. seqs \in [1 .. n -> Seq(B)]
  <2> HIDE DEF B, b
  <2>1. \A k \in Cells(g) :
          (IF HasId(g, Row(g, k), Column(g, k)) THEN <<b(k)>> ELSE <<>>) \in Seq(B)
    BY <1>3
  <2>2. QED
    BY <1>1, <2>1
<1> HIDE DEF seqs, n, B
<1>5. FlattenSeq(seqs) \in Seq(B)
  BY <1>1, <1>4, FlatType
<1>6. QED
  BY <1>2, <1>5 DEF B

(* So are they when they were edited. *)
LEMMA EditedType ==
    ASSUME NEW g, NEW simple, NEW file \in Seq(Blocks(simple, g)), NEW f \in Edited(file)
    PROVE  f \in Seq(Blocks(simple, g))
<1> DEFINE B == Blocks(simple, g)
           I == Ids(simple, g)
<1>1. \A x \in B : \A w \in Words : [x EXCEPT !.text = w] \in B
  BY WordsAssumption DEF Blocks
<1>2. \A x \in B : [x EXCEPT !.id = -1] \in B
  BY DEF Blocks, Ids
<1> HIDE DEF B
<1>3. file \in Seq(B) /\ DOMAIN file = 1 .. Len(file) /\ Len(file) \in Nat
  BY DEF B
<1>4. \A k \in DOMAIN file : file[k] \in B /\ k \in 1 .. Len(file)
  BY <1>3
<1>5. ASSUME NEW k \in DOMAIN file PROVE RemoveAt(file, k) \in Seq(B)
  <2>1. k \in 1 .. Len(file)
    BY <1>3
  <2>2. SubSeq(file, 1, k - 1) \in Seq(B) /\ SubSeq(file, k + 1, Len(file)) \in Seq(B)
    BY <1>3, <2>1
  <2>3. QED
    BY <2>2 DEF RemoveAt
<1>6. CASE f = file
  BY <1>3, <1>6 DEF B
<1>7. ASSUME NEW k \in DOMAIN file, NEW w \in Words, f = [file EXCEPT ![k].text = w]
      PROVE  f \in Seq(B)
  <2> DEFINE x == [file[k] EXCEPT !.text = w]
  <2>1. x \in B
    BY <1>1, <1>4
  <2>2. f = [file EXCEPT ![k] = x]
    BY <1>7
  <2> HIDE DEF x
  <2>3. QED
    BY <1>3, <2>1, <2>2
<1>8. ASSUME NEW k \in DOMAIN file, f = RemoveAt(file, k) PROVE f \in Seq(B)
  BY <1>5, <1>8
<1>9. ASSUME NEW k \in DOMAIN file, f = Append(RemoveAt(file, k), file[k]) PROVE f \in Seq(B)
  <2> DEFINE r == RemoveAt(file, k)
             x == file[k]
  <2>1. r \in Seq(B) /\ x \in B
    BY <1>4, <1>5
  <2> HIDE DEF r, x
  <2>2. Append(r, x) \in Seq(B)
    BY <2>1
  <2>3. QED
    BY <1>9, <2>2 DEF r, x
<1>10. ASSUME NEW k \in DOMAIN file, f = [file EXCEPT ![k].id = -1] PROVE f \in Seq(B)
  <2> DEFINE x == [file[k] EXCEPT !.id = -1]
  <2>1. x \in B
    BY <1>2, <1>4
  <2>2. f = [file EXCEPT ![k] = x]
    BY <1>10
  <2> HIDE DEF x
  <2>3. QED
    BY <1>3, <2>1, <2>2
<1>11. f \in Seq(B)
  BY <1>6, <1>7, <1>8, <1>9, <1>10 DEF Edited, B
<1>12. QED
  BY <1>11 DEF B

-----------------------------------------------------------------------------
(* The inductive invariant *)

(* Of the lines of a file, with or without its end, c have been read.        *)
Left(ls, flat, c) ==
    /\ c \in 0 .. Len(flat)
    /\ ls \in Seq(ToSet(ls))
    /\ Len(ls) \in {Len(flat) - c, Len(flat) - c + 1}
    /\ \A i \in 1 .. Len(flat) - c : ls[i] = flat[c + i]
    /\ \A i \in 1 .. Len(ls) : i > Len(flat) - c => ls[i].is = "eof"

(* What the first n blocks of a file say about an id. *)
SaysUpTo(F, n, id, text) ==
    LET named == {k \in 1 .. n : F[k].id = id}
    IN  IF named = {} THEN text ELSE F[Max(named)].text

(* The texts of g are what the first n blocks of the import say. *)
TextsSay(g, n) ==
    DistinctIds(job.simple, job.before) =>
      \A t \in Targets(job.before) :
        TextOf(g, t[1], t[2]) =
          Fitting(job.before.type[t[2]],
            SaysUpTo(job.file, n, GetId(job.simple, job.before, t[1], t[2]),
                     TextOf(job.before, t[1], t[2])))

JobOK ==
    /\ IsTable(job.before) /\ Alike(job.before, table)
    /\ job.simple \in BOOLEAN
    /\ job.file \in Seq(Blocks(job.simple, job.before))
    /\ \A k \in DOMAIN job.file :
         job.simple => SimpleDst(job.file[k].id) \in Targets(job.before)

(* No block has begun. *)
AtStart ==
    /\ pos = [index |-> 1, field |-> 0]
    /\ msg = <<>>
    /\ \/ Left(lines, FileLines(job.simple, job.file), 0)
       \/ NextIs("text")
    /\ TextsSay(table, 0)

(* Of block b, m lines have been read, which are its text up to r[m].        *)
Within(b, m, r) ==
    /\ LinesAt(job.file[b].text, r)
    /\ Left(lines, FileLines(job.simple, job.file),
            Starts(job.simple, job.file)[b] + 1 + m)
    /\ msg = SubSeq(Append(job.file[b].text, "n"), 1, r[m])
    /\ pos.field # 0
    /\ <<pos.index, pos.field>> \in Targets(table)
    /\ GetId(job.simple, table, pos.index, pos.field) = job.file[b].id
    /\ TextsSay(table, b - 1)

Cuts(text) == [0 .. Len(TextLines(text)) -> 0 .. Len(text) + 1]

Reading ==
    \/ AtStart
    \/ \E b \in DOMAIN job.file :
       \E m \in 0 .. Len(TextLines(job.file[b].text)) :
       \E r \in Cuts(job.file[b].text) : Within(b, m, r)

SavedOK == \A f \in saved : \E g : IsTable(g) /\ f = Dump(RecalcSize(g))

(* An import goes through the lines of its file in order: it is before the   *)
(* first block or within one, the text under the block's id is the one that  *)
(* it writes to, its msg is that text so far, and the blocks before it have  *)
(* been written where their ids say.                                         *)
IInv ==
    /\ IsTable(table)
    /\ SavedOK
    /\ Idle => lines = <<>>
    /\ ~Idle => JobOK /\ Reading

(* A text that a table has fits where it is. *)
LEMMA Fits ==
    ASSUME NEW g, IsTable(g), NEW t \in Targets(g)
    PROVE  Fitting(g.type[t[2]], TextOf(g, t[1], t[2])) = TextOf(g, t[1], t[2])
<1> DEFINE field == g.type[t[2]]
           v == g.messages[t[1]][t[2]]
           n == field.size - 1
<1>1. t[1] \in DOMAIN g.messages /\ t[2] \in DOMAIN g.type
  BY DEF Targets
<1>2. IsValue(field, v) /\ field.size \in Nat \ {0}
  <2>1. IsValue(field, v)
    BY <1>1, TableParts
  <2>2. field.size \in Nat \ {0}
    <3> DEFINE R == [kind : {"int", "float", "str", "fix", "pad"}, size : Nat \ {0}]
    <3>1. g.type \in Seq(R)
      BY TableParts
    <3> HIDE DEF R
    <3>2. g.type[t[2]] \in R
      BY <1>1, <3>1
    <3>3. QED
      BY <3>2, FieldRecord DEF R
  <2>3. QED
    BY <2>1, <2>2
<1> HIDE DEF field, v
<1>3. CASE field.kind = "fix"
  <2>1. v \in Seq(Char) /\ Len(v) < field.size
    BY <1>2, <1>3 DEF IsValue
  <2>2. n \in Nat /\ Len(v) \in Nat /\ Len(v) <= n
    BY <1>2, <2>1
  <2> HIDE DEF n
  <2>3. (IF Len(v) < n THEN Len(v) ELSE n) = Len(v)
    <3> DEFINE l == Len(v)
    <3>1. l \in Nat /\ n \in Nat /\ l <= n
      BY <2>2
    <3> HIDE DEF l
    <3>2. (IF l < n THEN l ELSE n) = l
      BY <3>1
    <3>3. QED
      BY <3>2 DEF l
  <2>4. SubSeq(v, 1, Len(v)) = v
    BY <2>1
  <2>5. strncpy(v, n) = v
    BY <2>3, <2>4 DEF strncpy
  <2>6. TextOf(g, t[1], t[2]) = v
    BY <1>3 DEF TextOf, v, field
  <2>7. QED
    BY <1>3, <2>5, <2>6 DEF Fitting, field, n
<1>4. CASE field.kind # "fix"
  BY <1>4 DEF Fitting, field
<1>5. QED
  BY <1>3, <1>4

(* A set's greatest number, when it is known. *)
LEMMA Greatest ==
    ASSUME NEW S, S \subseteq Nat, NEW m \in S, \A k \in S : k <= m
    PROVE  Max(S) = m
<1> DEFINE c == CHOOSE x \in S : \A y \in S : x >= y
<1>1. c \in S /\ \A y \in S : c >= y
  OBVIOUS
<1> HIDE DEF c
<1>2. c = m
  BY <1>1
<1>3. QED
  BY <1>2 DEF Max, c

(* Before its first block a file says nothing. *)
LEMMA SaysNothing ==
    ASSUME NEW F, NEW id, NEW text
    PROVE  SaysUpTo(F, 0, id, text) = text
<1>1. {k \in 1 .. 0 : F[k].id = id} = {}
  OBVIOUS
<1>2. QED
  BY <1>1 DEF SaysUpTo

(* A block is what its file says about its id, until another one is. *)
LEMMA SaysNext ==
    ASSUME NEW F, NEW n \in Nat, NEW id, NEW text
    PROVE  SaysUpTo(F, n + 1, id, text) =
             IF F[n + 1].id = id THEN F[n + 1].text ELSE SaysUpTo(F, n, id, text)
<1> DEFINE A == {k \in 1 .. n + 1 : F[k].id = id}
           B == {k \in 1 .. n : F[k].id = id}
<1>1. CASE F[n + 1].id = id
  <2>1. n + 1 \in A /\ A \subseteq Nat /\ \A k \in A : k <= n + 1
    BY <1>1
  <2> HIDE DEF A
  <2>2. Max(A) = n + 1
    BY <2>1, Greatest
  <2>3. A # {}
    BY <2>1
  <2>4. QED
    BY <1>1, <2>2, <2>3 DEF SaysUpTo, A
<1>2. CASE F[n + 1].id # id
  <2>1. \A k \in 1 .. n + 1 : k # n + 1 => k \in 1 .. n
    OBVIOUS
  <2>2. 1 .. n \subseteq 1 .. n + 1
    OBVIOUS
  <2>3. A = B
    BY <1>2, <2>1, <2>2
  <2> HIDE DEF A, B
  <2>4. SaysUpTo(F, n + 1, id, text) = IF A = {} THEN text ELSE F[Max(A)].text
    BY DEF SaysUpTo, A
  <2>5. SaysUpTo(F, n, id, text) = IF B = {} THEN text ELSE F[Max(B)].text
    BY DEF SaysUpTo, B
  <2>6. QED
    BY <1>2, <2>3, <2>4, <2>5
<1>3. QED
  BY <1>1, <1>2

(* All its blocks are what a file says. *)
LEMMA SaysAll ==
    ASSUME NEW V, NEW F \in Seq(V), NEW id, NEW text
    PROVE  Says(F, id, text) = SaysUpTo(F, Len(F), id, text)
<1>1. DOMAIN F = 1 .. Len(F)
  OBVIOUS
<1>2. QED
  BY <1>1 DEF Says, SaysUpTo

-----------------------------------------------------------------------------
(* Reading a text file *)

(* The next line of a file, and what is left behind it. *)
LEMMA NextLine ==
    ASSUME NEW ls, NEW V, NEW flat \in Seq(V), NEW c, Left(ls, flat, c), ls # <<>>
    PROVE  /\ c < Len(flat) => Head(ls) = flat[c + 1] /\ Left(Tail(ls), flat, c + 1)
           /\ c = Len(flat) => Head(ls).is = "eof"
<1> DEFINE S == ToSet(ls)
           n == Len(flat)
           l == Len(ls)
           u == Tail(ls)
<1>1. /\ n \in Nat /\ c \in 0 .. n /\ ls \in Seq(S) /\ l \in {n - c, n - c + 1}
      /\ \A i \in 1 .. n - c : ls[i] = flat[c + i]
      /\ \A i \in 1 .. l : i > n - c => ls[i].is = "eof"
  BY DEF Left
<1> HIDE DEF S, n
<1>2. l \in Nat /\ l # 0 /\ Head(ls) = ls[1]
  BY <1>1
<1>3. u \in Seq(S) /\ Len(u) = l - 1 /\ \A i \in 1 .. l - 1 : u[i] = ls[i + 1]
  BY <1>1, <1>2
<1>4. u \in Seq(ToSet(u))
  <2>1. \A i \in 1 .. Len(u) : u[i] \in ToSet(u)
    <3>1. DOMAIN u = 1 .. Len(u)
      BY <1>3
    <3> HIDE DEF u
    <3>2. QED
      BY <3>1 DEF ToSet
  <2> HIDE DEF u
  <2>2. QED
    BY <1>3, <2>1, SequenceOf
<1> HIDE DEF l, u
<1>5. CASE c < n
  <2>1. c + 1 \in 0 .. n /\ Len(u) \in {n - (c + 1), n - (c + 1) + 1}
    BY <1>1, <1>3, <1>5
  <2>2. Head(ls) = flat[c + 1]
    <3>1. 1 \in 1 .. n - c
      BY <1>1, <1>5
    <3>2. QED
      BY <1>1, <1>2, <3>1
  <2>3. ASSUME NEW i \in 1 .. n - (c + 1) PROVE u[i] = flat[c + 1 + i]
    <3>1. i \in 1 .. l - 1 /\ i + 1 \in 1 .. n - c /\ c + (i + 1) = c + 1 + i
      BY <1>1
    <3>2. u[i] = ls[i + 1] /\ ls[i + 1] = flat[c + (i + 1)]
      BY <1>1, <1>3, <3>1
    <3>3. QED
      BY <3>1, <3>2
  <2>4. ASSUME NEW i \in 1 .. Len(u), i > n - (c + 1) PROVE u[i].is = "eof"
    <3>1. i \in 1 .. l - 1 /\ i + 1 \in 1 .. l /\ i + 1 > n - c
      BY <1>1, <1>2, <1>3, <2>4
    <3>2. u[i] = ls[i + 1] /\ ls[i + 1].is = "eof"
      BY <1>1, <1>3, <3>1
    <3>3. QED
      BY <3>2
  <2>5. Left(u, flat, c + 1)
    BY <1>4, <2>1, <2>3, <2>4 DEF Left, n
  <2>6. QED
    BY <1>5, <2>2, <2>5 DEF u, n
<1>6. CASE c = n
  <2>1. 1 \in 1 .. l /\ 1 > n - c
    BY <1>1, <1>2, <1>6
  <2>2. QED
    BY <1>1, <1>2, <1>6, <2>1 DEF n
<1>7. QED
  BY <1>1, <1>5, <1>6 DEF n

(* The lines of a file that is opened. *)
LEMMA Opened ==
    ASSUME NEW V, NEW flat \in Seq(V), NEW end \in {<<>>, <<[is |-> "eof"]>>}
    PROVE  Left(<<>> \o flat \o end, flat, 0)
<1> DEFINE ls == <<>> \o flat \o end
           W == V \cup {[is |-> "eof"]}
           n == Len(flat)
<1>1. flat \in Seq(W) /\ end \in Seq(W) /\ n \in Nat /\ Len(end) \in {0, 1}
  <2> DEFINE x == [is |-> "eof"]
  <2>1. V \subseteq W /\ x \in W
    OBVIOUS
  <2>2. end \in {<<>>, <<x>>}
    OBVIOUS
  <2> HIDE DEF W, x
  <2>3. flat \in Seq(W) /\ n \in Nat
    <3>1. n \in Nat /\ DOMAIN flat = 1 .. n /\ \A i \in 1 .. n : flat[i] \in V
      OBVIOUS
    <3>2. \A i \in 1 .. n : flat[i] \in W
      BY <2>1, <3>1
    <3>3. flat = [i \in 1 .. n |-> flat[i]]
      BY <3>1
    <3>4. flat \in [1 .. n -> W]
      BY <3>2, <3>3
    <3>5. QED
      BY <3>1, <3>4
  <2>4. end \in Seq(W) /\ Len(end) \in {0, 1}
    <3>1. CASE end = <<>>
      BY <3>1
    <3>2. CASE end = <<x>>
      BY <2>1, <3>2
    <3>3. QED
      BY <2>2, <3>1, <3>2
  <2>5. QED
    BY <2>3, <2>4
<1>2. \A i \in 1 .. Len(end) : end[i].is = "eof"
  OBVIOUS
<1> HIDE DEF W
<1>3. <<>> \o flat = flat
  BY <1>1
<1>4. ls = flat \o end
  BY <1>3
<1>5. /\ ls \in Seq(W) /\ Len(ls) = n + Len(end)
      /\ \A i \in 1 .. n : ls[i] = flat[i]
      /\ \A i \in 1 .. Len(end) : ls[n + i] = end[i]
  <2>1. Join(flat, end) = ls
    BY <1>4 DEF Join
  <2>2. flat \in Seq(W) /\ end \in Seq(W)
    BY <1>1
  <2> HIDE DEF ls, n
  <2>3. /\ Join(flat, end) \in Seq(W) /\ Len(Join(flat, end)) = Len(flat) + Len(end)
        /\ \A i \in 1 .. Len(flat) : Join(flat, end)[i] = flat[i]
        /\ \A i \in 1 .. Len(end) : Join(flat, end)[Len(flat) + i] = end[i]
    BY <2>2, Joined
  <2>4. QED
    BY <2>1, <2>3 DEF n
<1>6. ls \in Seq(ToSet(ls))
  <2>1. \A i \in 1 .. Len(ls) : ls[i] \in ToSet(ls)
    <3>1. DOMAIN ls = 1 .. Len(ls)
      BY <1>5
    <3> HIDE DEF ls
    <3>2. QED
      BY <3>1 DEF ToSet
  <2> HIDE DEF ls
  <2>2. QED
    BY <1>5, <2>1, SequenceOf
<1> HIDE DEF ls
<1>7. 0 \in 0 .. n /\ Len(ls) \in {n - 0, n - 0 + 1} /\ n - 0 = n
  BY <1>1, <1>5
<1>8. \A i \in 1 .. n - 0 : ls[i] = flat[0 + i]
  BY <1>1, <1>5
<1>9. ASSUME NEW i \in 1 .. Len(ls), i > n - 0 PROVE ls[i].is = "eof"
  <2>1. i - n \in 1 .. Len(end) /\ n + (i - n) = i
    BY <1>1, <1>5, <1>9
  <2>2. ls[i] = end[i - n]
    BY <1>5, <2>1
  <2>3. QED
    BY <1>2, <2>1, <2>2
<1>10. Left(ls, flat, 0)
  BY <1>6, <1>7, <1>8, <1>9 DEF Left, n
<1>11. QED
  BY <1>10 DEF ls

(* The blocks of an import. *)
LEMMA JobFile ==
    ASSUME JobOK
    PROVE  /\ BlocksAt(job.simple, job.file, Starts(job.simple, job.file))
           /\ DOMAIN job.file = 1 .. Len(job.file) /\ Len(job.file) \in Nat
           /\ \A k \in DOMAIN job.file :
                job.file[k].text \in Seq(Char) /\ job.file[k].id \in Ids(job.simple, job.before)
<1> DEFINE I == Ids(job.simple, job.before)
           B == [id : I, text : Seq(Char)]
<1>1. job.file \in Seq(B)
  BY DEF JobOK, Blocks
<1> HIDE DEF I
<1>2. \A x \in B : x.text \in Seq(Char) /\ x.id \in I
  OBVIOUS
<1>3. BlocksAt(job.simple, job.file, Starts(job.simple, job.file))
  BY <1>1, LinesOfFile
<1> HIDE DEF B
<1>4. DOMAIN job.file = 1 .. Len(job.file) /\ Len(job.file) \in Nat
      /\ \A k \in DOMAIN job.file : job.file[k] \in B
  BY <1>1
<1>5. QED
  BY <1>2, <1>3, <1>4 DEF I

(* Every block begins behind the one before. *)
LEMMA BlocksRise ==
    ASSUME NEW simple, NEW F, NEW at, BlocksAt(simple, F, at), Len(F) \in Nat
    PROVE  \A k \in 1 .. Len(F) : /\ at[k] < at[k + 1] /\ at[k] <= at[k + 1]
                                  /\ Len(TextLines(F[k].text)) \in Nat
<1> SUFFICES ASSUME NEW k \in 1 .. Len(F)
             PROVE  /\ at[k] < at[k + 1] /\ at[k] <= at[k + 1]
                    /\ Len(TextLines(F[k].text)) \in Nat
  OBVIOUS
<1> DEFINE w == Len(TextLines(F[k].text))
           x == at[k]
           y == at[k + 1]
<1>1. y = x + 1 + w /\ w \in Nat
  BY DEF BlocksAt
<1>2. x \in Nat
  <2>1. k \in 1 .. Len(F) + 1
    OBVIOUS
  <2>2. at \in [1 .. Len(F) + 1 -> Nat]
    BY DEF BlocksAt
  <2>3. QED
    BY <2>1, <2>2
<1> HIDE DEF w, x, y
<1>3. x < y /\ x <= y
  BY <1>1, <1>2
<1>4. QED
  BY <1>1, <1>3 DEF w, x, y

(* Where the lines of a block are in a file: behind its separator; behind    *)
(* them is the next separator, or the file ends.                             *)
LEMMA BlockPlaces ==
    ASSUME NEW simple, NEW F, NEW at, BlocksAt(simple, F, at), Len(F) \in Nat,
           NEW b \in 1 .. Len(F), NEW m \in 0 .. Len(TextLines(F[b].text))
    PROVE  LET flat == FileLines(simple, F)
               K == Len(TextLines(F[b].text))
               c == at[b] + 1 + m
           IN  /\ m < K => c < Len(flat) /\ flat[c + 1] = TextLines(F[b].text)[m + 1]
               /\ m = K /\ b < Len(F) => /\ c < Len(flat) /\ c = at[b + 1]
                                         /\ flat[c + 1] = Separator(simple, F, b + 1)
               /\ m = K /\ b = Len(F) => c = Len(flat)
<1> DEFINE N == Len(F)
           flat == FileLines(simple, F)
           K == Len(TextLines(F[b].text))
           p == at[b]
           q == at[b + 1]
           z == at[N + 1]
           c == p + 1 + m
<1>1. at \in [1 .. N + 1 -> Nat] /\ Len(flat) = z /\ b \in 1 .. N /\ N \in Nat
  BY DEF BlocksAt
<1>2. q = p + 1 + K
  BY DEF BlocksAt
<1>3. \A k \in 1 .. N : at[k] < at[k + 1] /\ at[k] <= at[k + 1] /\ Len(TextLines(F[k].text)) \in Nat
  BY <1>1, BlocksRise
<1>4. p \in Nat /\ q \in Nat /\ z \in Nat /\ K \in Nat /\ m \in 0 .. K
  <2>1. b \in 1 .. N + 1 /\ b + 1 \in 1 .. N + 1 /\ N + 1 \in 1 .. N + 1
    BY <1>1
  <2>2. K \in Nat
    BY <1>1, <1>3
  <2>3. QED
    BY <1>1, <2>1, <2>2
<1>5. q <= z
  <2>1. \A k \in 1 .. N : at[k] <= at[k + 1]
    BY <1>3
  <2>2. N + 1 \in 1 .. N + 1 /\ b + 1 \in 1 .. N + 1
    BY <1>1
  <2>3. \A i \in 1 .. N + 1 : \A j \in 1 .. i : at[j] <= at[i]
    BY <1>1, <2>1, Growing
  <2>4. QED
    BY <1>1, <2>2, <2>3
<1>6. ASSUME m < K PROVE c < Len(flat) /\ flat[c + 1] = TextLines(F[b].text)[m + 1]
  <2>1. m + 1 \in 1 .. K /\ p + 1 + (m + 1) = c + 1
    BY <1>4, <1>6
  <2>2. flat[p + 1 + (m + 1)] = TextLines(F[b].text)[m + 1]
    BY <2>1 DEF BlocksAt
  <2> HIDE DEF p, q, z, K, flat
  <2>3. c < z
    BY <1>2, <1>4, <1>5, <1>6
  <2>4. QED
    BY <1>1, <2>1, <2>2, <2>3
<1>7. ASSUME m = K, b < N
      PROVE  c < Len(flat) /\ c = q /\ flat[c + 1] = Separator(simple, F, b + 1)
  <2> DEFINE s == at[b + 2]
  <2>1. b + 1 \in 1 .. N /\ b + 2 \in 1 .. N + 1 /\ N + 1 \in 1 .. N + 1
    BY <1>1, <1>7
  <2>2. q < s /\ s <= z /\ s \in Nat
    <3>1. \A k \in 1 .. N : at[k] <= at[k + 1]
      BY <1>3
    <3>2. \A i \in 1 .. N + 1 : \A j \in 1 .. i : at[j] <= at[i]
      BY <1>1, <3>1, Growing
    <3>3. b + 1 + 1 = b + 2
      BY <1>1
    <3>4. at[b + 1] < at[b + 1 + 1]
      BY <1>3, <2>1
    <3>5. q < s
      BY <3>3, <3>4
    <3>6. QED
      BY <1>1, <2>1, <3>2, <3>5
  <2>3. flat[q + 1] = Separator(simple, F, b + 1)
    BY <2>1 DEF BlocksAt
  <2> HIDE DEF p, q, z, s, K, flat
  <2>4. c = q /\ c < z
    BY <1>2, <1>4, <1>7, <2>2
  <2>5. QED
    BY <1>1, <2>3, <2>4
<1>8. ASSUME m = K, b = N PROVE c = Len(flat)
  <2>1. q = z
    BY <1>8
  <2> HIDE DEF p, q, z, K, flat
  <2>2. QED
    BY <1>1, <1>2, <1>4, <1>8, <2>1
<1>9. QED
  BY <1>6, <1>7, <1>8

(* A text and its last line feed, without which it is itself. *)
LEMMA WholeText ==
    ASSUME NEW text \in Seq(Char)
    PROVE  /\ \A p \in 0 .. Len(text) + 1 : SubSeq(Append(text, "n"), 1, p) \in Seq(Char)
           /\ Front(SubSeq(Append(text, "n"), 1, Len(text) + 1)) = text
<1> DEFINE T == Append(text, "n")
           n == Len(text)
<1>1. n \in Nat /\ T \in Seq(Char) /\ Len(T) = n + 1 /\ \A i \in 1 .. n : T[i] = text[i]
  BY CharAssumption
<1> HIDE DEF T
<1>2. \A p \in 0 .. n + 1 : SubSeq(T, 1, p) \in Seq(Char)
  BY <1>1
<1>3. SubSeq(T, 1, n + 1) = T
  BY <1>1
<1>4. Front(T) = text
  <2> DEFINE u == SubSeq(T, 1, n)
  <2>1. u \in Seq(Char) /\ Len(u) = n /\ \A i \in 1 .. n : u[i] = text[i]
    BY <1>1
  <2> HIDE DEF u
  <2>2. u = text
    <3>1. DOMAIN u = 1 .. n /\ DOMAIN text = 1 .. n
      BY <1>1, <2>1
    <3>2. QED
      BY <2>1, <3>1
  <2>3. Front(T) = SubSeq(T, 1, Len(T) - 1)
    BY DEF Front
  <2>4. n + 1 - 1 = n
    BY <1>1
  <2>5. QED
    BY <1>1, <2>2, <2>3, <2>4 DEF u
<1>5. QED
  BY <1>2, <1>3, <1>4 DEF T

(* During an import the ids are those there were before it. *)
LEMMA JobIds ==
    ASSUME JobOK
    PROVE  /\ table.type = job.before.type
           /\ Targets(table) = Targets(job.before)
           /\ \A t \in Targets(job.before) :
                GetId(job.simple, table, t[1], t[2]) = GetId(job.simple, job.before, t[1], t[2])
<1>1. IsTable(job.before) /\ Alike(job.before, table) /\ job.simple \in BOOLEAN
  BY DEF JobOK
<1>2. /\ Targets(table) = Targets(job.before)
      /\ \A t \in Targets(job.before) :
           /\ GetId(TRUE, table, t[1], t[2]) = GetId(TRUE, job.before, t[1], t[2])
           /\ GetId(FALSE, table, t[1], t[2]) = GetId(FALSE, job.before, t[1], t[2])
  BY <1>1, SameIds
<1>3. table.type = job.before.type
  BY <1>1 DEF Alike
<1>4. job.simple = TRUE \/ job.simple = FALSE
  BY <1>1
<1>5. QED
  BY <1>2, <1>3, <1>4

(* The end of a block writes what the file says up to that block. *)
LEMMA BlockSaid ==
    ASSUME IsTable(table), JobOK, NEW b \in DOMAIN job.file, NEW r,
           Within(b, Len(TextLines(job.file[b].text)), r)
    PROVE  /\ IsTable(EndBlock) /\ Alike(table, EndBlock)
           /\ TextsSay(EndBlock, b)
<1> DEFINE F == job.file
           text == F[b].text
           p == <<pos.index, pos.field>>
           before == job.before
<1>1. msg \in Seq(Char) /\ Front(msg) = text
  <2>1. text \in Seq(Char)
    BY JobFile
  <2>2. msg = SubSeq(Append(text, "n"), 1, Len(text) + 1)
    BY DEF Within, LinesAt
  <2>3. Len(text) + 1 \in 0 .. Len(text) + 1
    BY <2>1
  <2> HIDE DEF text
  <2>4. QED
    BY <2>1, <2>2, <2>3, WholeText
<1>2. pos.field # 0 /\ p \in Targets(table)
      /\ GetId(job.simple, table, pos.index, pos.field) = F[b].id
      /\ TextsSay(table, b - 1)
  BY DEF Within
<1>3. /\ IsTable(EndBlock) /\ Alike(table, EndBlock)
      /\ \A t \in Targets(table) :
           TextOf(EndBlock, t[1], t[2]) =
             IF pos.field # 0 /\ t = <<pos.index, pos.field>>
             THEN Fitting(table.type[t[2]], Front(msg)) ELSE TextOf(table, t[1], t[2])
  BY <1>1, <1>2, BlockEnded
<1>4. /\ table.type = before.type /\ Targets(table) = Targets(before)
      /\ \A t \in Targets(before) :
           GetId(job.simple, table, t[1], t[2]) = GetId(job.simple, before, t[1], t[2])
  BY JobIds
<1>5. b \in Nat /\ b - 1 \in Nat /\ b - 1 + 1 = b
  <2>1. b \in 1 .. Len(F) /\ Len(F) \in Nat
    BY JobFile
  <2>2. QED
    BY <2>1
<1>6. p[1] = pos.index /\ p[2] = pos.field
  OBVIOUS
<1> HIDE DEF p
<1>7. GetId(job.simple, before, p[1], p[2]) = F[b].id
  BY <1>2, <1>4, <1>6
<1>8. ASSUME DistinctIds(job.simple, before), NEW t \in Targets(before)
      PROVE  TextOf(EndBlock, t[1], t[2]) =
               Fitting(before.type[t[2]],
                 SaysUpTo(F, b, GetId(job.simple, before, t[1], t[2]), TextOf(before, t[1], t[2])))
  <2> DEFINE id == GetId(job.simple, before, t[1], t[2])
             old == TextOf(before, t[1], t[2])
  <2>1. t = p <=> id = F[b].id
    BY <1>2, <1>4, <1>7, <1>8 DEF DistinctIds
  <2>2. SaysUpTo(F, b, id, old) = IF F[b].id = id THEN text ELSE SaysUpTo(F, b - 1, id, old)
    <3> HIDE DEF F, id, old
    <3>1. SaysUpTo(F, b - 1 + 1, id, old) =
            IF F[b - 1 + 1].id = id THEN F[b - 1 + 1].text ELSE SaysUpTo(F, b - 1, id, old)
      BY <1>5, SaysNext
    <3>2. QED
      BY <1>5, <3>1
  <2>3. TextOf(table, t[1], t[2]) = Fitting(before.type[t[2]], SaysUpTo(F, b - 1, id, old))
    BY <1>2, <1>8 DEF TextsSay
  <2>4. TextOf(EndBlock, t[1], t[2]) =
          IF t = p THEN Fitting(before.type[t[2]], text) ELSE TextOf(table, t[1], t[2])
    <3>1. t \in Targets(table)
      BY <1>4
    <3>2. TextOf(EndBlock, t[1], t[2]) =
            IF pos.field # 0 /\ t = p
            THEN Fitting(table.type[t[2]], Front(msg)) ELSE TextOf(table, t[1], t[2])
      BY <1>3, <3>1 DEF p
    <3>3. QED
      BY <1>1, <1>2, <1>4, <3>2
  <2> HIDE DEF id, old, text
  <2>5. QED
    BY <2>1, <2>2, <2>3, <2>4 DEF id, old
<1>9. TextsSay(EndBlock, b)
  BY <1>8 DEF TextsSay
<1>10. QED
  BY <1>3, <1>9

(* A file without blocks has no lines; every other begins with a separator.  *)
LEMMA FileStart ==
    ASSUME NEW simple, NEW F, NEW at, BlocksAt(simple, F, at), Len(F) \in Nat
    PROVE  /\ at[1] = 0
           /\ Len(F) = 0 => Len(FileLines(simple, F)) = 0
           /\ Len(F) # 0 => /\ 0 < Len(FileLines(simple, F))
                            /\ FileLines(simple, F)[0 + 1] = Separator(simple, F, 1)
<1> DEFINE N == Len(F)
<1>1. at \in [1 .. N + 1 -> Nat] /\ at[1] = 0 /\ Len(FileLines(simple, F)) = at[N + 1]
  BY DEF BlocksAt
<1>2. CASE N = 0
  BY <1>1, <1>2
<1>3. ASSUME N # 0
      PROVE  0 < Len(FileLines(simple, F)) /\ FileLines(simple, F)[0 + 1] = Separator(simple, F, 1)
  <2>1. 1 \in 1 .. N
    BY <1>3
  <2>2. FileLines(simple, F)[0 + 1] = Separator(simple, F, 1)
    BY <1>1, <2>1 DEF BlocksAt
  <2>3. \A k \in 1 .. N : at[k] < at[k + 1] /\ at[k] <= at[k + 1]
    BY BlocksRise
  <2>4. at[1] < at[2]
    <3>1. at[1] < at[1 + 1]
      BY <2>1, <2>3
    <3>2. QED
      BY <3>1
  <2>5. at[2] <= at[N + 1]
    <3>1. \A i \in 1 .. N + 1 : \A j \in 1 .. i : at[j] <= at[i]
      BY <1>1, <2>3, Growing
    <3>2. N + 1 \in 1 .. N + 1 /\ 2 \in 1 .. N + 1
      BY <2>1
    <3>3. QED
      BY <3>1, <3>2
  <2>6. at[2] \in Nat /\ at[N + 1] \in Nat
    BY <1>1, <2>1
  <2>7. QED
    BY <1>1, <2>2, <2>4, <2>5, <2>6
<1>4. QED
  BY <1>1, <1>2, <1>3

(* The line that comes next within a block. *)
LEMMA LineAhead ==
    ASSUME JobOK, NEW b \in DOMAIN job.file, NEW r,
           NEW m \in 0 .. Len(TextLines(job.file[b].text)), Within(b, m, r), lines # <<>>
    PROVE  LET F == job.file
               K == Len(TextLines(F[b].text))
               flat == FileLines(job.simple, F)
               at == Starts(job.simple, F)
           IN  /\ m < K => /\ Head(lines) = TextLines(F[b].text)[m + 1]
                           /\ Left(Tail(lines), flat, at[b] + 1 + (m + 1))
               /\ m = K /\ b < Len(F) => /\ Head(lines) = Separator(job.simple, F, b + 1)
                                         /\ Left(Tail(lines), flat, at[b + 1] + 1)
               /\ m = K /\ b = Len(F) => Head(lines).is = "eof"
<1> DEFINE F == job.file
           K == Len(TextLines(F[b].text))
           flat == FileLines(job.simple, F)
           at == Starts(job.simple, F)
           c == at[b] + 1 + m
           N == Len(F)
<1>1. BlocksAt(job.simple, F, at) /\ N \in Nat /\ b \in 1 .. N
  BY JobFile
<1>2. Left(lines, flat, c)
  BY DEF Within
<1>3. flat \in Seq(LineSet(job.simple, F))
  BY <1>1 DEF BlocksAt
<1>4. at[b] \in Nat /\ m \in Nat /\ c + 1 = at[b] + 1 + (m + 1)
  <2>1. at \in [1 .. N + 1 -> Nat] /\ b \in 1 .. N + 1
    BY <1>1 DEF BlocksAt
  <2>2. at[b] \in Nat
    BY <2>1
  <2> HIDE DEF at
  <2>3. QED
    BY <2>2
<1>5. /\ m < K => c < Len(flat) /\ flat[c + 1] = TextLines(F[b].text)[m + 1]
      /\ m = K /\ b < N => /\ c < Len(flat) /\ c = at[b + 1]
                           /\ flat[c + 1] = Separator(job.simple, F, b + 1)
      /\ m = K /\ b = N => c = Len(flat)
  <2> HIDE DEF at
  <2>1. QED
    BY <1>1, BlockPlaces
<1> HIDE DEF flat, at, c
<1>6. /\ c < Len(flat) => Head(lines) = flat[c + 1] /\ Left(Tail(lines), flat, c + 1)
      /\ c = Len(flat) => Head(lines).is = "eof"
  BY <1>2, <1>3, NextLine
<1>7. QED
  BY <1>4, <1>5, <1>6 DEF flat, at

(* What a separator that comes next says, what is behind it, and what the    *)
(* end of the block before it does.                                          *)
NextBlock(b) ==
    /\ Head(lines) = Separator(job.simple, job.file, b)
    /\ Left(Tail(lines), FileLines(job.simple, job.file), Starts(job.simple, job.file)[b] + 1)
    /\ IsTable(EndBlock) /\ Alike(table, EndBlock)
    /\ TextsSay(EndBlock, b - 1)

LEMMA StartAhead ==
    ASSUME IsTable(table), JobOK, AtStart, lines # <<>>
    PROVE  /\ \/ Head(lines).is = "text"
              \/ Head(lines).is = "eof" /\ Len(job.file) = 0
              \/ 1 \in DOMAIN job.file /\ NextBlock(1)
           /\ IsTable(EndBlock) /\ Alike(table, EndBlock) /\ TextsSay(EndBlock, 0)
<1> DEFINE F == job.file
           flat == FileLines(job.simple, F)
           at == Starts(job.simple, F)
           N == Len(F)
<1>1. BlocksAt(job.simple, F, at) /\ N \in Nat /\ DOMAIN F = 1 .. N
  BY JobFile
<1>2. IsTable(EndBlock) /\ Alike(table, EndBlock) /\ TextsSay(EndBlock, 0)
  <2>1. pos.field = 0 /\ TextsSay(table, 0)
    BY DEF AtStart
  <2>2. EndBlock = table
    BY <2>1 DEF EndBlock
  <2>3. Alike(table, table)
    BY DEF Alike
  <2>4. QED
    BY <2>1, <2>2, <2>3
<1>3. /\ at[1] = 0 /\ (N = 0 => Len(flat) = 0)
      /\ N # 0 => 0 < Len(flat) /\ flat[0 + 1] = Separator(job.simple, F, 1)
  <2> HIDE DEF at
  <2>1. QED
    BY <1>1, FileStart
<1>4. ASSUME Left(lines, flat, 0)
      PROVE  \/ Head(lines).is = "eof" /\ N = 0
             \/ 1 \in DOMAIN F /\ NextBlock(1)
  <2>1. flat \in Seq(LineSet(job.simple, F))
    BY <1>1 DEF BlocksAt
  <2> HIDE DEF flat, at
  <2>2. /\ 0 < Len(flat) => Head(lines) = flat[0 + 1] /\ Left(Tail(lines), flat, 0 + 1)
        /\ 0 = Len(flat) => Head(lines).is = "eof"
    BY <1>4, <2>1, NextLine
  <2>3. CASE N = 0
    BY <1>3, <2>2, <2>3
  <2>4. CASE N # 0
    <3>1. Head(lines) = Separator(job.simple, F, 1) /\ Left(Tail(lines), flat, at[1] + 1)
      BY <1>3, <2>2, <2>4
    <3>2. 1 \in DOMAIN F /\ 1 - 1 = 0
      BY <1>1, <2>4
    <3>3. QED
      BY <1>2, <3>1, <3>2 DEF NextBlock, flat, at
  <2>5. QED
    BY <2>3, <2>4
<1>5. CASE Left(lines, flat, 0)
  BY <1>2, <1>4, <1>5
<1>6. CASE NextIs("text")
  BY <1>2, <1>6 DEF NextIs
<1>7. QED
  BY <1>5, <1>6 DEF AtStart

LEMMA SeparatorAhead ==
    ASSUME IsTable(table), JobOK, Reading, NextIs("separator")
    PROVE  \E b \in DOMAIN job.file : NextBlock(b)
<1> DEFINE F == job.file
<1>1. lines # <<>> /\ Head(lines).is = "separator"
  BY DEF NextIs
<1>2. CASE AtStart
  <2>1. Head(lines).is # "text" /\ Head(lines).is # "eof"
    BY <1>1
  <2>2. \/ Head(lines).is = "text"
        \/ Head(lines).is = "eof" /\ Len(job.file) = 0
        \/ 1 \in DOMAIN job.file /\ NextBlock(1)
    BY <1>1, <1>2, StartAhead
  <2>3. QED
    BY <2>1, <2>2
<1>3. ASSUME NEW a \in DOMAIN F, NEW m \in 0 .. Len(TextLines(F[a].text)), NEW r,
             Within(a, m, r)
      PROVE  \E b \in DOMAIN F : NextBlock(b)
  <2> DEFINE K == Len(TextLines(F[a].text))
             flat == FileLines(job.simple, F)
             at == Starts(job.simple, F)
  <2>1. /\ m < K => Head(lines) = TextLines(F[a].text)[m + 1]
        /\ m = K /\ a < Len(F) => /\ Head(lines) = Separator(job.simple, F, a + 1)
                                  /\ Left(Tail(lines), flat, at[a + 1] + 1)
        /\ m = K /\ a = Len(F) => Head(lines).is = "eof"
    BY <1>1, <1>3, LineAhead
  <2>2. a \in 1 .. Len(F) /\ Len(F) \in Nat /\ DOMAIN F = 1 .. Len(F)
    BY JobFile
  <2>3. K \in Nat /\ \A k \in 1 .. K : TextLines(F[a].text)[k].is = "text"
    <3>1. LinesAt(F[a].text, r)
      BY <1>3 DEF Within
    <3>2. ASSUME NEW k \in 1 .. K PROVE TextLines(F[a].text)[k].is = "text"
      <4> DEFINE x == Append(SubSeq(F[a].text, r[k - 1] + 1, r[k] - 1), "r")
      <4>1. TextLines(F[a].text)[k] = [is |-> "text", text |-> x]
        BY <3>1 DEF LinesAt
      <4> HIDE DEF x
      <4>2. QED
        BY <4>1
    <3>3. K \in Nat
      BY <3>1 DEF LinesAt
    <3>4. QED
      BY <3>2, <3>3
  <2>4. m = K
    <3> SUFFICES ASSUME m # K PROVE FALSE
      OBVIOUS
    <3>1. m + 1 \in 1 .. K /\ m < K
      <4>1. K \in Nat /\ m \in 0 .. K /\ m # K
        BY <2>3
      <4> HIDE DEF K
      <4>2. QED
        BY <4>1
    <3>2. Head(lines).is = "text"
      BY <2>1, <2>3, <3>1
    <3>3. QED
      BY <1>1, <3>2
  <2>5. a < Len(F)
    <3> SUFFICES ASSUME a = Len(F) PROVE FALSE
      BY <2>2
    <3>1. Head(lines).is = "eof"
      BY <2>1, <2>4
    <3>2. QED
      BY <1>1, <3>1
  <2>6. a + 1 \in DOMAIN F /\ a + 1 - 1 = a
    BY <2>2, <2>5
  <2>7. IsTable(EndBlock) /\ Alike(table, EndBlock) /\ TextsSay(EndBlock, a)
    BY <1>3, <2>4, BlockSaid
  <2>8. NextBlock(a + 1)
    BY <2>1, <2>4, <2>5, <2>6, <2>7 DEF NextBlock
  <2>9. QED
    BY <2>6, <2>8
<1>4. QED
  BY <1>2, <1>3 DEF Reading

(* At the end of a file all of it has been written but the last block. *)
LEMMA EofAhead ==
    ASSUME IsTable(table), JobOK, Reading, NextIs("eof")
    PROVE  /\ IsTable(EndBlock) /\ Alike(table, EndBlock)
           /\ TextsSay(EndBlock, Len(job.file))
<1> DEFINE F == job.file
<1>1. lines # <<>> /\ Head(lines).is = "eof"
  BY DEF NextIs
<1>2. CASE AtStart
  <2>1. /\ \/ Head(lines).is = "text"
           \/ Head(lines).is = "eof" /\ Len(job.file) = 0
           \/ 1 \in DOMAIN job.file /\ NextBlock(1)
        /\ IsTable(EndBlock) /\ Alike(table, EndBlock) /\ TextsSay(EndBlock, 0)
    BY <1>1, <1>2, StartAhead
  <2>2. ~NextBlock(1)
    <3> SUFFICES ASSUME NextBlock(1) PROVE FALSE
      OBVIOUS
    <3>1. Head(lines).is = "separator"
      BY DEF NextBlock, Separator
    <3>2. QED
      BY <1>1, <3>1
  <2>3. Head(lines).is # "text"
    BY <1>1
  <2>4. Len(job.file) = 0
    BY <2>1, <2>2, <2>3
  <2>5. QED
    BY <2>1, <2>4
<1>3. ASSUME NEW a \in DOMAIN F, NEW m \in 0 .. Len(TextLines(F[a].text)), NEW r,
             Within(a, m, r)
      PROVE  IsTable(EndBlock) /\ Alike(table, EndBlock) /\ TextsSay(EndBlock, Len(F))
  <2> DEFINE K == Len(TextLines(F[a].text))
  <2>1. /\ m < K => Head(lines) = TextLines(F[a].text)[m + 1]
        /\ m = K /\ a < Len(F) => Head(lines) = Separator(job.simple, F, a + 1)
    BY <1>1, <1>3, LineAhead
  <2>2. a \in 1 .. Len(F) /\ Len(F) \in Nat /\ DOMAIN F = 1 .. Len(F)
    BY JobFile
  <2>3. K \in Nat /\ \A k \in 1 .. K : TextLines(F[a].text)[k].is = "text"
    <3>1. LinesAt(F[a].text, r)
      BY <1>3 DEF Within
    <3>2. ASSUME NEW k \in 1 .. K PROVE TextLines(F[a].text)[k].is = "text"
      <4> DEFINE x == Append(SubSeq(F[a].text, r[k - 1] + 1, r[k] - 1), "r")
      <4>1. TextLines(F[a].text)[k] = [is |-> "text", text |-> x]
        BY <3>1 DEF LinesAt
      <4> HIDE DEF x
      <4>2. QED
        BY <4>1
    <3>3. K \in Nat
      BY <3>1 DEF LinesAt
    <3>4. QED
      BY <3>2, <3>3
  <2>4. m = K
    <3> SUFFICES ASSUME m # K PROVE FALSE
      OBVIOUS
    <3>1. m + 1 \in 1 .. K /\ m < K
      <4>1. K \in Nat /\ m \in 0 .. K /\ m # K
        BY <2>3
      <4> HIDE DEF K
      <4>2. QED
        BY <4>1
    <3>2. Head(lines).is = "text"
      BY <2>1, <2>3, <3>1
    <3>3. QED
      BY <1>1, <3>2
  <2>5. a = Len(F)
    <3> SUFFICES ASSUME a < Len(F) PROVE FALSE
      BY <2>2
    <3>1. Head(lines).is = "separator"
      BY <2>1, <2>4 DEF Separator
    <3>2. QED
      BY <1>1, <3>1
  <2>6. IsTable(EndBlock) /\ Alike(table, EndBlock) /\ TextsSay(EndBlock, a)
    BY <1>3, <2>4, BlockSaid
  <2>7. QED
    BY <2>5, <2>6
<1>4. QED
  BY <1>2, <1>3 DEF Reading

(* A simple id is that of the text it leads to. *)
LEMMA SimpleId ==
    ASSUME NEW g, IsTable(g), NEW id \in Ids(TRUE, g), SimpleDst(id) \in Targets(g)
    PROVE  GetId(TRUE, g, SimpleDst(id)[1], SimpleDst(id)[2]) = id
<1>1. id \in Int
  <2>1. CASE id = -1
    BY <2>1
  <2>2. ASSUME NEW t \in Targets(g), id = GetId(TRUE, g, t[1], t[2]) PROVE id \in Int
    <3> DEFINE i == t[2]
               j == t[1]
    <3>1. j \in DOMAIN g.messages /\ i \in DOMAIN g.type
      BY DEF Targets
    <3>2. /\ DOMAIN g.type = 1 .. Width(g) /\ Width(g) \in Nat
          /\ DOMAIN g.messages = 1 .. Len(g.messages) /\ Len(g.messages) \in Nat
      BY TableParts
    <3>3. id = GetId(TRUE, g, j, i)
      BY <2>2
    <3> HIDE DEF i, j
    <3>4. i \in Int /\ j \in Int
      BY <3>1, <3>2
    <3>5. id = (i - 1) + (j - 1) * 1000
      BY <3>3 DEF GetId
    <3>6. QED
      BY <3>4, <3>5
  <2>3. QED
    BY <2>1, <2>2 DEF Ids
<1> DEFINE q == id \div 1000
           r == id % 1000
           j == q + 1
           i == r + 1
           s == SimpleDst(id)
<1>2. id = 1000 * q + r /\ q \in Int /\ r \in Int
  BY <1>1, SMT
<1>3. s[1] = j /\ s[2] = i
  BY DEF SimpleDst
<1> HIDE DEF q, r, s
<1>4. (i - 1) + (j - 1) * 1000 = id
  BY <1>2
<1> HIDE DEF i, j
<1>5. GetId(TRUE, g, j, i) = (i - 1) + (j - 1) * 1000
  BY DEF GetId
<1>6. GetId(TRUE, g, s[1], s[2]) = GetId(TRUE, g, j, i)
  BY <1>3
<1>7. GetId(TRUE, g, s[1], s[2]) = id
  <2> DEFINE x == GetId(TRUE, g, s[1], s[2])
             y == GetId(TRUE, g, j, i)
             z == (i - 1) + (j - 1) * 1000
  <2>1. x = y
    BY <1>6
  <2>2. y = z
    BY Zenon, <1>5
  <2>3. z = id
    BY <1>4
  <2> HIDE DEF x, y, z
  <2>4. x = id
    BY <2>1, <2>2, <2>3
  <2>5. QED
    BY <2>4 DEF x
<1>8. QED
  BY <1>7 DEF s

-----------------------------------------------------------------------------
(* Steps *)

(* An import that ends leaves no job behind. *)
LEMMA ImportDone ==
    ASSUME SavedOK, saved' = saved, IsTable(table'), Done
    PROVE  IInv'
<1>1. lines' = <<>> /\ Idle'
  BY DEF Done, Idle
<1>2. SavedOK'
  BY DEF SavedOK
<1>3. QED
  BY <1>1, <1>2 DEF IInv

(* A block begins. *)
LEMMA BlockBegins ==
    ASSUME IInv, ~Idle, NextIs("separator"), NEW b \in DOMAIN job.file, NextBlock(b),
           table' = EndBlock, saved' = saved, lines' = Tail(lines), msg' = <<>>, job' = job,
           pos' = [index |-> FindDst(job.simple, table', job.file[b].id, pos.index)[1],
                   field |-> FindDst(job.simple, table', job.file[b].id, pos.index)[2]],
           job.simple \/ \E t \in Targets(table') :
             GetId(job.simple, table', t[1], t[2]) = job.file[b].id
    PROVE  IInv'
<1> DEFINE F == job.file
           id == F[b].id
           text == F[b].text
           dst == FindDst(job.simple, table', id, pos.index)
           before == job.before
<1>1. JobOK /\ Reading /\ IsTable(table) /\ SavedOK
  BY DEF IInv
<1>2. /\ IsTable(table') /\ Alike(table, table') /\ TextsSay(EndBlock, b - 1)
      /\ Left(lines', FileLines(job.simple, F), Starts(job.simple, F)[b] + 1)
  BY DEF NextBlock
<1>3. /\ IsTable(before) /\ Alike(before, table) /\ job.simple \in BOOLEAN
      /\ job.simple => SimpleDst(id) \in Targets(before)
  BY <1>1 DEF JobOK
<1>4. Alike(before, table')
  BY <1>2, <1>3, AlikeChain
<1>5. Targets(table') = Targets(before) /\ Targets(table) = Targets(before)
      /\ DOMAIN table'.messages = DOMAIN before.messages
      /\ DOMAIN table.messages = DOMAIN before.messages
  <2>1. DOMAIN table'.messages = DOMAIN before.messages
        /\ DOMAIN table.messages = DOMAIN before.messages
    BY <1>3, <1>4 DEF Alike
  <2>2. Targets(table') = Targets(before)
    BY <1>3, <1>4, SameIds
  <2>3. Targets(table) = Targets(before)
    BY <1>3, SameIds
  <2>4. QED
    BY <2>1, <2>2, <2>3
<1>6. pos.index \in Nat \ {0} /\ (pos.index = 1 \/ pos.index \in DOMAIN table'.messages)
  <2>1. CASE AtStart
    BY <2>1 DEF AtStart
  <2>2. CASE <<pos.index, pos.field>> \in Targets(table)
    <3>1. pos.index \in DOMAIN table.messages
      BY <2>2 DEF Targets
    <3>2. DOMAIN table.messages = 1 .. Len(table.messages) /\ Len(table.messages) \in Nat
      BY <1>1, TableParts
    <3>3. QED
      BY <1>5, <3>1, <3>2
  <2>3. AtStart \/ <<pos.index, pos.field>> \in Targets(table)
    BY <1>1 DEF Reading, Within
  <2>4. QED
    BY <2>1, <2>2, <2>3
<1>7. Searched(job.simple, table', id, pos.index)
  BY <1>3, <1>5, <1>6 DEF Searched
<1>8. /\ dst \in Targets(table')
      /\ ~job.simple => GetId(job.simple, table', dst[1], dst[2]) = id
  BY <1>2, <1>7, Found
<1>9. dst = <<dst[1], dst[2]>> /\ dst[2] # 0
  <2>1. dst[1] \in DOMAIN table'.messages /\ dst[2] \in DOMAIN table'.type /\ dst = <<dst[1], dst[2]>>
    BY <1>8 DEF Targets
  <2>2. DOMAIN table'.type = 1 .. Width(table') /\ Width(table') \in Nat
    BY <1>2, TableParts
  <2> HIDE DEF dst
  <2>3. QED
    BY <2>1, <2>2
<1>10. GetId(job.simple, table', dst[1], dst[2]) = id
  <2>1. CASE ~job.simple
    BY <1>8, <2>1
  <2>2. CASE job.simple
    <3>1. job.simple = TRUE
      BY <1>3, <2>2
    <3>2. dst = SimpleDst(id)
      BY <3>1 DEF FindDst
    <3>3. id \in Ids(TRUE, before) /\ SimpleDst(id) \in Targets(before)
      BY <1>1, <1>3, <3>1, JobFile
    <3>4. GetId(TRUE, before, SimpleDst(id)[1], SimpleDst(id)[2]) = id
      BY <1>3, <3>3, SimpleId
    <3>5. \A t \in Targets(before) :
            GetId(TRUE, table', t[1], t[2]) = GetId(TRUE, before, t[1], t[2])
      BY <1>3, <1>4, SameIds
    <3>6. GetId(TRUE, table', SimpleDst(id)[1], SimpleDst(id)[2]) = id
      BY <3>3, <3>4, <3>5
    <3>7. QED
      BY <3>1, <3>2, <3>6
  <2>3. QED
    BY <2>1, <2>2
<1>11. pos'.index = dst[1] /\ pos'.field = dst[2]
  OBVIOUS
<1>12. PICK r : LinesAt(text, r)
  <2>1. text \in Seq(Char)
    BY <1>1, JobFile
  <2>2. QED
    BY <2>1, LinesOfText
<1>13. /\ r \in Cuts(text) /\ r[0] = 0 /\ 0 \in 0 .. Len(TextLines(text))
  <2>1. Len(TextLines(text)) \in Nat
    BY <1>12 DEF LinesAt
  <2>2. QED
    BY <1>12, <2>1 DEF LinesAt, Cuts
<1> HIDE DEF dst
<1>14. TextsSay(table, b - 1)'
  <2>1. TextsSay(EndBlock, b - 1) <=> TextsSay(table', b - 1)
    OBVIOUS
  <2>2. TextsSay(table', b - 1)
    BY <1>2, <2>1
  <2>3. QED
    BY <2>2 DEF TextsSay
<1>15. Within(b, 0, r)'
  <2>1. msg' = SubSeq(Append(text, "n"), 1, r[0])
    BY <1>13
  <2>2. Starts(job.simple, F)[b] + 1 + 0 = Starts(job.simple, F)[b] + 1
    <3>1. Starts(job.simple, F) \in [1 .. Len(F) + 1 -> Nat]
      BY <1>1, JobFile DEF BlocksAt
    <3>2. b \in 1 .. Len(F) /\ Len(F) \in Nat
      BY <1>1, JobFile
    <3>3. b \in 1 .. Len(F) + 1
      BY <3>2
    <3>4. Starts(job.simple, F)[b] \in Nat
      BY <3>1, <3>3
    <3>5. QED
      BY <3>4
  <2>3. Left(lines', FileLines(job.simple, F), Starts(job.simple, F)[b] + 1 + 0)
    BY <1>2, <2>2
  <2>4. pos'.field # 0 /\ <<pos'.index, pos'.field>> \in Targets(table')
        /\ GetId(job.simple, table', pos'.index, pos'.field) = id
    BY <1>8, <1>9, <1>10, <1>11
  <2>5. QED
    BY <1>12, <1>14, <2>1, <2>3, <2>4 DEF Within
<1>16. Reading'
  <2>1. b \in DOMAIN job'.file /\ 0 \in 0 .. Len(TextLines(job'.file[b].text))
        /\ r \in Cuts(job'.file[b].text)
    BY <1>13
  <2>2. QED
    BY <1>15, <2>1 DEF Reading
<1>17. JobOK'
  BY <1>1, <1>4 DEF JobOK
<1>18. SavedOK'
  BY <1>1 DEF SavedOK
<1>19. ~Idle'
  BY <1>9, <1>11 DEF Idle, Nowhere
<1>20. QED
  BY <1>2, <1>16, <1>17, <1>18, <1>19 DEF IInv

LEMMA ReadSeparatorStep ==
    ASSUME IInv, ReadSeparator
    PROVE  IInv'
<1>1. NextIs("separator") /\ table' = EndBlock /\ saved' = saved
  BY DEF ReadSeparator
<1>2. ~Idle
  BY <1>1 DEF IInv, NextIs
<1>3. JobOK /\ Reading /\ IsTable(table) /\ SavedOK
  BY <1>2 DEF IInv
<1>4. PICK b \in DOMAIN job.file : NextBlock(b)
  BY <1>1, <1>3, SeparatorAhead
<1> DEFINE simple == job.simple
           id == job.file[b].id
<1>5. Head(lines).simple = simple /\ Head(lines).id = id
  BY <1>4 DEF NextBlock, Separator
<1>6. IsTable(table')
  BY <1>1, <1>4 DEF NextBlock
<1>7. IF simple \/ \E t \in Targets(table') : GetId(simple, table', t[1], t[2]) = id
      THEN /\ pos' = [index |-> FindDst(simple, table', id, pos.index)[1],
                      field |-> FindDst(simple, table', id, pos.index)[2]]
           /\ lines' = Tail(lines) /\ msg' = <<>> /\ job' = job
      ELSE Done
  BY <1>5 DEF ReadSeparator
<1> DEFINE known == simple \/ \E t \in Targets(table') : GetId(simple, table', t[1], t[2]) = id
<1>8. CASE known
  <2>1. /\ pos' = [index |-> FindDst(simple, table', id, pos.index)[1],
                   field |-> FindDst(simple, table', id, pos.index)[2]]
        /\ lines' = Tail(lines) /\ msg' = <<>> /\ job' = job
    BY <1>7, <1>8
  <2>2. QED
    BY <1>1, <1>2, <1>4, <1>8, <2>1, BlockBegins
<1>9. CASE ~known
  <2>1. Done
    BY <1>7, <1>9
  <2>2. QED
    BY <1>1, <1>3, <1>6, <2>1, ImportDone
<1>10. QED
  BY <1>8, <1>9

(* A line of a text is read. *)
LEMMA LineRead ==
    ASSUME IInv, NextIs("text"), pos.field # 0, table' = table, saved' = saved,
           msg' = msg \o Chomp(Head(lines).text) \o <<"n">>,
           lines' = Tail(lines), pos' = pos, job' = job
    PROVE  IInv'
<1>1. lines # <<>> /\ Head(lines).is = "text"
  BY DEF NextIs
<1>2. ~Idle
  BY DEF Idle, Nowhere
<1>3. JobOK /\ Reading /\ IsTable(table) /\ SavedOK
  BY <1>2 DEF IInv
<1> DEFINE F == job.file
<1>4. PICK b \in DOMAIN F : \E m \in 0 .. Len(TextLines(F[b].text)) :
        \E r \in Cuts(F[b].text) : Within(b, m, r)
  BY <1>3 DEF Reading, AtStart
<1> DEFINE text == F[b].text
           K == Len(TextLines(text))
           flat == FileLines(job.simple, F)
           at == Starts(job.simple, F)
<1>5. PICK m \in 0 .. K, r \in Cuts(text) : Within(b, m, r)
  BY <1>4
<1>6. /\ m < K => /\ Head(lines) = TextLines(text)[m + 1]
                  /\ Left(Tail(lines), flat, at[b] + 1 + (m + 1))
      /\ m = K /\ b < Len(F) => Head(lines) = Separator(job.simple, F, b + 1)
      /\ m = K /\ b = Len(F) => Head(lines).is = "eof"
  BY <1>1, <1>3, <1>5, LineAhead
<1>7. LinesAt(text, r) /\ msg = SubSeq(Append(text, "n"), 1, r[m]) /\ K \in Nat
  BY <1>5 DEF Within, LinesAt
<1>8. text \in Seq(Char) /\ b \in 1 .. Len(F) /\ Len(F) \in Nat
  BY <1>3, JobFile
<1>9. m < K /\ m \in Nat /\ m + 1 \in 1 .. K /\ m + 1 \in 0 .. K
  <2>1. m # K
    <3> SUFFICES ASSUME m = K PROVE FALSE
      OBVIOUS
    <3>1. CASE b < Len(F)
      <4>1. Head(lines).is = "separator"
        BY <1>6, <3>1 DEF Separator
      <4>2. QED
        BY <1>1, <4>1
    <3>2. CASE b = Len(F)
      <4>1. Head(lines).is = "eof"
        BY <1>6, <3>2
      <4>2. QED
        BY <1>1, <4>1
    <3>3. QED
      BY <1>8, <3>1, <3>2
  <2>2. K \in Nat /\ m \in 0 .. K
    BY <1>7
  <2> HIDE DEF K
  <2>3. QED
    BY <2>1, <2>2
<1> DEFINE p == r[m]
           q == r[m + 1]
<1>10. /\ p \in Nat /\ q \in Nat /\ p < q /\ q <= Len(text) + 1
       /\ q = Len(text) + 1 \/ text[q] = "n"
       /\ Head(lines).text = Append(SubSeq(text, p + 1, q - 1), "r")
  <2>1. m + 1 - 1 = m
    BY <1>9
  <2>2. /\ r[m + 1 - 1] < r[m + 1]
        /\ r[m + 1] = Len(text) + 1 \/ text[r[m + 1]] = "n"
        /\ TextLines(text)[m + 1] =
             [is |-> "text", text |-> Append(SubSeq(text, r[m + 1 - 1] + 1, r[m + 1] - 1), "r")]
    <3> DEFINE j == m + 1
    <3>1. j \in 1 .. Len(TextLines(text))
      BY <1>9
    <3> HIDE DEF j, text
    <3>2. /\ r[j - 1] < r[j]
          /\ r[j] = Len(text) + 1 \/ text[r[j]] = "n"
          /\ TextLines(text)[j] =
               [is |-> "text", text |-> Append(SubSeq(text, r[j - 1] + 1, r[j] - 1), "r")]
      BY ZenonT(30), <1>7, <3>1 DEF LinesAt
    <3>3. QED
      BY <3>2 DEF j
  <2>3. r \in [0 .. K -> 0 .. Len(text) + 1]
    BY <1>7 DEF LinesAt
  <2>4. p \in 0 .. Len(text) + 1 /\ q \in 0 .. Len(text) + 1
    BY <1>9, <2>3
  <2>5. Len(text) \in Nat
    BY <1>8
  <2> DEFINE x == Append(SubSeq(text, p + 1, q - 1), "r")
  <2>6. TextLines(text)[m + 1] = [is |-> "text", text |-> x]
    BY <2>1, <2>2
  <2>7. Head(lines) = TextLines(text)[m + 1]
    BY <1>6, <1>9
  <2>8. p < q /\ (q = Len(text) + 1 \/ text[q] = "n")
    BY <2>1, <2>2
  <2> HIDE DEF x, p, q, text
  <2>9. Head(lines).text = x
    BY <2>6, <2>7
  <2>10. QED
    BY <2>4, <2>5, <2>8, <2>9 DEF x
<1>11. msg' = SubSeq(Append(text, "n"), 1, q)
  <2>1. SubSeq(Append(text, "n"), 1, p) \o Chomp(Append(SubSeq(text, p + 1, q - 1), "r")) \o <<"n">>
          = SubSeq(Append(text, "n"), 1, q)
    <3> HIDE DEF p, q, text
    <3>1. /\ text \in Seq(Char) /\ p \in Nat /\ q \in Nat /\ p < q /\ q <= Len(text) + 1
          /\ q = Len(text) + 1 \/ text[q] = "n"
      BY <1>8, <1>10
    <3>2. QED
      BY Zenon, <3>1, LineAdded
  <2>2. QED
    BY <1>7, <1>10, <2>1
<1>12. TextsSay(table, b - 1)'
  <2>1. TextsSay(table, b - 1)
    BY <1>5 DEF Within
  <2>2. QED
    BY <2>1 DEF TextsSay
<1>13. Within(b, m + 1, r)'
  <2>1. Left(lines', flat, at[b] + 1 + (m + 1))
    BY <1>6, <1>9
  <2>2. /\ pos.field # 0 /\ <<pos.index, pos.field>> \in Targets(table)
        /\ GetId(job.simple, table, pos.index, pos.field) = F[b].id
    BY <1>5 DEF Within
  <2>3. QED
    BY <1>7, <1>11, <1>12, <2>1, <2>2 DEF Within
<1>14. Reading'
  <2>1. b \in DOMAIN job'.file /\ m + 1 \in 0 .. Len(TextLines(job'.file[b].text))
        /\ r \in Cuts(job'.file[b].text)
    BY <1>9
  <2>2. QED
    BY <1>13, <2>1 DEF Reading
<1>15. JobOK' /\ SavedOK' /\ ~Idle'
  BY <1>2, <1>3 DEF JobOK, SavedOK, Idle
<1>16. QED
  BY <1>3, <1>14, <1>15 DEF IInv

LEMMA ReadTextStep ==
    ASSUME IInv, ReadText
    PROVE  IInv'
<1>1. NextIs("text") /\ table' = table /\ saved' = saved
  BY DEF ReadText
<1>2. ASSUME pos.field # 0, msg' = msg \o Chomp(Head(lines).text) \o <<"n">>,
             lines' = Tail(lines), pos' = pos, job' = job
      PROVE  IInv'
  BY <1>1, <1>2, LineRead
<1>3. CASE Done
  <2>1. IsTable(table') /\ SavedOK
    BY <1>1 DEF IInv
  <2>2. QED
    BY <1>1, <1>3, <2>1, ImportDone
<1>4. QED
  BY <1>2, <1>3 DEF ReadText

LEMMA ReadEofStep ==
    ASSUME IInv, ReadEof
    PROVE  IInv'
<1>1. NextIs("eof") /\ table' = RecalcSize(EndBlock) /\ saved' = saved /\ Done
  BY DEF ReadEof
<1>2. ~Idle
  BY <1>1 DEF IInv, NextIs
<1>3. JobOK /\ Reading /\ IsTable(table) /\ SavedOK
  BY <1>2 DEF IInv
<1>4. IsTable(EndBlock)
  BY <1>1, <1>3, EofAhead
<1>5. IsTable(table')
  BY <1>1, <1>4, RecalcTable
<1>6. QED
  BY <1>1, <1>3, <1>5, ImportDone

LEMMA ReadNothingStep ==
    ASSUME IInv, ReadNothing
    PROVE  IInv'
<1>1. table' = table /\ saved' = saved /\ Done
  BY DEF ReadNothing
<1>2. IsTable(table') /\ SavedOK
  BY <1>1 DEF IInv
<1>3. QED
  BY <1>1, <1>2, ImportDone

(* A step between imports. *)
LEMMA IdleStep ==
    ASSUME IInv, Idle, UNCHANGED import, IsTable(table'), SavedOK'
    PROVE  IInv'
<1>1. lines' = <<>> /\ Idle'
  BY DEF IInv, Idle, import
<1>2. QED
  BY <1>1 DEF IInv

LEMMA SetStringStep ==
    ASSUME IInv, SetString
    PROVE  IInv'
<1>1. Idle /\ saved' = saved /\ UNCHANGED import
  BY DEF SetString, Change
<1>2. IsTable(table) /\ SavedOK'
  BY <1>1 DEF IInv, SavedOK
<1>3. PICK k \in Cells(table), v \in {[str |-> w, offset |-> 0] : w \in Words}
                                     \cup {[str |-> <<>>, offset |-> Null]} :
        /\ IsString(table, k)
        /\ table' = [table EXCEPT !.messages[Row(table, k)][Column(table, k)] = v]
  BY DEF SetString
<1> DEFINE j == Row(table, k)
           i == Column(table, k)
<1>4. j \in DOMAIN table.messages /\ i \in DOMAIN table.type
  BY <1>2, CellOf
<1>5. table.type[i].kind = "str"
  BY <1>3 DEF IsString
<1>6. IsValue(table.type[i], v)
  <2>1. CASE v = [str |-> <<>>, offset |-> Null]
    <3>1. v \in [str : Seq(Char), offset : Nat \cup {Null}] /\ v.str = <<>>
      BY <2>1
    <3>2. QED
      BY <1>5, <3>1 DEF IsValue
  <2>2. ASSUME NEW w \in Words, v = [str |-> w, offset |-> 0]
        PROVE  IsValue(table.type[i], v)
    <3>1. w \in Seq(Char)
      BY WordsAssumption
    <3>2. v \in [str : Seq(Char), offset : Nat \cup {Null}] /\ v.offset # Null
      BY <2>2, <3>1 DEF Null
    <3>3. QED
      BY <1>5, <3>2 DEF IsValue
  <2>3. QED
    BY <1>3, <2>1, <2>2
<1>7. Overwrites(table, table', j, i, v)
  <2>1. Overwrites(table, [table EXCEPT !.messages[j][i] = v], j, i, v)
    BY <1>2, <1>4, Overwritten
  <2>2. QED
    BY <1>3, <2>1
<1> HIDE DEF i, j
<1>8. IsTable(table')
  BY <1>2, <1>4, <1>6, <1>7, OverwrittenTable
<1>9. QED
  BY <1>1, <1>2, <1>8, IdleStep

LEMMA RemoveMessageStep ==
    ASSUME IInv, RemoveMessage
    PROVE  IInv'
<1>1. Idle /\ saved' = saved /\ UNCHANGED import
  BY DEF RemoveMessage, Change
<1>2. IsTable(table) /\ SavedOK'
  BY <1>1 DEF IInv, SavedOK
<1>3. PICK j \in DOMAIN table.messages : table' = [table EXCEPT !.messages = RemoveAt(@, j)]
  BY DEF RemoveMessage
<1>4. IsTable([table EXCEPT !.messages = RemoveAt(@, j)])
  BY <1>2, RemovedTable
<1>5. IsTable(table')
  BY <1>3, <1>4
<1>6. QED
  BY <1>1, <1>2, <1>5, IdleStep

LEMMA SaveStep ==
    ASSUME IInv, Save
    PROVE  IInv'
<1>1. Idle /\ UNCHANGED import /\ table' = RecalcSize(table) /\ saved' = {Dump(table')}
  BY DEF Save
<1>2. IsTable(table)
  BY DEF IInv
<1>3. IsTable(table')
  BY <1>1, <1>2, RecalcTable
<1>4. SavedOK'
  BY <1>1, <1>2 DEF SavedOK
<1>5. QED
  BY <1>1, <1>3, <1>4, IdleStep

LEMMA LoadStep ==
    ASSUME IInv, Load
    PROVE  IInv'
<1>1. Idle /\ UNCHANGED import /\ saved' = {}
  BY DEF Load
<1>2. PICK f \in saved : table' = IF Validates(f) THEN Parse(f) ELSE table
  BY DEF Load
<1>3. PICK g : IsTable(g) /\ f = Dump(RecalcSize(g))
  BY DEF IInv, SavedOK
<1>4. Parse(f) = RecalcSize(g) /\ IsTable(RecalcSize(g))
  BY <1>3, ReadsBack, RecalcTable
<1>5. IsTable(table')
  BY <1>2, <1>4 DEF IInv
<1>6. SavedOK'
  BY <1>1 DEF SavedOK
<1>7. QED
  BY <1>1, <1>5, <1>6, IdleStep

(* A line before the blocks comes first. *)
LEMMA LineFirst ==
    ASSUME NEW x, NEW V, NEW flat \in Seq(V), NEW W, NEW end \in Seq(W)
    PROVE  <<x>> \o flat \o end # <<>> /\ Head(<<x>> \o flat \o end) = x
<1> DEFINE X == {x} \cup V \cup W
           a == <<x>>
           b == Join(a, flat)
           c == Join(b, end)
<1>1. a \in Seq(X) /\ Len(a) = 1 /\ a[1] = x
  OBVIOUS
<1>2. flat \in Seq(X) /\ end \in Seq(X)
  <2>1. V \subseteq X /\ W \subseteq X
    OBVIOUS
  <2> HIDE DEF X
  <2>2. flat \in Seq(X)
    BY <2>1
  <2>3. end \in Seq(X)
    BY <2>1
  <2>4. QED
    BY <2>2, <2>3
<1> HIDE DEF X, a
<1>3. /\ b \in Seq(X) /\ Len(b) = Len(a) + Len(flat)
      /\ \A i \in 1 .. Len(a) : i \in 1 .. Len(b) /\ b[i] = a[i]
  <2>1. a \in Seq(X) /\ flat \in Seq(X)
    BY <1>1, <1>2
  <2>2. QED
    BY ZenonT(40), <2>1, Joined
<1> HIDE DEF b
<1>4. /\ c \in Seq(X) /\ Len(c) = Len(b) + Len(end)
      /\ \A i \in 1 .. Len(b) : i \in 1 .. Len(c) /\ c[i] = b[i]
  <2>1. b \in Seq(X) /\ end \in Seq(X)
    BY <1>2, <1>3
  <2>2. QED
    BY ZenonT(40), <2>1, Joined
<1> HIDE DEF c
<1>5. 1 \in 1 .. Len(a) /\ 1 \in 1 .. Len(b) /\ 1 \in 1 .. Len(c) /\ b[1] = x /\ c[1] = x
  BY <1>1, <1>3, <1>4
<1>6. c # <<>> /\ Head(c) = x
  BY <1>4, <1>5
<1>7. c = <<x>> \o flat \o end
  BY DEF Join, a, b, c
<1>8. QED
  BY <1>6, <1>7

LEMMA OpenTxtStep ==
    ASSUME IInv, OpenTxt
    PROVE  IInv'
<1>1. /\ Idle /\ pos' = [index |-> 1, field |-> 0] /\ msg' = <<>>
      /\ table' = table /\ saved' = saved
  BY DEF OpenTxt, Change
<1>2. IsTable(table) /\ SavedOK
  BY DEF IInv
<1>3. PICK simple \in BOOLEAN : \E file \in Edited(WriteTxt(simple, table)) :
         /\ \A k \in DOMAIN file :
              simple => SimpleDst(file[k].id) \in Targets(table)
         /\ job' = [before |-> table, simple |-> simple, file |-> file]
         /\ \E start \in {<<>>, <<[is |-> "text", text |-> <<"r">>]>>} :
            \E end \in {<<>>, <<[is |-> "eof"]>>} :
              lines' = start \o FileLines(simple, file) \o end
  BY DEF OpenTxt
<1>4. PICK file \in Edited(WriteTxt(simple, table)) :
         /\ \A k \in DOMAIN file :
              simple => SimpleDst(file[k].id) \in Targets(table)
         /\ job' = [before |-> table, simple |-> simple, file |-> file]
         /\ \E start \in {<<>>, <<[is |-> "text", text |-> <<"r">>]>>} :
            \E end \in {<<>>, <<[is |-> "eof"]>>} :
              lines' = start \o FileLines(simple, file) \o end
  BY <1>3
<1>5. /\ job'.before = table /\ job'.simple = simple /\ job'.file = file
  BY <1>4
<1>6. file \in Seq(Blocks(simple, table))
  <2> DEFINE exported == WriteTxt(simple, table)
  <2>1. exported \in Seq(Blocks(simple, table))
    BY <1>2, WriteTxtType
  <2>2. file \in Edited(exported)
    OBVIOUS
  <2> HIDE DEF exported
  <2>3. QED
    BY <2>1, <2>2, EditedType
<1>7. JobOK'
  <2>1. Alike(table, table)
    BY DEF Alike
  <2>2. QED
    BY <1>1, <1>2, <1>3, <1>4, <1>5, <1>6, <2>1 DEF JobOK
<1> DEFINE flat == FileLines(simple, file)
<1>8. flat \in Seq(LineSet(simple, file))
  <2>1. file \in Seq([id : Ids(simple, table), text : Seq(Char)])
    BY <1>6 DEF Blocks
  <2>2. BlocksAt(simple, file, Starts(simple, file))
    BY <2>1, LinesOfFile
  <2>3. QED
    BY <2>2 DEF BlocksAt
<1>9. Left(lines', flat, 0) \/ NextIs("text")'
  <2>1. PICK start \in {<<>>, <<[is |-> "text", text |-> <<"r">>]>>},
             end \in {<<>>, <<[is |-> "eof"]>>} :
               lines' = start \o flat \o end
    BY <1>4
  <2> HIDE DEF flat
  <2>2. CASE start = <<>>
    <3>1. Left(<<>> \o flat \o end, flat, 0)
      BY <1>8, Opened
    <3>2. QED
      BY <2>1, <2>2, <3>1
  <2>3. CASE start = <<[is |-> "text", text |-> <<"r">>]>>
    <3> DEFINE x == [is |-> "text", text |-> <<"r">>]
               e == [is |-> "eof"]
    <3>1. x.is = "text"
      OBVIOUS
    <3>2. end \in Seq({e})
      <4>1. end \in {<<>>, <<e>>}
        OBVIOUS
      <4> HIDE DEF e
      <4>2. CASE end = <<>>
        BY <4>2
      <4>3. CASE end = <<e>>
        BY <4>3
      <4>4. QED
        BY <4>1, <4>2, <4>3
    <3>3. start = <<x>>
      BY <2>3
    <3> HIDE DEF x
    <3>4. <<x>> \o flat \o end # <<>> /\ Head(<<x>> \o flat \o end) = x
      BY <1>8, <3>2, LineFirst
    <3>5. QED
      BY <2>1, <3>1, <3>3, <3>4 DEF NextIs
  <2>4. QED
    BY <2>1, <2>2, <2>3
<1>10. TextsSay(table, 0)'
  <2>1. ASSUME NEW t \in Targets(table)
        PROVE  TextOf(table, t[1], t[2]) =
                 Fitting(table.type[t[2]],
                   SaysUpTo(file, 0, GetId(simple, table, t[1], t[2]), TextOf(table, t[1], t[2])))
    BY <1>2, Fits, SaysNothing
  <2>2. QED
    BY <1>1, <1>5, <2>1 DEF TextsSay
<1>11. AtStart'
  BY <1>1, <1>5, <1>9, <1>10 DEF AtStart
<1>12. ~Idle' /\ SavedOK'
  BY <1>1, <1>2 DEF Idle, Nowhere, SavedOK
<1>13. QED
  BY <1>1, <1>2, <1>7, <1>11, <1>12 DEF IInv, Reading

-----------------------------------------------------------------------------
(* Theorems *)

LEMMA Start ==
    ASSUME Init
    PROVE  IInv
<1>1. PICK g \in Tables : table = RecalcSize(g)
  BY DEF Init
<1>2. IsTable(table)
  BY <1>1, TablesAssumption, RecalcTable
<1>3. Idle /\ lines = <<>> /\ saved = {}
  BY DEF Init, Idle
<1>4. QED
  BY <1>2, <1>3 DEF IInv, SavedOK

LEMMA Step ==
    ASSUME IInv, [Next]_vars
    PROVE  IInv'
<1>1. CASE SetString
  BY <1>1, SetStringStep
<1>2. CASE RemoveMessage
  BY <1>2, RemoveMessageStep
<1>3. CASE Save
  BY <1>3, SaveStep
<1>4. CASE Load
  BY <1>4, LoadStep
<1>5. CASE OpenTxt
  BY <1>5, OpenTxtStep
<1>6. CASE ReadSeparator
  BY <1>6, ReadSeparatorStep
<1>7. CASE ReadText
  BY <1>7, ReadTextStep
<1>8. CASE ReadEof
  BY <1>8, ReadEofStep
<1>9. CASE ReadNothing
  BY <1>9, ReadNothingStep
<1>10. CASE UNCHANGED vars
  <2>1. /\ table' = table /\ saved' = saved /\ lines' = lines /\ msg' = msg
        /\ pos' = pos /\ job' = job
    BY <1>10 DEF vars, import
  <2>2. SavedOK' <=> SavedOK
    BY <2>1 DEF SavedOK
  <2>3. Idle' <=> Idle
    BY <2>1 DEF Idle
  <2>4. JobOK' <=> JobOK
    BY <2>1 DEF JobOK
  <2>5. \A n : TextsSay(table, n)' <=> TextsSay(table, n)
    BY <2>1 DEF TextsSay
  <2>6. AtStart' <=> AtStart
    BY <2>1, <2>5 DEF AtStart, NextIs
  <2>7. \A b, m, r : Within(b, m, r)' <=> Within(b, m, r)
    BY <2>1, <2>5 DEF Within
  <2>8. Reading' <=> Reading
    BY <2>1, <2>6, <2>7 DEF Reading
  <2>9. QED
    BY <2>1, <2>2, <2>3, <2>4, <2>8 DEF IInv
<1>11. QED
  BY <1>1, <1>2, <1>3, <1>4, <1>5, <1>6, <1>7, <1>8, <1>9, <1>10 DEF Next

(* The inductive invariant holds: an import is always at a place in its file, *)
(* and what was saved is the dump of a table.                                *)
THEOREM Invariant == Spec => []IInv
<1>1. Init => IInv
  BY Start
<1>2. IInv /\ [Next]_vars => IInv'
  BY Step
<1>3. QED
  BY <1>1, <1>2, PTL DEF Spec

(* A table keeps the shape its type gives it, and an import writes to a text *)
(* that is there, whatever scripts do and text files say.                    *)
THEOREM Shape == Spec => []TypeOK
<1>1. IInv => TypeOK
  <2> SUFFICES ASSUME IInv PROVE TypeOK
    OBVIOUS
  <2>1. IsTable(table) /\ (Idle => lines = <<>>)
    BY DEF IInv
  <2>2. ASSUME pos.field # 0 PROVE <<pos.index, pos.field>> \in Targets(table)
    <3>1. ~Idle
      BY <2>2 DEF Idle, Nowhere
    <3>2. Reading /\ ~AtStart
      BY <2>2, <3>1 DEF IInv, AtStart
    <3>3. QED
      BY <3>2 DEF Reading, Within
  <2>3. QED
    BY <2>1, <2>2 DEF TypeOK
<1>2. QED
  BY <1>1, Invariant, PTL

(* The strings that Dump_ writes are those that RecalcSize counted, and the  *)
(* file is as long as it was said to be.                                     *)
THEOREM Asserts == Spec => DumpAsserts
<1>1. IInv /\ [Next]_vars =>
        (Save => \A f \in saved' : /\ f.strings_size = table'.msgs_size
                                   /\ f.size = GetSize(table'))
  <2> SUFFICES ASSUME IInv, Save
               PROVE  \A f \in saved' : /\ f.strings_size = table'.msgs_size
                                        /\ f.size = GetSize(table')
    OBVIOUS
  <2>1. table' = RecalcSize(table) /\ saved' = {Dump(table')} /\ IsTable(table)
    BY DEF Save, IInv
  <2>2. /\ Dump(RecalcSize(table)).strings_size = RecalcSize(table).msgs_size
        /\ Dump(RecalcSize(table)).size = GetSize(RecalcSize(table))
    BY <2>1, DumpAsserted
  <2>3. QED
    BY <2>1, <2>2
<1>2. QED
  BY <1>1, Invariant, PTL DEF Spec, DumpAsserts

(* What was saved is accepted and read as it was. *)
THEOREM RoundTrip == Spec => SavedReadsBack
<1>1. IInv /\ [Next]_vars =>
        (Save /\ (table'.gstl => table'.msgs_size > 0) =>
           \A f \in saved' : OffsetsLead(f) /\ Validates(f) /\ Parse(f) = table')
  <2> SUFFICES ASSUME IInv, Save, table'.gstl => table'.msgs_size > 0
               PROVE  \A f \in saved' : OffsetsLead(f) /\ Validates(f) /\ Parse(f) = table'
    OBVIOUS
  <2>1. table' = RecalcSize(table) /\ saved' = {Dump(table')} /\ IsTable(table)
    BY DEF Save, IInv
  <2>2. table.gstl => RecalcSize(table).msgs_size > 0
    <3>1. table'.gstl = table.gstl
      BY <2>1, Recalculated
    <3>2. QED
      BY <2>1, <3>1
  <2>3. OffsetsLead(Dump(RecalcSize(table)))
    BY <2>1, Leads
  <2>4. Validates(Dump(RecalcSize(table)))
    BY <2>1, <2>2, Validated
  <2>5. Parse(Dump(RecalcSize(table))) = RecalcSize(table)
    BY <2>1, ReadsBack
  <2>6. QED
    BY <2>1, <2>3, <2>4, <2>5
<1>2. QED
  BY <1>1, Invariant, PTL DEF Spec, SavedReadsBack

(* An import that gets to its end makes the texts what the file says.        *)
THEOREM Imported == Spec => ImportComplete
<1>1. IInv /\ [Next]_vars =>
        (ReadEof /\ DistinctIds(job.simple, job.before) =>
           \A t \in Targets(job.before) :
              LET id == GetId(job.simple, job.before, t[1], t[2]) IN
              TextOf(table', t[1], t[2]) =
                Fitting(table.type[t[2]],
                  Says(job.file, id, TextOf(job.before, t[1], t[2]))))
  <2> SUFFICES ASSUME IInv, ReadEof, DistinctIds(job.simple, job.before),
                      NEW t \in Targets(job.before)
               PROVE  LET id == GetId(job.simple, job.before, t[1], t[2]) IN
                      TextOf(table', t[1], t[2]) =
                        Fitting(table.type[t[2]],
                          Says(job.file, id, TextOf(job.before, t[1], t[2])))
    OBVIOUS
  <2> DEFINE before == job.before
             F == job.file
             id == GetId(job.simple, before, t[1], t[2])
             old == TextOf(before, t[1], t[2])
  <2>1. NextIs("eof") /\ table' = RecalcSize(EndBlock)
    BY DEF ReadEof
  <2>2. ~Idle
    BY <2>1 DEF IInv, NextIs
  <2>3. JobOK /\ Reading /\ IsTable(table)
    BY <2>2 DEF IInv
  <2>4. IsTable(EndBlock) /\ Alike(table, EndBlock) /\ TextsSay(EndBlock, Len(F))
    BY <2>1, <2>3, EofAhead
  <2>5. TextOf(EndBlock, t[1], t[2]) = Fitting(before.type[t[2]], SaysUpTo(F, Len(F), id, old))
    BY <2>4 DEF TextsSay
  <2>6. Says(F, id, old) = SaysUpTo(F, Len(F), id, old)
    <3>1. F \in Seq(Blocks(job.simple, before))
      BY <2>3 DEF JobOK
    <3> HIDE DEF F, id, old
    <3>2. QED
      BY <3>1, SaysAll
  <2>7. table.type = before.type /\ Alike(before, table)
    BY <2>3, JobIds DEF JobOK
  <2>8. TextOf(table', t[1], t[2]) = TextOf(EndBlock, t[1], t[2])
    <3>1. t[1] \in DOMAIN before.messages /\ t[2] \in DOMAIN before.type
          /\ HasId(before, t[1], t[2])
      BY DEF Targets
    <3>2. Alike(before, EndBlock)
      BY <2>4, <2>7, AlikeChain
    <3>3. t[1] \in DOMAIN EndBlock.messages /\ t[2] \in DOMAIN EndBlock.type
          /\ HasId(EndBlock, t[1], t[2])
      BY <3>1, <3>2 DEF Alike, HasId
    <3>4. SameTexts(EndBlock, table')
      BY <2>1, <2>4, RecalcSame
    <3>5. QED
      BY <3>3, <3>4 DEF SameTexts, TextOf, HasId
  <2>9. QED
    BY <2>5, <2>6, <2>7, <2>8
<1>2. QED
  BY <1>1, Invariant, PTL DEF Spec, ImportComplete

=============================================================================
