---------------------------- MODULE Cl3Tool_proofs ----------------------------
(* Proofs about the layout of archives and about the tool, for every number   *)
(* of files, every length and every list of links: a dump takes the size it   *)
(* was given, reads back as what was dumped, an archive is left whatever      *)
(* stops a command, and every command replaces it as ArchiveStore says.       *)
EXTENDS Cl3Tool, TLAPS, WellFoundedInduction, FiniteSetTheorems

-----------------------------------------------------------------------------
(* Rounding *)

(* The pad of the sink and the rounding of the headers are the same number. *)
LEMMA PadRounds ==
    ASSUME NEW n \in Nat
    PROVE  /\ SinkPad(n) \in Nat /\ RoundUp(n) \in Nat
           /\ n + SinkPad(n) = RoundUp(n)
           /\ RoundUp(n) % PAD_BYTES = 0
BY SMT DEF SinkPad, RoundUp, PAD_BYTES

(* A multiple is left out of it. *)
LEMMA RoundedFrom ==
    ASSUME NEW s \in Nat, NEW n \in Nat, s % PAD_BYTES = 0
    PROVE  RoundUp(s + n) = s + RoundUp(n)
BY SMT DEF RoundUp, PAD_BYTES

(* So what is added to a multiple of the padding stays one.                  *)
LEMMA SumOfMultiples ==
    ASSUME NEW s \in Nat, NEW n \in Nat, s % PAD_BYTES = 0, n % PAD_BYTES = 0
    PROVE  (s + n) % PAD_BYTES = 0
BY SMT DEF PAD_BYTES

-----------------------------------------------------------------------------
(* Recursion over the entries *)

(* A set of numbers has a least one.                                         *)
LEMMA Least ==
    ASSUME NEW S, S \subseteq Nat, S # {}
    PROVE  \E m \in S : \A k \in S : m <= k
<1> DEFINE R == OpToRel(<, Nat)
<1>1. R = {p \in Nat \X Nat : p[1] < p[2]}
  BY DEF OpToRel
<1>2. IsWellFoundedOn(R, Nat)
  BY NatLessThanWellFounded
<1> HIDE DEF R
<1>3. PICK m \in S : \A k \in S : <<k, m>> \notin R
  BY <1>2, WFMin
<1>4. \A k \in S : ~(k < m)
  BY <1>1, <1>3
<1>5. QED
  BY <1>4

(* From an index and the value before it to the value at it. *)
Steps(V) == [Nat \X V -> V]

(* g is defined by its first value a and by a step. *)
Follows(g, n, a, step, V) ==
    /\ g \in [1 .. n -> V]
    /\ \A i \in 1 .. n : g[i] = IF i = 1 THEN a ELSE step[<<i, g[i - 1]>>]

(* A function is defined by its first value and by a step from each to the    *)
(* next: the least length for which it were not would be a step from the one  *)
(* before.                                                                    *)
LEMMA Recursion ==
    ASSUME NEW V, NEW n \in Nat, NEW a \in V, NEW step \in Steps(V)
    PROVE  \E g : Follows(g, n, a, step, V)
<1> DEFINE Bad == {m \in Nat : ~ \E g : Follows(g, m, a, step, V)}
<1> SUFFICES ASSUME Bad # {} PROVE FALSE
  OBVIOUS
<1>1. PICK m \in Bad : \A k \in Bad : m <= k
  <2>1. Bad \subseteq Nat
    OBVIOUS
  <2> HIDE DEF Bad
  <2>2. QED
    BY <2>1, Least
<1>2. m # 0
  <2> SUFFICES ASSUME m = 0 PROVE FALSE
    OBVIOUS
  <2>1. Follows([i \in 1 .. 0 |-> a], 0, a, step, V)
    BY DEF Follows
  <2>2. QED
    BY <1>1, <2>1
<1>3. m \in Nat /\ m - 1 \in Nat /\ m - 1 \notin Bad
  <2>1. Bad \subseteq Nat
    OBVIOUS
  <2> HIDE DEF Bad
  <2>2. m \in Nat \ {0}
    BY <1>1, <1>2, <2>1
  <2>3. m - 1 \in Nat /\ ~(m <= m - 1)
    BY <2>2
  <2>4. QED
    BY <1>1, <2>2, <2>3
<1>4. PICK g : Follows(g, m - 1, a, step, V)
  BY <1>3
<1> DEFINE last == IF m = 1 THEN a ELSE step[<<m, g[m - 1]>>]
           h == [i \in 1 .. m |-> IF i = m THEN last ELSE g[i]]
<1>5. last \in V
  <2>1. CASE m = 1
    BY <2>1
  <2>2. CASE m # 1
    <3>1. m - 1 \in 1 .. m - 1 /\ m \in Nat
      BY <1>1, <1>2, <2>2
    <3>2. <<m, g[m - 1]>> \in Nat \X V
      BY <1>4, <3>1 DEF Follows
    <3>3. QED
      BY <2>2, <3>2 DEF Steps
  <2>3. QED
    BY <2>1, <2>2
<1> HIDE DEF last
<1>6. h \in [1 .. m -> V]
  <2>1. ASSUME NEW i \in 1 .. m, i # m PROVE g[i] \in V
    <3>1. i \in 1 .. m - 1
      BY <1>3, <2>1
    <3>2. QED
      BY <1>4, <3>1 DEF Follows
  <2>2. QED
    BY <1>5, <2>1
<1>7. ASSUME NEW i \in 1 .. m
      PROVE  h[i] = IF i = 1 THEN a ELSE step[<<i, h[i - 1]>>]
  <2>1. CASE i = m
    <3>1. m # 1 => m - 1 \in 1 .. m /\ m - 1 # m
      BY <1>1, <1>2
    <3>2. QED
      BY <2>1, <3>1 DEF last
  <2>2. CASE i # m
    <3>1. i \in 1 .. m - 1 /\ (i # 1 => i - 1 \in 1 .. m /\ i - 1 # m)
      BY <1>1, <2>2
    <3>2. QED
      BY <1>4, <2>2, <3>1 DEF Follows
  <2>3. QED
    BY <2>1, <2>2
<1>8. Follows(h, m, a, step, V)
  BY <1>6, <1>7 DEF Follows
<1>9. QED
  BY <1>1, <1>8

(* A recursive function of the entries: what it starts with is kept by every  *)
(* step, so that it holds of all of them.                                     *)
LEMMA Induction ==
    ASSUME NEW n \in Nat, NEW S, 1 \in S, \A i \in 1 .. n : i \in S => i + 1 \in S
    PROVE  \A i \in 1 .. n + 1 : i \in S
<1> DEFINE Bad == {i \in 1 .. n + 1 : i \notin S}
<1> SUFFICES ASSUME Bad # {} PROVE FALSE
  OBVIOUS
<1>1. PICK m \in Bad : \A k \in Bad : m <= k
  <2>1. Bad \subseteq Nat
    OBVIOUS
  <2> HIDE DEF Bad
  <2>2. QED
    BY <2>1, Least
<1>2. m \in 1 .. n + 1 /\ m \notin S /\ m # 1
  BY <1>1
<1>3. m - 1 \in 1 .. n /\ m - 1 \in 1 .. n + 1 /\ ~(m <= m - 1) /\ m - 1 + 1 = m
  BY <1>2
<1>4. m - 1 \in S
  BY <1>1, <1>3
<1>5. QED
  BY <1>2, <1>3, <1>4

(* The entries of an archive in memory. *)
LEMMA EntriesOf ==
    ASSUME NEW c \in Archives
    PROVE  /\ c.entries \in Seq(Entries) /\ Len(c.entries) \in Nat
           /\ DOMAIN c.entries = 1 .. Len(c.entries)
           /\ \A i \in 1 .. Len(c.entries) :
                /\ c.entries[i] \in Entries /\ c.entries[i].src \in Nat
                /\ c.entries[i].links \in Seq(Nat) /\ Len(c.entries[i].links) \in Nat
                /\ c.entries[i].id \in Nat /\ c.entries[i].name \in Names
<1>1. c.entries \in Seq(Entries)
  BY DEF Archives
<1>2. \A i \in 1 .. Len(c.entries) : c.entries[i] \in Entries
  BY <1>1
<1>3. QED
  BY <1>1, <1>2, SMTT(30) DEF Entries

(* The offsets the headers are computed from. *)
LEMMA OffsetsStep ==
    ASSUME NEW c \in Archives, NEW start \in Nat
    PROVE  /\ Offsets(c, start) \in [1 .. End(c) -> Nat]
           /\ Offsets(c, start)[1] = start
           /\ \A i \in 1 .. Len(c.entries) :
                Offsets(c, start)[i + 1] = RoundUp(Offsets(c, start)[i] + c.entries[i].src)
<1> DEFINE n == Len(c.entries)
           src == [i \in 1 .. n |-> c.entries[i].src]
           step == [p \in Nat \X Nat |->
                      IF p[1] - 1 \in 1 .. n THEN RoundUp(p[2] + src[p[1] - 1]) ELSE 0]
<1>1. n \in Nat /\ \A i \in 1 .. n : c.entries[i].src \in Nat
  BY EntriesOf
<1> HIDE DEF n
<1>2. step \in Steps(Nat)
  <2>1. src \in [1 .. n -> Nat]
    BY <1>1
  <2> HIDE DEF src
  <2>2. ASSUME NEW p \in Nat \X Nat, p[1] - 1 \in 1 .. n
        PROVE  RoundUp(p[2] + src[p[1] - 1]) \in Nat
    <3>1. p[2] \in Nat /\ src[p[1] - 1] \in Nat
      BY <2>1, <2>2
    <3>2. p[2] + src[p[1] - 1] \in Nat
      BY <3>1
    <3>3. QED
      BY <3>2, PadRounds
  <2>3. QED
    BY <2>2 DEF Steps
<1>3. PICK g \in [1 .. n + 1 -> Nat] :
        \A i \in 1 .. n + 1 : g[i] = IF i = 1 THEN start ELSE step[<<i, g[i - 1]>>]
  <2> HIDE DEF step
  <2> DEFINE k == n + 1
  <2>1. k \in Nat
    BY <1>1
  <2> HIDE DEF k
  <2>2. \E g : Follows(g, k, start, step, Nat)
    BY <1>2, <2>1, Recursion
  <2>3. QED
    BY <2>2 DEF k, Follows
<1>4. \A i \in 1 .. n + 1 :
        g[i] = IF i = 1 THEN start ELSE RoundUp(g[i - 1] + c.entries[i - 1].src)
  <2> SUFFICES ASSUME NEW i \in 1 .. n + 1, i # 1
               PROVE  g[i] = RoundUp(g[i - 1] + c.entries[i - 1].src)
    BY <1>3
  <2>1. i - 1 \in 1 .. n /\ i - 1 \in 1 .. n + 1 /\ i \in Nat
    BY <1>1
  <2>2. <<i, g[i - 1]>> \in Nat \X Nat
    BY <2>1
  <2>3. step[<<i, g[i - 1]>>] = RoundUp(g[i - 1] + src[i - 1])
    BY <2>1, <2>2
  <2>4. src[i - 1] = c.entries[i - 1].src
    BY <2>1
  <2>5. QED
    BY <1>3, <2>3, <2>4
<1>5. g = [i \in 1 .. n + 1 |->
             IF i = 1 THEN start ELSE RoundUp(g[i - 1] + c.entries[i - 1].src)]
  BY <1>3, <1>4
<1>6. 1 \in 1 .. n + 1 /\ \A i \in 1 .. n : i + 1 \in 1 .. n + 1 /\ i + 1 # 1 /\ i + 1 - 1 = i
  BY <1>1
<1>7. Offsets(c, start) \in [1 .. n + 1 -> Nat] /\ \A i \in 1 .. n + 1 : Offsets(c, start)[i] = g[i]
  <2> DEFINE at == CHOOSE at : at = [i \in 1 .. n + 1 |->
                     IF i = 1 THEN start ELSE RoundUp(at[i - 1] + c.entries[i - 1].src)]
  <2>1. Offsets(c, start) = at
    BY DEF Offsets, n
  <2>2. at = [i \in 1 .. n + 1 |-> IF i = 1 THEN start ELSE RoundUp(at[i - 1] + c.entries[i - 1].src)]
    BY <1>5, Zenon
  <2> HIDE DEF at
  <2> DEFINE Same == {i \in 1 .. n + 1 : at[i] = g[i]}
  <2>3. 1 \in Same
    BY <1>3, <1>6, <2>2
  <2>4. ASSUME NEW i \in 1 .. n, i \in Same PROVE i + 1 \in Same
    <3> DEFINE k == i + 1
    <3>1. k \in 1 .. n + 1 /\ k # 1 /\ k - 1 = i
      BY <1>6
    <3> HIDE DEF k
    <3>2. at[k] = RoundUp(at[k - 1] + c.entries[k - 1].src)
      BY <2>2, <3>1
    <3>3. g[k] = RoundUp(g[k - 1] + c.entries[k - 1].src)
      BY <1>4, <3>1
    <3>4. at[k] = g[k]
      BY <2>4, <3>1, <3>2, <3>3
    <3>5. QED
      BY <3>1, <3>4 DEF k
  <2>5. \A i \in 1 .. n + 1 : at[i] = g[i]
    <3> HIDE DEF Same
    <3>1. \A i \in 1 .. n + 1 : i \in Same
      BY <1>1, <2>3, <2>4, Induction
    <3>2. QED
      BY <3>1 DEF Same
  <2>6. DOMAIN at = 1 .. n + 1 /\ at = [i \in DOMAIN at |-> at[i]]
    BY <2>2
  <2>7. \A i \in 1 .. n + 1 : g[i] \in Nat
    BY <1>3
  <2>8. at \in [1 .. n + 1 -> Nat]
    BY <2>5, <2>6, <2>7
  <2>9. QED
    BY <2>1, <2>5, <2>8
<1>8. /\ g \in [1 .. n + 1 -> Nat] /\ g[1] = start
      /\ \A i \in 1 .. n : g[i + 1] = RoundUp(g[i] + c.entries[i].src)
  BY <1>4, <1>6
<1>9. QED
  BY <1>7, <1>8 DEF End, n

(* The index of the first link of every entry. *)
LEMMA LinkStartsStep ==
    ASSUME NEW c \in Archives
    PROVE  /\ LinkStarts(c) \in [1 .. End(c) -> Nat]
           /\ LinkStarts(c)[1] = 0
           /\ \A i \in 1 .. Len(c.entries) :
                LinkStarts(c)[i + 1] = LinkStarts(c)[i] + Len(c.entries[i].links)
<1> DEFINE n == Len(c.entries)
           len == [i \in 1 .. n |-> Len(c.entries[i].links)]
           step == [p \in Nat \X Nat |->
                      IF p[1] - 1 \in 1 .. n THEN p[2] + len[p[1] - 1] ELSE 0]
<1>1. n \in Nat /\ \A i \in 1 .. n : Len(c.entries[i].links) \in Nat
  BY EntriesOf
<1> HIDE DEF n
<1>2. step \in Steps(Nat)
  <2>1. len \in [1 .. n -> Nat]
    BY <1>1
  <2> HIDE DEF len
  <2>2. ASSUME NEW p \in Nat \X Nat, p[1] - 1 \in 1 .. n
        PROVE  p[2] + len[p[1] - 1] \in Nat
    <3>1. p[2] \in Nat /\ len[p[1] - 1] \in Nat
      BY <2>1, <2>2
    <3>2. QED
      BY <3>1
  <2>3. QED
    BY <2>2 DEF Steps
<1>3. PICK g \in [1 .. n + 1 -> Nat] :
        \A i \in 1 .. n + 1 : g[i] = IF i = 1 THEN 0 ELSE step[<<i, g[i - 1]>>]
  <2> HIDE DEF step
  <2> DEFINE k == n + 1
  <2>1. k \in Nat
    BY <1>1
  <2> HIDE DEF k
  <2>2. \E g : Follows(g, k, 0, step, Nat)
    BY <1>2, <2>1, Recursion
  <2>3. QED
    BY <2>2 DEF k, Follows
<1>4. \A i \in 1 .. n + 1 :
        g[i] = IF i = 1 THEN 0 ELSE g[i - 1] + Len(c.entries[i - 1].links)
  <2> SUFFICES ASSUME NEW i \in 1 .. n + 1, i # 1
               PROVE  g[i] = g[i - 1] + Len(c.entries[i - 1].links)
    BY <1>3
  <2>1. i - 1 \in 1 .. n /\ i - 1 \in 1 .. n + 1 /\ i \in Nat
    BY <1>1
  <2>2. <<i, g[i - 1]>> \in Nat \X Nat
    BY <2>1
  <2>3. step[<<i, g[i - 1]>>] = g[i - 1] + len[i - 1]
    BY <2>1, <2>2
  <2>4. len[i - 1] = Len(c.entries[i - 1].links)
    BY <2>1
  <2>5. QED
    BY <1>3, <2>3, <2>4
<1>5. g = [i \in 1 .. n + 1 |->
             IF i = 1 THEN 0 ELSE g[i - 1] + Len(c.entries[i - 1].links)]
  BY <1>3, <1>4
<1>6. 1 \in 1 .. n + 1 /\ \A i \in 1 .. n : i + 1 \in 1 .. n + 1 /\ i + 1 # 1 /\ i + 1 - 1 = i
  BY <1>1
<1>7. LinkStarts(c) \in [1 .. n + 1 -> Nat] /\ \A i \in 1 .. n + 1 : LinkStarts(c)[i] = g[i]
  <2> DEFINE at == CHOOSE at : at = [i \in 1 .. n + 1 |->
                     IF i = 1 THEN 0 ELSE at[i - 1] + Len(c.entries[i - 1].links)]
  <2>1. LinkStarts(c) = at
    BY DEF LinkStarts, n
  <2>2. at = [i \in 1 .. n + 1 |-> IF i = 1 THEN 0 ELSE at[i - 1] + Len(c.entries[i - 1].links)]
    BY <1>5, Zenon
  <2> HIDE DEF at
  <2> DEFINE Same == {i \in 1 .. n + 1 : at[i] = g[i]}
  <2>3. 1 \in Same
    BY <1>3, <1>6, <2>2
  <2>4. ASSUME NEW i \in 1 .. n, i \in Same PROVE i + 1 \in Same
    <3> DEFINE k == i + 1
    <3>1. k \in 1 .. n + 1 /\ k # 1 /\ k - 1 = i
      BY <1>6
    <3> HIDE DEF k
    <3>2. at[k] = at[k - 1] + Len(c.entries[k - 1].links)
      BY <2>2, <3>1
    <3>3. g[k] = g[k - 1] + Len(c.entries[k - 1].links)
      BY <1>4, <3>1
    <3>4. at[k] = g[k]
      BY <2>4, <3>1, <3>2, <3>3
    <3>5. QED
      BY <3>1, <3>4 DEF k
  <2>5. \A i \in 1 .. n + 1 : at[i] = g[i]
    <3> HIDE DEF Same
    <3>1. \A i \in 1 .. n + 1 : i \in Same
      BY <1>1, <2>3, <2>4, Induction
    <3>2. QED
      BY <3>1 DEF Same
  <2>6. DOMAIN at = 1 .. n + 1 /\ at = [i \in DOMAIN at |-> at[i]]
    BY <2>2
  <2>7. \A i \in 1 .. n + 1 : g[i] \in Nat
    BY <1>3
  <2>8. at \in [1 .. n + 1 -> Nat]
    BY <2>5, <2>6, <2>7
  <2>9. QED
    BY <2>1, <2>5, <2>8
<1>8. /\ g \in [1 .. n + 1 -> Nat] /\ g[1] = 0
      /\ \A i \in 1 .. n : g[i + 1] = g[i] + Len(c.entries[i].links)
  BY <1>4, <1>6
<1>9. QED
  BY <1>7, <1>8 DEF End, n

(* The data begins where the headers say. *)
LEMMA StartAgrees ==
    ASSUME NEW c \in Archives
    PROVE  /\ WrittenStart(c) = DataOffset(c) /\ DataOffset(c) \in Nat
           /\ DataOffset(c) % PAD_BYTES = 0 /\ FilesOffset \in Nat
           /\ FilesOffset % PAD_BYTES = 0
           /\ FilesOffset + FileEntrySize * Len(c.entries) <= DataOffset(c)
<1> DEFINE table == FileEntrySize * Len(c.entries)
<1>1. table \in Nat
  BY EntriesOf DEF FileEntrySize
<1> HIDE DEF table
<1>2. FilesOffset = 256
  BY SMT DEF FilesOffset, RoundUp, HeaderSize, SectionSize, PAD_BYTES
<1>3. HeaderSize + SinkPad(HeaderSize) + 2 * SectionSize + SinkPad(2 * SectionSize) = 256
  BY SMT DEF SinkPad, HeaderSize, SectionSize, PAD_BYTES
<1>4. table + SinkPad(table) = RoundUp(table) /\ SinkPad(table) \in Nat /\ RoundUp(table) \in Nat
      /\ RoundUp(table) % PAD_BYTES = 0
  BY <1>1, PadRounds
<1>5. 256 % PAD_BYTES = 0
  BY SMT DEF PAD_BYTES
<1>6. DataOffset(c) = 256 + RoundUp(table)
  <2>1. DataOffset(c) = RoundUp(256 + table)
    BY <1>2 DEF DataOffset, table
  <2>2. RoundUp(256 + table) = 256 + RoundUp(table)
    BY <1>1, <1>5, RoundedFrom
  <2>3. QED
    BY <2>1, <2>2
<1>7. WrittenStart(c) = 256 + table + SinkPad(table)
  BY <1>3 DEF WrittenStart, table
<1>8. (256 + RoundUp(table)) % PAD_BYTES = 0
  BY <1>4, <1>5, SumOfMultiples
<1>9. 256 + table <= 256 + RoundUp(table)
  BY <1>1, <1>4
<1>10. QED
  <2>1. WrittenStart(c) = DataOffset(c) /\ DataOffset(c) \in Nat
    BY <1>1, <1>4, <1>6, <1>7
  <2>2. FilesOffset + FileEntrySize * Len(c.entries) <= DataOffset(c)
    BY <1>2, <1>6, <1>9 DEF table
  <2>3. QED
    BY <1>2, <1>5, <1>6, <1>8, <2>1, <2>2

(* Where the sink is. *)
LEMMA WrittenStep ==
    ASSUME NEW c \in Archives
    PROVE  /\ Written(c) \in [1 .. End(c) -> Nat]
           /\ Written(c)[1] = WrittenStart(c)
           /\ \A i \in 1 .. Len(c.entries) :
                Written(c)[i + 1] = Written(c)[i] + c.entries[i].src + SinkPad(c.entries[i].src)
<1> DEFINE n == Len(c.entries)
           src == [i \in 1 .. n |-> c.entries[i].src]
           step == [p \in Nat \X Nat |->
                      IF p[1] - 1 \in 1 .. n THEN p[2] + src[p[1] - 1] + SinkPad(src[p[1] - 1]) ELSE 0]
<1>1. n \in Nat /\ \A i \in 1 .. n : c.entries[i].src \in Nat
  BY EntriesOf
<1> HIDE DEF n
<1>2. step \in Steps(Nat)
  <2>1. src \in [1 .. n -> Nat]
    BY <1>1
  <2> HIDE DEF src
  <2>2. ASSUME NEW p \in Nat \X Nat, p[1] - 1 \in 1 .. n
        PROVE  p[2] + src[p[1] - 1] + SinkPad(src[p[1] - 1]) \in Nat
    <3>1. p[2] \in Nat /\ src[p[1] - 1] \in Nat
      BY <2>1, <2>2
    <3> DEFINE x == p[2]
               y == src[p[1] - 1]
    <3> HIDE DEF x, y
    <3>2. x \in Nat /\ y \in Nat
      BY <3>1 DEF x, y
    <3>3. SinkPad(y) \in Nat
      BY <3>2, PadRounds
    <3>4. x + y + SinkPad(y) \in Nat
      BY <3>2, <3>3
    <3>5. QED
      BY <3>4 DEF x, y
  <2>3. QED
    BY <2>2 DEF Steps
<1>3. PICK g \in [1 .. n + 1 -> Nat] :
        \A i \in 1 .. n + 1 : g[i] = IF i = 1 THEN WrittenStart(c) ELSE step[<<i, g[i - 1]>>]
  <2> HIDE DEF step
  <2> DEFINE k == n + 1
  <2>1. k \in Nat
    BY <1>1
  <2> HIDE DEF k
  <2>2. \E g : Follows(g, k, WrittenStart(c), step, Nat)
    BY <1>2, <2>1, StartAgrees, Recursion
  <2>3. QED
    BY <2>2 DEF k, Follows
<1>4. \A i \in 1 .. n + 1 :
        g[i] = IF i = 1 THEN WrittenStart(c) ELSE g[i - 1] + c.entries[i - 1].src + SinkPad(c.entries[i - 1].src)
  <2> SUFFICES ASSUME NEW i \in 1 .. n + 1, i # 1
               PROVE  g[i] = g[i - 1] + c.entries[i - 1].src + SinkPad(c.entries[i - 1].src)
    BY <1>3
  <2>1. i - 1 \in 1 .. n /\ i - 1 \in 1 .. n + 1 /\ i \in Nat
    BY <1>1
  <2>2. <<i, g[i - 1]>> \in Nat \X Nat
    BY <2>1
  <2>3. step[<<i, g[i - 1]>>] = g[i - 1] + src[i - 1] + SinkPad(src[i - 1])
    BY <2>1, <2>2
  <2>4. src[i - 1] = c.entries[i - 1].src
    BY <2>1
  <2>5. QED
    BY <1>3, <2>3, <2>4
<1>5. g = [i \in 1 .. n + 1 |->
             IF i = 1 THEN WrittenStart(c) ELSE g[i - 1] + c.entries[i - 1].src + SinkPad(c.entries[i - 1].src)]
  BY <1>3, <1>4
<1>6. 1 \in 1 .. n + 1 /\ \A i \in 1 .. n : i + 1 \in 1 .. n + 1 /\ i + 1 # 1 /\ i + 1 - 1 = i
  BY <1>1
<1>7. Written(c) \in [1 .. n + 1 -> Nat] /\ \A i \in 1 .. n + 1 : Written(c)[i] = g[i]
  <2> DEFINE at == CHOOSE at : at = [i \in 1 .. n + 1 |->
                     IF i = 1 THEN WrittenStart(c) ELSE at[i - 1] + c.entries[i - 1].src + SinkPad(c.entries[i - 1].src)]
  <2>1. Written(c) = at
    BY DEF Written, n
  <2>2. at = [i \in 1 .. n + 1 |-> IF i = 1 THEN WrittenStart(c) ELSE at[i - 1] + c.entries[i - 1].src + SinkPad(c.entries[i - 1].src)]
    BY <1>5, Zenon
  <2> HIDE DEF at
  <2> DEFINE Same == {i \in 1 .. n + 1 : at[i] = g[i]}
  <2>3. 1 \in Same
    BY <1>3, <1>6, <2>2
  <2>4. ASSUME NEW i \in 1 .. n, i \in Same PROVE i + 1 \in Same
    <3> DEFINE k == i + 1
    <3>1. k \in 1 .. n + 1 /\ k # 1 /\ k - 1 = i
      BY <1>6
    <3> HIDE DEF k
    <3>2. at[k] = at[k - 1] + c.entries[k - 1].src + SinkPad(c.entries[k - 1].src)
      BY <2>2, <3>1
    <3>3. g[k] = g[k - 1] + c.entries[k - 1].src + SinkPad(c.entries[k - 1].src)
      BY <1>4, <3>1
    <3>4. at[k] = g[k]
      BY <2>4, <3>1, <3>2, <3>3
    <3>5. QED
      BY <3>1, <3>4 DEF k
  <2>5. \A i \in 1 .. n + 1 : at[i] = g[i]
    <3> HIDE DEF Same
    <3>1. \A i \in 1 .. n + 1 : i \in Same
      BY <1>1, <2>3, <2>4, Induction
    <3>2. QED
      BY <3>1 DEF Same
  <2>6. DOMAIN at = 1 .. n + 1 /\ at = [i \in DOMAIN at |-> at[i]]
    BY <2>2
  <2>7. \A i \in 1 .. n + 1 : g[i] \in Nat
    BY <1>3
  <2>8. at \in [1 .. n + 1 -> Nat]
    BY <2>5, <2>6, <2>7
  <2>9. QED
    BY <2>1, <2>5, <2>8
<1>8. /\ g \in [1 .. n + 1 -> Nat] /\ g[1] = WrittenStart(c)
      /\ \A i \in 1 .. n : g[i + 1] = g[i] + c.entries[i].src + SinkPad(c.entries[i].src)
  BY <1>4, <1>6
<1>9. QED
  BY <1>7, <1>8 DEF End, n

-----------------------------------------------------------------------------
(* The layout *)

(* The offsets are those from 0, moved; the sink is at the same, and at a     *)
(* multiple of the padding.                                                   *)
LEMMA Moved ==
    ASSUME NEW c \in Archives, NEW start \in Nat, start % PAD_BYTES = 0
    PROVE  \A i \in 1 .. End(c) : Offsets(c, start)[i] = start + Offsets(c, 0)[i]
<1> DEFINE n == Len(c.entries)
           S == {i \in 1 .. n + 1 : Offsets(c, start)[i] = start + Offsets(c, 0)[i]}
<1>1. n \in Nat /\ \A i \in 1 .. n : c.entries[i].src \in Nat
  BY EntriesOf
<1>2. /\ Offsets(c, start)[1] = start /\ Offsets(c, 0)[1] = 0
      /\ \A i \in 1 .. n + 1 : Offsets(c, start)[i] \in Nat /\ Offsets(c, 0)[i] \in Nat
      /\ \A i \in 1 .. n :
           /\ Offsets(c, start)[i + 1] = RoundUp(Offsets(c, start)[i] + c.entries[i].src)
           /\ Offsets(c, 0)[i + 1] = RoundUp(Offsets(c, 0)[i] + c.entries[i].src)
  <2>1. ASSUME NEW s \in Nat
        PROVE  /\ Offsets(c, s) \in [1 .. n + 1 -> Nat] /\ Offsets(c, s)[1] = s
               /\ \A i \in 1 .. n :
                    Offsets(c, s)[i + 1] = RoundUp(Offsets(c, s)[i] + c.entries[i].src)
    BY OffsetsStep DEF End
  <2>2. 0 \in Nat
    OBVIOUS
  <2> DEFINE f == Offsets(c, start)
             g == Offsets(c, 0)
  <2>3. /\ f \in [1 .. n + 1 -> Nat] /\ f[1] = start
        /\ \A i \in 1 .. n : f[i + 1] = RoundUp(f[i] + c.entries[i].src)
    BY <2>1
  <2>4. /\ g \in [1 .. n + 1 -> Nat] /\ g[1] = 0
        /\ \A i \in 1 .. n : g[i + 1] = RoundUp(g[i] + c.entries[i].src)
    BY <2>1, <2>2
  <2> HIDE DEF n, f, g
  <2>5. QED
    BY <2>3, <2>4 DEF f, g
<1> HIDE DEF n
<1>3. 1 \in S
  BY <1>1, <1>2
<1>4. ASSUME NEW i \in 1 .. n, i \in S PROVE i + 1 \in S
  <2>1. i \in 1 .. n + 1 /\ i + 1 \in 1 .. n + 1
    BY <1>1
  <2> DEFINE x == Offsets(c, 0)[i]
             src == c.entries[i].src
  <2>2. x \in Nat /\ src \in Nat /\ Offsets(c, start)[i] = start + x
    BY <1>1, <1>2, <1>4, <2>1
  <2>3. /\ Offsets(c, start)[i + 1] = RoundUp(Offsets(c, start)[i] + src)
        /\ Offsets(c, 0)[i + 1] = RoundUp(x + src)
    BY <1>2
  <2> HIDE DEF x, src
  <2>4. RoundUp(start + (x + src)) = start + RoundUp(x + src)
    BY <2>2, RoundedFrom
  <2>5. start + x + src = start + (x + src)
    BY <2>2
  <2>6. QED
    BY <2>1, <2>2, <2>3, <2>4, <2>5
<1>5. \A i \in 1 .. n + 1 : i \in S
  <2> HIDE DEF S
  <2>1. QED
    BY <1>1, <1>3, <1>4, Induction
<1>6. QED
  BY <1>5 DEF End, n

(* The sink writes data where the headers say that it is.                    *)
LEMMA WrittenAt ==
    ASSUME NEW c \in Archives
    PROVE  \A i \in 1 .. End(c) : Written(c)[i] = DataOffset(c) + Offsets(c, 0)[i]
<1> DEFINE n == Len(c.entries)
           start == DataOffset(c)
           S == {i \in 1 .. n + 1 : /\ Written(c)[i] = Offsets(c, start)[i]
                                    /\ Written(c)[i] % PAD_BYTES = 0}
<1>1. n \in Nat /\ \A i \in 1 .. n : c.entries[i].src \in Nat
  BY EntriesOf
<1>2. start \in Nat /\ start % PAD_BYTES = 0 /\ WrittenStart(c) = start
  BY StartAgrees
<1> HIDE DEF start
<1>3. /\ Offsets(c, start)[1] = start /\ Written(c)[1] = start
      /\ \A i \in 1 .. n + 1 : Offsets(c, start)[i] \in Nat /\ Written(c)[i] \in Nat
      /\ \A i \in 1 .. n :
           /\ Offsets(c, start)[i + 1] = RoundUp(Offsets(c, start)[i] + c.entries[i].src)
           /\ Written(c)[i + 1] = Written(c)[i] + c.entries[i].src + SinkPad(c.entries[i].src)
  <2>1. /\ Offsets(c, start) \in [1 .. n + 1 -> Nat] /\ Offsets(c, start)[1] = start
        /\ \A i \in 1 .. n :
             Offsets(c, start)[i + 1] = RoundUp(Offsets(c, start)[i] + c.entries[i].src)
    BY <1>2, OffsetsStep DEF End
  <2>2. /\ Written(c) \in [1 .. n + 1 -> Nat] /\ Written(c)[1] = WrittenStart(c)
        /\ \A i \in 1 .. n :
             Written(c)[i + 1] = Written(c)[i] + c.entries[i].src + SinkPad(c.entries[i].src)
    BY WrittenStep DEF End
  <2> HIDE DEF n
  <2>3. QED
    BY <1>2, <2>1, <2>2
<1> HIDE DEF n
<1>4. 1 \in S
  BY <1>1, <1>2, <1>3
<1>5. ASSUME NEW i \in 1 .. n, i \in S PROVE i + 1 \in S
  <2>1. i \in 1 .. n + 1 /\ i + 1 \in 1 .. n + 1
    BY <1>1
  <2> DEFINE x == Written(c)[i]
             src == c.entries[i].src
  <2>2. x \in Nat /\ src \in Nat /\ Offsets(c, start)[i] = x /\ x % PAD_BYTES = 0
    BY <1>1, <1>3, <1>5, <2>1
  <2>3. /\ Offsets(c, start)[i + 1] = RoundUp(x + src)
        /\ Written(c)[i + 1] = x + src + SinkPad(src)
    BY <1>3, <2>2
  <2> HIDE DEF x, src
  <2>4. RoundUp(x + src) = x + RoundUp(src) /\ SinkPad(src) \in Nat
        /\ src + SinkPad(src) = RoundUp(src) /\ RoundUp(src) % PAD_BYTES = 0
        /\ RoundUp(src) \in Nat
    BY <2>2, RoundedFrom, PadRounds
  <2>5. (x + RoundUp(src)) % PAD_BYTES = 0
    BY <2>2, <2>4, SumOfMultiples
  <2>6. x + src + SinkPad(src) = x + RoundUp(src)
    BY <2>2, <2>4
  <2>7. QED
    BY <2>1, <2>3, <2>4, <2>5, <2>6
<1>6. \A i \in 1 .. n + 1 : i \in S
  <2> HIDE DEF S
  <2>1. QED
    BY <1>1, <1>4, <1>5, Induction
<1>7. \A i \in 1 .. n + 1 : Offsets(c, start)[i] = start + Offsets(c, 0)[i]
  BY <1>2, Moved DEF End, n
<1>8. QED
  BY <1>6, <1>7 DEF End, n, start

(* What grows from each index to the next grows over any distance.           *)
LEMMA Growing ==
    ASSUME NEW n \in Nat, NEW f \in [1 .. n + 1 -> Nat], \A i \in 1 .. n : f[i] <= f[i + 1]
    PROVE  \A i \in 1 .. n + 1 : \A j \in 1 .. i : f[j] <= f[i]
<1> DEFINE S == {i \in 1 .. n + 1 : \A j \in 1 .. i : f[j] <= f[i]}
<1>1. 1 \in S
  <2>1. 1 \in 1 .. n + 1 /\ 1 .. 1 = {1}
    OBVIOUS
  <2>2. f[1] \in Nat
    BY <2>1
  <2>3. QED
    BY <2>1, <2>2
<1>2. ASSUME NEW i \in 1 .. n, i \in S PROVE i + 1 \in S
  <2>1. i + 1 \in 1 .. n + 1
    OBVIOUS
  <2>2. ASSUME NEW j \in 1 .. i + 1 PROVE f[j] <= f[i + 1]
    <3>1. j \in 1 .. n + 1 /\ i \in 1 .. n + 1
      OBVIOUS
    <3>2. f[j] \in Nat /\ f[i] \in Nat /\ f[i + 1] \in Nat /\ f[i] <= f[i + 1]
      BY <2>1, <3>1
    <3>3. CASE j = i + 1
      BY <3>2, <3>3
    <3>4. CASE j # i + 1
      <4>1. j \in 1 .. i
        BY <3>4
      <4>2. f[j] <= f[i]
        BY <1>2, <4>1
      <4>3. QED
        BY <3>2, <4>2
    <3>5. QED
      BY <3>3, <3>4
  <2>3. QED
    BY <2>1, <2>2
<1>3. \A i \in 1 .. n + 1 : i \in S
  <2> HIDE DEF S
  <2>1. QED
    BY <1>1, <1>2, Induction
<1>4. QED
  BY <1>3

(* The data of an entry ends before that of the next begins, and where the    *)
(* data ends.                                                                 *)
LEMMA DataInOrder ==
    ASSUME NEW c \in Archives
    PROVE  /\ Offsets(c, 0)[End(c)] \in Nat
           /\ \A i \in DOMAIN c.entries : \A j \in i + 1 .. End(c) :
                /\ Offsets(c, 0)[i] \in Nat /\ Offsets(c, 0)[j] \in Nat
                /\ Offsets(c, 0)[i] + c.entries[i].src <= Offsets(c, 0)[j]
<1> DEFINE n == Len(c.entries)
           f == Offsets(c, 0)
<1>1. n \in Nat /\ DOMAIN c.entries = 1 .. n /\ \A i \in 1 .. n : c.entries[i].src \in Nat
  BY EntriesOf
<1>2. /\ f \in [1 .. n + 1 -> Nat]
      /\ \A i \in 1 .. n : f[i + 1] = RoundUp(f[i] + c.entries[i].src)
  BY OffsetsStep DEF End
<1> HIDE DEF n, f
<1>3. ASSUME NEW i \in 1 .. n PROVE f[i] \in Nat /\ f[i] + c.entries[i].src <= f[i + 1]
  <2>1. f[i] \in Nat /\ c.entries[i].src \in Nat
    BY <1>1, <1>2
  <2>2. f[i] + c.entries[i].src <= RoundUp(f[i] + c.entries[i].src)
    <3> DEFINE x == f[i] + c.entries[i].src
    <3>1. x \in Nat
      BY <2>1
    <3> HIDE DEF x
    <3>2. QED
      BY <3>1, PadRounds DEF x
  <2>3. QED
    BY <1>2, <2>1, <2>2
<1>4. \A i \in 1 .. n : f[i] <= f[i + 1]
  <2> SUFFICES ASSUME NEW i \in 1 .. n PROVE f[i] <= f[i + 1]
    OBVIOUS
  <2>1. c.entries[i].src \in Nat /\ i + 1 \in 1 .. n + 1
    BY <1>1
  <2>2. f[i + 1] \in Nat
    BY <1>2, <2>1
  <2>3. QED
    BY <1>3, <2>1, <2>2
<1>5. \A i \in 1 .. n + 1 : \A j \in 1 .. i : f[j] <= f[i]
  BY <1>1, <1>2, <1>4, Growing
<1>6. ASSUME NEW i \in 1 .. n, NEW j \in i + 1 .. n + 1
      PROVE  f[i] \in Nat /\ f[j] \in Nat /\ f[i] + c.entries[i].src <= f[j]
  <2>1. i + 1 \in 1 .. j /\ j \in 1 .. n + 1 /\ i + 1 \in 1 .. n + 1
    BY <1>1
  <2>2. f[j] \in Nat /\ f[i + 1] \in Nat /\ f[i + 1] <= f[j]
    BY <1>2, <1>5, <2>1
  <2>3. c.entries[i].src \in Nat
    BY <1>1
  <2>4. QED
    BY <1>3, <2>2, <2>3
<1>7. f[n + 1] \in Nat
  BY <1>1, <1>2
<1>8. QED
  BY <1>1, <1>6, <1>7 DEF f, n, End

(* \o under a name, for the provers. *)
Join(x, y) == x \o y

(* A concatenation has the first sequence in place, the second behind it.    *)
LEMMA Joined ==
    ASSUME NEW V, NEW a \in Seq(V), NEW b \in Seq(V)
    PROVE  /\ Join(a, b) \in Seq(V) /\ Len(Join(a, b)) = Len(a) + Len(b)
           /\ \A i \in 1 .. Len(a) : i \in 1 .. Len(Join(a, b)) /\ Join(a, b)[i] = a[i]
           /\ \A j \in 1 .. Len(b) :
                Len(a) + j \in 1 .. Len(Join(a, b)) /\ Join(a, b)[Len(a) + j] = b[j]
BY DEF Join

(* at says where every one of n sequences begins when they follow each other. *)
Laid(V, n, seqs, at) ==
    /\ n \in Nat /\ seqs \in [1 .. n -> Seq(V)]
    /\ at \in [1 .. n + 1 -> Nat] /\ at[1] = 0
    /\ \A i \in 1 .. n : at[i + 1] = at[i] + Len(seqs[i])

(* The concatenation of sequences has each of them where the lengths of those *)
(* before it say.                                                             *)
LEMMA Flattened ==
    ASSUME NEW V, NEW n, NEW seqs, NEW at, Laid(V, n, seqs, at)
    PROVE  /\ FlattenSeq(seqs) \in Seq(V)
           /\ Len(FlattenSeq(seqs)) = at[n + 1]
           /\ \A i \in 1 .. n : \A j \in 1 .. Len(seqs[i]) :
                /\ at[i] + j \in 1 .. Len(FlattenSeq(seqs))
                /\ FlattenSeq(seqs)[at[i] + j] = seqs[i][j]
<1> SUFFICES ASSUME n \in Nat, seqs \in [1 .. n -> Seq(V)],
                    at \in [1 .. n + 1 -> Nat], at[1] = 0,
                    \A i \in 1 .. n : at[i + 1] = at[i] + Len(seqs[i])
             PROVE  /\ FlattenSeq(seqs) \in Seq(V)
                    /\ Len(FlattenSeq(seqs)) = at[n + 1]
                    /\ \A i \in 1 .. n : \A j \in 1 .. Len(seqs[i]) :
                         /\ at[i] + j \in 1 .. Len(FlattenSeq(seqs))
                         /\ FlattenSeq(seqs)[at[i] + j] = seqs[i][j]
  BY DEF Laid
<1>1. seqs \in Seq(Seq(V)) /\ Len(seqs) = n
  OBVIOUS
<1>2. CASE n = 0
  <2>1. FlattenSeq(seqs) = seqs /\ Len(seqs) = 0 /\ 1 .. n = {}
    BY <1>1, <1>2 DEF FlattenSeq
  <2>2. seqs = <<>>
    BY <1>1, <2>1
  <2>3. QED
    BY <1>2, <2>1, <2>2
<1>3. CASE n # 0
  <2> DEFINE step == [p \in Nat \X Seq(V) |->
                        IF p[1] \in 1 .. n THEN p[2] \o seqs[p[1]] ELSE <<>>]
  <2>1. step \in Steps(Seq(V))
    <3>1. ASSUME NEW p \in Nat \X Seq(V), p[1] \in 1 .. n PROVE p[2] \o seqs[p[1]] \in Seq(V)
      <4>1. p[2] \in Seq(V) /\ seqs[p[1]] \in Seq(V)
        BY <3>1
      <4>2. QED
        BY <4>1
    <3>2. QED
      BY <3>1 DEF Steps
  <2>2. seqs[1] \in Seq(V) /\ 1 \in 1 .. n
    BY <1>3
  <2>3. PICK flat : Follows(flat, n, seqs[1], step, Seq(V))
    <3> HIDE DEF step
    <3>1. QED
      BY <2>1, <2>2, Recursion
  <2>4. \A i \in 1 .. n : flat[i] = IF i = 1 THEN seqs[i] ELSE Join(flat[i - 1], seqs[i])
    <3> SUFFICES ASSUME NEW i \in 1 .. n, i # 1 PROVE flat[i] = Join(flat[i - 1], seqs[i])
      BY <2>3 DEF Follows
    <3>1. i - 1 \in 1 .. n /\ i \in Nat
      OBVIOUS
    <3> DEFINE x == flat[i - 1]
    <3>2. x \in Seq(V) /\ flat[i] = step[<<i, x>>]
      <4> HIDE DEF step
      <4>1. flat \in [1 .. n -> Seq(V)]
        BY <2>3 DEF Follows
      <4>2. flat[i] = step[<<i, flat[i - 1]>>]
        BY <2>3 DEF Follows
      <4>3. QED
        BY <3>1, <4>1, <4>2
    <3> HIDE DEF x
    <3>3. <<i, x>> \in Nat \X Seq(V)
      BY <3>1, <3>2
    <3>4. step[<<i, x>>] = Join(x, seqs[i])
      BY <3>3 DEF Join
    <3>5. QED
      BY <3>2, <3>4 DEF x
  <2>5. flat \in [1 .. n -> Seq(V)]
    BY <2>3 DEF Follows
  <2>6. flat = [i \in 1 .. n |-> IF i = 1 THEN seqs[i] ELSE flat[i - 1] \o seqs[i]]
    BY <2>4, <2>5 DEF Join
  <2>7. FlattenSeq(seqs) = flat[n]
    <3> DEFINE F == CHOOSE f : f = [i \in 1 .. Len(seqs) |->
                                      IF i = 1 THEN seqs[i] ELSE f[i - 1] \o seqs[i]]
    <3>1. FlattenSeq(seqs) = F[n]
      BY <1>1, <1>3 DEF FlattenSeq
    <3>2. flat = [i \in 1 .. Len(seqs) |->
                    IF i = 1 THEN seqs[i] ELSE flat[i - 1] \o seqs[i]]
      BY <1>1, <2>6, Zenon
    <3>3. F = [i \in 1 .. Len(seqs) |-> IF i = 1 THEN seqs[i] ELSE F[i - 1] \o seqs[i]]
      BY <3>2, Zenon
    <3> HIDE DEF F
    <3>4. \A i \in 1 .. n : F[i] = IF i = 1 THEN seqs[i] ELSE Join(F[i - 1], seqs[i])
      BY <1>1, <3>3 DEF Join
    <3> DEFINE Same == {i \in 1 .. n : F[i] = flat[i]}
    <3>5. 1 \in Same
      BY <2>2, <2>4, <3>4
    <3>6. ASSUME NEW i \in 1 .. n - 1, i \in Same PROVE i + 1 \in Same
      <4>1. i + 1 \in 1 .. n /\ i + 1 # 1 /\ i + 1 - 1 = i
        OBVIOUS
      <4> DEFINE k == i + 1
      <4> HIDE DEF k
      <4>2. k \in 1 .. n /\ k # 1 /\ k - 1 = i
        BY <4>1 DEF k
      <4>3. F[k] = Join(F[k - 1], seqs[k]) /\ flat[k] = Join(flat[k - 1], seqs[k])
        BY <2>4, <3>4, <4>2
      <4>4. QED
        BY <3>6, <4>2, <4>3 DEF k
    <3>7. n - 1 \in Nat /\ n - 1 + 1 = n /\ n \in 1 .. n
      BY <1>3
    <3>8. n \in Same
      <4> HIDE DEF Same
      <4>1. \A i \in 1 .. n - 1 + 1 : i \in Same
        BY <3>5, <3>6, <3>7, Induction
      <4>2. QED
        BY <3>7, <4>1
    <3>9. QED
      BY <3>1, <3>8
  <2> HIDE DEF step
  <2> DEFINE S == {i \in 1 .. n :
                     /\ Len(flat[i]) = at[i + 1]
                     /\ \A k \in 1 .. i : \A j \in 1 .. Len(seqs[k]) :
                          /\ at[k] + j \in 1 .. Len(flat[i])
                          /\ flat[i][at[k] + j] = seqs[k][j]}
  <2>8. 1 \in S
    <3>1. flat[1] = seqs[1] /\ Len(seqs[1]) \in Nat /\ at[2] = Len(seqs[1])
      BY <2>2, <2>4
    <3>2. ASSUME NEW k \in 1 .. 1, NEW j \in 1 .. Len(seqs[k])
          PROVE  at[k] + j \in 1 .. Len(flat[1]) /\ flat[1][at[k] + j] = seqs[k][j]
      <4>1. k = 1 /\ 0 + j = j /\ at[k] = 0
        BY <3>1
      <4>2. QED
        BY <3>1, <4>1
    <3>3. QED
      BY <2>2, <3>1, <3>2
  <2>9. ASSUME NEW i \in 1 .. n - 1, i \in S PROVE i + 1 \in S
    <3>1. i + 1 \in 1 .. n /\ i \in 1 .. n /\ i + 1 # 1 /\ i + 1 - 1 = i /\ i + 1 + 1 \in 1 .. n + 1
          /\ i + 1 \in 1 .. n + 1
      OBVIOUS
    <3> DEFINE x == flat[i]
               y == seqs[i + 1]
    <3>2. x \in Seq(V) /\ y \in Seq(V) /\ flat[i + 1] = Join(x, y) /\ Len(x) = at[i + 1]
          /\ at[i + 1 + 1] = at[i + 1] + Len(y) /\ at[i + 1] \in Nat
      <4>1. x \in Seq(V) /\ y \in Seq(V) /\ at[i + 1] \in Nat
        BY <2>5, <3>1
      <4>2. flat[i + 1] = Join(x, y)
        BY <2>4, <3>1
      <4>3. Len(x) = at[i + 1] /\ at[i + 1 + 1] = at[i + 1] + Len(y)
        BY <2>9, <3>1
      <4>4. QED
        BY <4>1, <4>2, <4>3
    <3>a. /\ Len(Join(x, y)) = Len(x) + Len(y)
          /\ \A k \in 1 .. Len(x) : k \in 1 .. Len(Join(x, y)) /\ Join(x, y)[k] = x[k]
          /\ \A j \in 1 .. Len(y) :
               Len(x) + j \in 1 .. Len(Join(x, y)) /\ Join(x, y)[Len(x) + j] = y[j]
      <4> HIDE DEF x, y
      <4>1. x \in Seq(V) /\ y \in Seq(V)
        BY <3>2
      <4>2. QED
        BY <4>1, Joined, SMTT(30)
    <3>3. ASSUME NEW k \in 1 .. i + 1, NEW j \in 1 .. Len(seqs[k])
          PROVE  at[k] + j \in 1 .. Len(Join(x, y)) /\ Join(x, y)[at[k] + j] = seqs[k][j]
      <4>1. k \in 1 .. n /\ at[k] \in Nat /\ j \in Nat
        BY <3>1, SMTT(30)
      <4>2. CASE k = i + 1
        <5>1. at[k] = Len(x) /\ seqs[k] = y /\ j \in 1 .. Len(y)
          BY <3>2, <3>3, <4>2
        <5> HIDE DEF x, y
        <5>2. Len(x) + j \in 1 .. Len(Join(x, y)) /\ Join(x, y)[Len(x) + j] = y[j]
          BY <3>2, <5>1, <3>a
        <5>3. QED
          BY <5>1, <5>2
      <4>3. CASE k # i + 1
        <5>1. k \in 1 .. i
          BY <4>3
        <5>2. at[k] + j \in 1 .. Len(x) /\ x[at[k] + j] = seqs[k][j]
          BY <2>9, <5>1
        <5> DEFINE q == at[k] + j
        <5> HIDE DEF x, y, q
        <5>3. q \in 1 .. Len(Join(x, y)) /\ Join(x, y)[q] = x[q]
          BY <3>2, <5>2, <3>a DEF q
        <5>4. QED
          BY <5>2, <5>3 DEF q
      <4>4. QED
        BY <4>2, <4>3
    <3>4. Len(Join(x, y)) = at[i + 1 + 1]
      <4> HIDE DEF x, y
      <4>1. QED
        BY <3>2, <3>a
    <3>5. /\ Len(flat[i + 1]) = at[i + 1 + 1]
          /\ \A k \in 1 .. i + 1 : \A j \in 1 .. Len(seqs[k]) :
               at[k] + j \in 1 .. Len(flat[i + 1]) /\ flat[i + 1][at[k] + j] = seqs[k][j]
      <4> HIDE DEF x, y
      <4>1. QED
        BY <3>2, <3>3, <3>4
    <3>6. QED
      BY <3>1, <3>5
  <2>10. n \in S
    <3> HIDE DEF S
    <3>1. n - 1 \in Nat /\ n - 1 + 1 = n
      BY <1>3
    <3>2. \A i \in 1 .. n - 1 + 1 : i \in S
      BY <2>8, <2>9, <3>1, Induction
    <3>3. QED
      BY <1>3, <3>1, <3>2
  <2>11. n \in 1 .. n /\ flat[n] \in Seq(V)
    BY <1>3, <2>5
  <2>12. QED
    BY <2>7, <2>10, <2>11
<1>4. QED
  BY <1>2, <1>3

(* The links of an entry are in the list behind those of the entries before.  *)
LEMMA LinkList ==
    ASSUME NEW c \in Archives
    PROVE  /\ Len(LinkEntries(c)) = LinkStarts(c)[End(c)]
           /\ LinkStarts(c)[End(c)] \in Nat
           /\ \A i \in DOMAIN c.entries : \A j \in DOMAIN c.entries[i].links :
                /\ LinkStarts(c)[i] \in Nat
                /\ LinkStarts(c)[i] + j \in 1 .. Len(LinkEntries(c))
                /\ LinkEntries(c)[LinkStarts(c)[i] + j] =
                     [linked_file_id |-> IndexOf(c, c.entries[i].links[j]), link_id |-> j - 1]
<1> DEFINE n == Len(c.entries)
           link(i, j) == [linked_file_id |-> IndexOf(c, c.entries[i].links[j]),
                          link_id |-> j - 1]
           seqs == [i \in 1 .. n |-> [j \in 1 .. Len(c.entries[i].links) |-> link(i, j)]]
           at == LinkStarts(c)
           V == {link(p[1], p[2]) : p \in (1 .. n) \X Nat}
<1>1. /\ n \in Nat /\ DOMAIN c.entries = 1 .. n
      /\ \A i \in 1 .. n : /\ Len(c.entries[i].links) \in Nat
                           /\ DOMAIN c.entries[i].links = 1 .. Len(c.entries[i].links)
  BY EntriesOf
<1>2. /\ at \in [1 .. n + 1 -> Nat] /\ at[1] = 0
      /\ \A i \in 1 .. n : at[i + 1] = at[i] + Len(c.entries[i].links)
  BY LinkStartsStep DEF End
<1>3. LinkEntries(c) = FlattenSeq(seqs)
  BY <1>1 DEF LinkEntries
<1> HIDE DEF n, at
<1>4. ASSUME NEW i \in 1 .. n
      PROVE  /\ seqs[i] \in Seq(V) /\ Len(seqs[i]) = Len(c.entries[i].links)
             /\ \A j \in 1 .. Len(seqs[i]) : seqs[i][j] = link(i, j)
  <2> DEFINE k == Len(c.entries[i].links)
  <2>1. k \in Nat /\ seqs[i] = [j \in 1 .. k |-> link(i, j)]
    BY <1>1
  <2> HIDE DEF link, k
  <2>2. ASSUME NEW j \in 1 .. k PROVE link(i, j) \in V
    <3>1. <<i, j>> \in (1 .. n) \X Nat /\ <<i, j>>[1] = i /\ <<i, j>>[2] = j
      BY <2>1
    <3>2. QED
      BY <3>1
  <2> HIDE DEF V
  <2>3. seqs[i] \in Seq(V) /\ Len(seqs[i]) = k /\ \A j \in 1 .. k : seqs[i][j] = link(i, j)
    BY <2>1, <2>2
  <2>4. QED
    BY <2>3 DEF k
<1>5. DOMAIN seqs = 1 .. n
  OBVIOUS
<1>6. seqs = [i \in 1 .. n |-> seqs[i]]
  OBVIOUS
<1> HIDE DEF V, seqs, link
<1>7. seqs \in [1 .. n -> Seq(V)]
  BY <1>4, <1>6
<1>8. \A i \in 1 .. n : at[i + 1] = at[i] + Len(seqs[i])
  BY <1>2, <1>4
<1>9. /\ Len(FlattenSeq(seqs)) = at[n + 1]
      /\ \A i \in 1 .. n : \A j \in 1 .. Len(seqs[i]) :
           /\ at[i] + j \in 1 .. Len(FlattenSeq(seqs))
           /\ FlattenSeq(seqs)[at[i] + j] = seqs[i][j]
  <2>1. Laid(V, n, seqs, at)
    BY <1>1, <1>2, <1>7, <1>8 DEF Laid
  <2>2. QED
    BY <2>1, Flattened
<1>10. at[n + 1] \in Nat
  BY <1>1, <1>2
<1>11. ASSUME NEW i \in 1 .. n, NEW j \in 1 .. Len(c.entries[i].links)
       PROVE  /\ at[i] \in Nat /\ at[i] + j \in 1 .. Len(LinkEntries(c))
              /\ LinkEntries(c)[at[i] + j] = link(i, j)
  <2>1. at[i] \in Nat
    <3>1. i \in 1 .. n + 1
      BY <1>1
    <3>2. QED
      BY <1>2, <3>1
  <2>2. j \in 1 .. Len(seqs[i]) /\ seqs[i][j] = link(i, j)
    BY <1>4
  <2>3. QED
    BY <1>3, <1>9, <2>1, <2>2, Zenon
<1>12. QED
  BY <1>1, <1>3, <1>9, <1>10, <1>11 DEF link, at, n, End

-----------------------------------------------------------------------------
(* What a dump holds, and what is read back from it *)

(* An archive in the order of the machine whose counters are up to date. *)
Counted(d) ==
    /\ d \in Archives /\ d.endian = Native
    /\ d.data_size = Offsets(d, 0)[End(d)]
    /\ d.link_count = LinkStarts(d)[End(d)]

(* A dump is as long as its counters say, and its links follow the data.     *)
LEMMA CountedSizes ==
    ASSUME NEW d, Counted(d)
    PROVE  /\ d.data_size \in Nat /\ d.link_count \in Nat
           /\ Dump(d).size = DataOffset(d) + d.data_size + LinkEntrySize * d.link_count
           /\ Dump(d).links_at = DataOffset(d) + d.data_size
           /\ Len(LinkEntries(d)) = d.link_count
           /\ DataOffset(d) \in Nat /\ FilesOffset \in Nat
           /\ FilesOffset <= DataOffset(d)
<1>1. d \in Archives
  BY DEF Counted
<1>2. /\ Offsets(d, 0)[End(d)] \in Nat /\ LinkStarts(d)[End(d)] \in Nat
      /\ Len(LinkEntries(d)) = LinkStarts(d)[End(d)]
  BY <1>1, DataInOrder, LinkList
<1>3. d.data_size \in Nat /\ d.link_count \in Nat /\ Len(LinkEntries(d)) = d.link_count
  BY <1>2 DEF Counted
<1>4. Len(d.entries) \in Nat
  BY <1>1, EntriesOf
<1>5. Written(d)[End(d)] = DataOffset(d) + d.data_size
  <2>1. End(d) \in 1 .. End(d)
    BY <1>4 DEF End
  <2>2. QED
    BY <1>1, <2>1, WrittenAt DEF Counted
<1>6. /\ Dump(d).size = Written(d)[End(d)] + Len(LinkEntries(d)) * LinkEntrySize
      /\ Dump(d).links_at = Written(d)[End(d)]
  BY DEF Dump
<1>7. DataOffset(d) \in Nat /\ FilesOffset \in Nat /\ FilesOffset <= DataOffset(d)
  BY <1>1, <1>4, StartAgrees DEF FileEntrySize
<1>8. QED
  BY <1>3, <1>5, <1>6, <1>7 DEF LinkEntrySize

(* The numbers of the section headers. *)
LEMMA SectionsRead ==
    ASSUME NEW d, Counted(d)
    PROVE  /\ ReadSection(Dump(d), 1) =
                [count |-> Len(d.entries),
                 data_size |-> (DataOffset(d) + d.data_size) - FilesOffset,
                 data_offset |-> FilesOffset]
           /\ ReadSection(Dump(d), 2) =
                [count |-> d.link_count, data_size |-> d.link_count * LinkEntrySize,
                 data_offset |-> DataOffset(d) + d.data_size]
<1>1. \A n : Word(n, Native, Native) = n
  BY DEF Word
<1>2. Dump(d).endian = Native /\ Dump(d).sections = Sections(d) /\ d.endian = Native
  BY DEF Dump, Counted
<1> DEFINE links == DataOffset(d) + d.data_size
           files == links - FilesOffset
           table == d.link_count * LinkEntrySize
<1>3. Sections(d) = <<[count |-> Len(d.entries), data_size |-> files,
                       data_offset |-> FilesOffset, order |-> Native],
                      [count |-> d.link_count, data_size |-> table,
                       data_offset |-> links, order |-> Native]>>
  BY <1>2 DEF Sections
<1> HIDE DEF links, files, table
<1>4. /\ ReadSection(Dump(d), 1) = [count |-> Len(d.entries), data_size |-> files,
                                   data_offset |-> FilesOffset]
      /\ ReadSection(Dump(d), 2) = [count |-> d.link_count, data_size |-> table,
                                   data_offset |-> links]
  BY <1>1, <1>2, <1>3 DEF ReadSection
<1>5. /\ links = DataOffset(d) + d.data_size
      /\ files = (DataOffset(d) + d.data_size) - FilesOffset
      /\ table = d.link_count * LinkEntrySize
  <2>1. files = links - FilesOffset /\ table = d.link_count * LinkEntrySize
    BY DEF files, table
  <2>2. links = DataOffset(d) + d.data_size
    BY DEF links
  <2>3. QED
    BY <2>1, <2>2
<1>6. QED
  BY <1>4, <1>5, Zenon

(* The headers of the entries lead to their data and their links. *)
LEMMA EntriesRead ==
    ASSUME NEW d, Counted(d), NEW i \in DOMAIN d.entries
    PROVE  /\ DOMAIN Dump(d).files = DOMAIN d.entries
           /\ Dump(d).files[i].name = d.entries[i].name
           /\ Dump(d).files[i].data_offset = DataOffset(d) - FilesOffset + Offsets(d, 0)[i]
           /\ Dump(d).files[i].data_size = d.entries[i].src
           /\ Dump(d).files[i].link_start = LinkStarts(d)[i]
           /\ Dump(d).files[i].link_count = Len(d.entries[i].links)
           /\ Dump(d).data[i] = [at |-> DataOffset(d) + Offsets(d, 0)[i],
                                 src |-> d.entries[i].src]
           /\ i \in DOMAIN Dump(d).data
           /\ Offsets(d, 0)[i] \in Nat /\ d.entries[i].src \in Nat
           /\ Offsets(d, 0)[i] + d.entries[i].src <= d.data_size
<1>1. /\ d \in Archives /\ Len(d.entries) \in Nat /\ DOMAIN d.entries = 1 .. Len(d.entries)
      /\ d.entries[i].src \in Nat
  BY EntriesOf DEF Counted
<1>2. i \in 1 .. End(d) /\ End(d) \in i + 1 .. End(d)
  BY <1>1 DEF End
<1>3. /\ Offsets(d, 0)[i] \in Nat
      /\ Offsets(d, 0)[i] + d.entries[i].src <= Offsets(d, 0)[End(d)]
  BY <1>1, <1>2, DataInOrder
<1>4. Written(d)[i] = DataOffset(d) + Offsets(d, 0)[i]
  BY <1>1, <1>2, WrittenAt
<1>5. Offsets(d, DataOffset(d) - FilesOffset)[i] = DataOffset(d) - FilesOffset + Offsets(d, 0)[i]
  <2> DEFINE x == DataOffset(d) - FilesOffset
  <2>1. x \in Nat /\ x % PAD_BYTES = 0
    <3> DEFINE y == DataOffset(d)
               z == FilesOffset
    <3>1. y \in Nat /\ z \in Nat /\ z <= y /\ y % PAD_BYTES = 0 /\ z % PAD_BYTES = 0
      BY <1>1, CountedSizes, StartAgrees
    <3> HIDE DEF y, z
    <3>2. y - z \in Nat /\ (y - z) % PAD_BYTES = 0
      BY <3>1, SMT DEF PAD_BYTES
    <3>3. QED
      BY <3>2 DEF y, z
  <2> HIDE DEF x
  <2>2. Offsets(d, x)[i] = x + Offsets(d, 0)[i]
    BY <1>1, <1>2, <2>1, Moved
  <2>3. QED
    BY <2>2 DEF x
<1>6. /\ DOMAIN Dump(d).files = DOMAIN d.entries
      /\ Dump(d).files[i] =
           [name |-> d.entries[i].name,
            data_offset |-> Offsets(d, DataOffset(d) - FilesOffset)[i],
            data_size |-> d.entries[i].src,
            link_start |-> LinkStarts(d)[i], link_count |-> Len(d.entries[i].links)]
  BY DEF Dump, FileEntries
<1>7. /\ i \in DOMAIN Dump(d).data
      /\ Dump(d).data[i] = [at |-> Written(d)[i], src |-> d.entries[i].src]
  BY DEF Dump
<1>8. d.data_size = Offsets(d, 0)[End(d)]
  BY DEF Counted
<1>9. QED
  BY <1>1, <1>3, <1>4, <1>5, <1>6, <1>7, <1>8
(* The file that a link of an entry is to, and the links in the table. *)
LEMMA LinksRead ==
    ASSUME NEW d, Counted(d), Linked(d),
           NEW i \in DOMAIN d.entries, NEW j \in DOMAIN d.entries[i].links
    PROVE  LET id == d.entries[i].links[j] IN
           /\ IndexOf(d, id) + 1 \in DOMAIN d.entries /\ IndexOf(d, id) \in Nat
           /\ d.entries[IndexOf(d, id) + 1].id = id
           /\ NameOf(d, id) = d.entries[IndexOf(d, id) + 1].name
           /\ LinkAt(Dump(d), LinkStarts(d)[i] + j - 1) =
                [linked_file_id |-> IndexOf(d, id), link_id |-> j - 1]
<1> DEFINE id == d.entries[i].links[j]
           ch == CHOOSE k \in DOMAIN d.entries : d.entries[k].id = id
           at == LinkStarts(d)[i]
<1>1. /\ d \in Archives /\ Len(d.entries) \in Nat /\ DOMAIN d.entries = 1 .. Len(d.entries)
      /\ d.entries[i].links \in Seq(Nat)
  BY EntriesOf DEF Counted
<1>2. id \in Ids(d)
  <2>1. ToSet(d.entries[i].links) \subseteq Ids(d)
    BY DEF Linked
  <2>2. id \in ToSet(d.entries[i].links)
    BY DEF ToSet
  <2>3. QED
    BY <2>1, <2>2
<1> HIDE DEF id
<1>3. ch \in DOMAIN d.entries /\ d.entries[ch].id = id
  BY <1>2 DEF Ids
<1>4. IndexOf(d, id) = ch - 1 /\ NameOf(d, id) = d.entries[ch].name
  BY DEF IndexOf, NameOf
<1> HIDE DEF ch
<1>5. ch \in Nat /\ ch - 1 \in Nat /\ ch - 1 + 1 = ch
  BY <1>1, <1>3
<1>6. LinkAt(Dump(d), at + j - 1) = [linked_file_id |-> IndexOf(d, id), link_id |-> j - 1]
  <2> DEFINE f == Dump(d)
             k == at + j - 1
             le == [linked_file_id |-> IndexOf(d, id), link_id |-> j - 1]
  <2>1. /\ at \in Nat /\ at + j \in 1 .. Len(LinkEntries(d))
        /\ LinkEntries(d)[at + j] = le
    BY <1>1, LinkList DEF id
  <2>2. j \in Nat
    BY <1>1
  <2>3. k + 1 = at + j /\ k < Len(LinkEntries(d))
    <3>1. Len(LinkEntries(d)) \in Nat
      BY <1>1, LinkList
    <3>2. QED
      BY <2>1, <2>2, <3>1
  <2>4. f.links = LinkEntries(d) /\ f.endian = Native
    BY DEF Dump, Counted
  <2>5. ReadSection(f, 2).data_offset = f.links_at
    BY SectionsRead, CountedSizes
  <2> HIDE DEF f, k
  <2>6. f.links[k + 1] = le /\ k < Len(f.links)
    BY <2>1, <2>3, <2>4
  <2> HIDE DEF at
  <2>7. LinkAt(f, k) = [linked_file_id |-> Word(le.linked_file_id, Native, Native),
                        link_id |-> Word(le.link_id, Native, Native)]
    BY <2>4, <2>5, <2>6, Zenon DEF LinkAt
  <2>8. \A w : Word(w, Native, Native) = w
    BY DEF Word
  <2>9. QED
    BY <2>7, <2>8 DEF f, k
<1>7. QED
  BY <1>3, <1>4, <1>5, <1>6 DEF id, at

(* What a program reads that opens the dump. *)
ReadBack(d) ==
    [endian |-> Native,
     entries |->
        [i \in 1 .. Len(d.entries) |->
            [id |-> i, name |-> d.entries[i].name, src |-> d.entries[i].src,
             links |-> [j \in 1 .. Len(d.entries[i].links) |->
                          IndexOf(d, d.entries[i].links[j]) + 1]]],
     data_size |-> Unset, link_count |-> Unset]

(* Section, FileEntry and LinkEntry of a dump pass their Validate.           *)
LEMMA DumpValidates ==
    ASSUME NEW d, Counted(d), Linked(d)
    PROVE  Validates(Dump(d))
<1> DEFINE f == Dump(d)
           n == Len(d.entries)
<1>1. /\ d \in Archives /\ n \in Nat /\ DOMAIN d.entries = 1 .. n
      /\ \A i \in 1 .. n : /\ Len(d.entries[i].links) \in Nat
                           /\ DOMAIN d.entries[i].links = 1 .. Len(d.entries[i].links)
  BY EntriesOf DEF Counted
<1>2. /\ ReadSection(f, 1).count = n /\ ReadSection(f, 1).data_offset = FilesOffset
      /\ ReadSection(f, 1).data_size = (DataOffset(d) + d.data_size) - FilesOffset
      /\ ReadSection(f, 2).count = d.link_count
      /\ ReadSection(f, 2).data_size = d.link_count * LinkEntrySize
      /\ ReadSection(f, 2).data_offset = DataOffset(d) + d.data_size
  BY SectionsRead
<1>3. /\ d.data_size \in Nat /\ d.link_count \in Nat
      /\ DataOffset(d) \in Nat /\ FilesOffset \in Nat /\ FilesOffset <= DataOffset(d)
      /\ f.size = DataOffset(d) + d.data_size + LinkEntrySize * d.link_count
  BY CountedSizes
<1>4. \A k \in 1 .. 2 : ReadSection(f, k).data_offset + ReadSection(f, k).data_size <= f.size
  <2>1. \A k \in 1 .. 2 : k = 1 \/ k = 2
    OBVIOUS
  <2> HIDE DEF f
  <2>2. /\ ReadSection(f, 1).data_offset + ReadSection(f, 1).data_size <= f.size
        /\ ReadSection(f, 2).data_offset + ReadSection(f, 2).data_size <= f.size
    BY <1>2, <1>3 DEF LinkEntrySize
  <2>3. QED
    BY <2>1, <2>2
<1>5. ASSUME NEW i \in DOMAIN f.files
      PROVE  /\ f.files[i].data_offset + f.files[i].data_size <= ReadSection(f, 1).data_size
             /\ \A j \in 0 .. f.files[i].link_count - 1 :
                  LET le == LinkAt(f, f.files[i].link_start + j) IN
                  /\ le.linked_file_id \in 0 .. ReadSection(f, 1).count - 1
                  /\ le.link_id = j
  <2>1. i \in DOMAIN d.entries /\ i \in 1 .. n
    BY <1>1 DEF Dump, FileEntries
  <2>2. /\ f.files[i].data_offset = DataOffset(d) - FilesOffset + Offsets(d, 0)[i]
        /\ f.files[i].data_size = d.entries[i].src
        /\ f.files[i].link_start = LinkStarts(d)[i]
        /\ f.files[i].link_count = Len(d.entries[i].links)
        /\ Offsets(d, 0)[i] \in Nat /\ d.entries[i].src \in Nat
        /\ Offsets(d, 0)[i] + d.entries[i].src <= d.data_size
    BY <2>1, EntriesRead
  <2> HIDE DEF f
  <2>3. f.files[i].data_offset + f.files[i].data_size <= ReadSection(f, 1).data_size
    <3> DEFINE x == DataOffset(d)
               y == FilesOffset
               o == Offsets(d, 0)[i]
               src == d.entries[i].src
               end == d.data_size
    <3>1. x \in Nat /\ y \in Nat /\ o \in Nat /\ src \in Nat /\ end \in Nat
          /\ y <= x /\ o + src <= end
      BY <1>3, <2>2
    <3>2. /\ f.files[i].data_offset = x - y + o /\ f.files[i].data_size = src
          /\ ReadSection(f, 1).data_size = (x + end) - y
      BY <1>2, <2>2
    <3> HIDE DEF x, y, o, src, end
    <3>3. x - y + o + src <= (x + end) - y
      BY <3>1
    <3>4. QED
      BY <3>2, <3>3
  <2>4. ASSUME NEW j \in 0 .. f.files[i].link_count - 1
        PROVE  LET le == LinkAt(f, f.files[i].link_start + j) IN
               /\ le.linked_file_id \in 0 .. ReadSection(f, 1).count - 1
               /\ le.link_id = j
    <3> DEFINE J == j + 1
               id == d.entries[i].links[J]
    <3>1. J \in DOMAIN d.entries[i].links /\ J - 1 = j
      BY <1>1, <2>1, <2>2
    <3>2. LinkStarts(d)[i] \in Nat
      BY <1>1, <2>1, <3>1, LinkList
    <3> HIDE DEF J
    <3>3. /\ IndexOf(d, id) + 1 \in DOMAIN d.entries /\ IndexOf(d, id) \in Nat
          /\ LinkAt(f, LinkStarts(d)[i] + J - 1) =
               [linked_file_id |-> IndexOf(d, id), link_id |-> J - 1]
      BY <2>1, <3>1, LinksRead DEF f
    <3>4. LinkStarts(d)[i] + J - 1 = f.files[i].link_start + j
      BY <2>2, <3>1, <3>2 DEF J
    <3> HIDE DEF id
    <3>5. IndexOf(d, id) \in 0 .. n - 1
      BY <1>1, <3>3
    <3>6. QED
      BY <1>2, <3>1, <3>3, <3>4, <3>5
  <2>5. QED
    BY <2>3, <2>4
<1>6. QED
  BY <1>2, <1>4, <1>5 DEF Validates

(* What Parse_ makes of a dump.                                              *)
LEMMA DumpParses ==
    ASSUME NEW d, Counted(d), Linked(d)
    PROVE  Parse(Dump(d)) = ReadBack(d)
<1> DEFINE f == Dump(d)
           n == Len(d.entries)
           parsed(i) ==
             [id |-> i, name |-> f.files[i].name,
              src |-> Data(f, ReadSection(f, 1).data_offset + f.files[i].data_offset,
                           f.files[i].data_size),
              links |-> [j \in 1 .. f.files[i].link_count |->
                           LinkAt(f, f.files[i].link_start + j - 1).linked_file_id + 1]]
           entry(i) ==
             [id |-> i, name |-> d.entries[i].name, src |-> d.entries[i].src,
              links |-> [j \in 1 .. Len(d.entries[i].links) |->
                           IndexOf(d, d.entries[i].links[j]) + 1]]
<1>1. /\ d \in Archives /\ n \in Nat /\ DOMAIN d.entries = 1 .. n
      /\ \A i \in 1 .. n : /\ Len(d.entries[i].links) \in Nat
                           /\ DOMAIN d.entries[i].links = 1 .. Len(d.entries[i].links)
  BY EntriesOf DEF Counted
<1>2. ReadSection(f, 1).count = n /\ ReadSection(f, 1).data_offset = FilesOffset
  BY SectionsRead
<1>3. f.endian = Native
  BY DEF Dump, Counted
<1>4. DataOffset(d) \in Nat /\ FilesOffset \in Nat
  BY CountedSizes
<1>5. ASSUME NEW i \in 1 .. n PROVE parsed(i) = entry(i)
  <2>1. i \in DOMAIN d.entries
    BY <1>1
  <2> DEFINE o == Offsets(d, 0)[i]
             src == d.entries[i].src
  <2>2. /\ f.files[i].name = d.entries[i].name
        /\ f.files[i].data_offset = DataOffset(d) - FilesOffset + o
        /\ f.files[i].data_size = src
        /\ f.files[i].link_start = LinkStarts(d)[i]
        /\ f.files[i].link_count = Len(d.entries[i].links)
        /\ f.data[i] = [at |-> DataOffset(d) + o, src |-> src]
        /\ i \in DOMAIN f.data /\ o \in Nat
    BY <2>1, EntriesRead
  <2> HIDE DEF f, o, src
  <2>3. Data(f, ReadSection(f, 1).data_offset + f.files[i].data_offset, f.files[i].data_size) = src
    <3>1. ReadSection(f, 1).data_offset + f.files[i].data_offset = DataOffset(d) + o
      BY <1>2, <1>4, <2>2
    <3>2. Data(f, DataOffset(d) + o, src) = src
      <4> DEFINE x == DataOffset(d) + o
      <4> HIDE DEF x
      <4>1. i \in DOMAIN f.data /\ f.data[i] = [at |-> x, src |-> src]
        BY <2>2 DEF x
      <4>2. Data(f, x, src) = src
        BY <4>1 DEF Data
      <4>3. QED
        BY <4>2 DEF x
    <3>3. QED
      BY <2>2, <3>1, <3>2
  <2>4. ASSUME NEW j \in 1 .. Len(d.entries[i].links)
        PROVE  LinkAt(f, f.files[i].link_start + j - 1).linked_file_id + 1 =
                 IndexOf(d, d.entries[i].links[j]) + 1
    <3>1. j \in DOMAIN d.entries[i].links
      BY <1>1
    <3>2. LinkAt(f, LinkStarts(d)[i] + j - 1) =
            [linked_file_id |-> IndexOf(d, d.entries[i].links[j]), link_id |-> j - 1]
      BY <2>1, <3>1, LinksRead DEF f
    <3>3. QED
      BY <2>2, <3>2
  <2>5. [j \in 1 .. f.files[i].link_count |->
           LinkAt(f, f.files[i].link_start + j - 1).linked_file_id + 1]
        = [j \in 1 .. Len(d.entries[i].links) |-> IndexOf(d, d.entries[i].links[j]) + 1]
    BY <2>2, <2>4, Zenon
  <2>6. QED
    BY <2>2, <2>3, <2>5, Zenon DEF src
<1>6. Parse(f) = [endian |-> f.endian,
                  entries |-> [i \in 1 .. ReadSection(f, 1).count |-> parsed(i)],
                  data_size |-> Unset, link_count |-> Unset]
  BY DEF Parse
<1>7. ReadBack(d) = [endian |-> Native, entries |-> [i \in 1 .. n |-> entry(i)],
                     data_size |-> Unset, link_count |-> Unset]
  BY DEF ReadBack
<1> HIDE DEF f, n, parsed, entry
<1>8. [i \in 1 .. n |-> parsed(i)] = [i \in 1 .. n |-> entry(i)]
  BY <1>5
<1>9. QED
  BY <1>2, <1>3, <1>6, <1>7, <1>8 DEF f

(* It is an archive again, with the same files and the same links. *)
LEMMA ReadBackSame ==
    ASSUME NEW d, Counted(d), Linked(d)
    PROVE  ReadBack(d) \in Archives /\ Describe(ReadBack(d)) = Describe(d)
<1> DEFINE r == ReadBack(d)
           n == Len(d.entries)
<1>1. /\ d \in Archives /\ n \in Nat /\ DOMAIN d.entries = 1 .. n
      /\ \A i \in 1 .. n :
           /\ d.entries[i].src \in Nat /\ d.entries[i].name \in Names
           /\ Len(d.entries[i].links) \in Nat
           /\ DOMAIN d.entries[i].links = 1 .. Len(d.entries[i].links)
  <2>1. /\ d \in Archives /\ n \in Nat /\ DOMAIN d.entries = 1 .. n
        /\ \A i \in 1 .. n : /\ d.entries[i].src \in Nat /\ d.entries[i].name \in Names
                             /\ d.entries[i].links \in Seq(Nat)
    BY EntriesOf DEF Counted
  <2>2. QED
    BY <2>1
<1>2. /\ r.endian = Native /\ r.data_size = Unset /\ r.link_count = Unset
      /\ DOMAIN r.entries = 1 .. n
      /\ \A i \in 1 .. n :
           /\ r.entries[i].id = i /\ r.entries[i].name = d.entries[i].name
           /\ r.entries[i].src = d.entries[i].src
           /\ r.entries[i].links = [j \in 1 .. Len(d.entries[i].links) |->
                                      IndexOf(d, d.entries[i].links[j]) + 1]
  BY DEF ReadBack
<1> HIDE DEF r
<1>3. ASSUME NEW i \in 1 .. n, NEW j \in 1 .. Len(d.entries[i].links)
      PROVE  LET id == d.entries[i].links[j] IN
             /\ IndexOf(d, id) + 1 \in 1 .. n
             /\ NameOf(d, id) = d.entries[IndexOf(d, id) + 1].name
  <2>1. i \in DOMAIN d.entries /\ j \in DOMAIN d.entries[i].links
    BY <1>1
  <2>2. QED
    BY <1>1, <2>1, LinksRead
<1>4. ASSUME NEW i \in 1 .. n
      PROVE  r.entries[i].links \in Seq(Nat)
  <2> DEFINE k == Len(d.entries[i].links)
             links == [j \in 1 .. k |-> IndexOf(d, d.entries[i].links[j]) + 1]
  <2>1. k \in Nat /\ \A j \in 1 .. k : IndexOf(d, d.entries[i].links[j]) + 1 \in Nat
    BY <1>1, <1>3
  <2> HIDE DEF k
  <2>2. links \in Seq(Nat)
    BY <2>1
  <2>3. QED
    BY <1>2, <2>2 DEF k
<1>5. r.entries \in Seq(Entries)
  <2> DEFINE entry(i) ==
               [id |-> i, name |-> d.entries[i].name, src |-> d.entries[i].src,
                links |-> [j \in 1 .. Len(d.entries[i].links) |->
                             IndexOf(d, d.entries[i].links[j]) + 1]]
  <2>1. r.entries = [i \in 1 .. n |-> entry(i)]
    BY DEF ReadBack, r
  <2>2. ASSUME NEW i \in 1 .. n PROVE entry(i) \in Entries
    <3>1. entry(i).links \in Seq(Nat)
      BY <1>2, <1>4
    <3>2. i \in Nat /\ d.entries[i].name \in Names /\ d.entries[i].src \in Nat
      BY <1>1
    <3>3. QED
      BY <3>1, <3>2 DEF Entries
  <2> HIDE DEF n, entry
  <2>3. QED
    BY <1>1, <2>1, <2>2
<1>6. r \in [endian : {"L", "B"}, entries : Seq(Entries),
             data_size : {Unset} \cup Nat, link_count : {Unset} \cup Nat]
  <2>1. Native \in {"L", "B"}
    BY DEF Counted, Archives
  <2>2. QED
    BY <1>5, <2>1 DEF ReadBack, r
<1>7. r \in Archives
  <2>1. \A i, j \in DOMAIN r.entries : r.entries[i].id = r.entries[j].id => i = j
    <3>1. \A i \in DOMAIN r.entries : r.entries[i].id = i
      BY <1>2, Zenon
    <3>2. QED
      BY <3>1, Zenon
  <2>2. QED
    BY <1>6, <2>1, Zenon DEF Archives
<1>8. ASSUME NEW i \in 1 .. n PROVE NameOf(r, i) = d.entries[i].name
  <2>1. (CHOOSE k \in DOMAIN r.entries : r.entries[k].id = i) = i
    BY <1>2, Zenon
  <2>2. QED
    BY <1>2, <2>1 DEF NameOf
<1>9. ASSUME NEW i \in 1 .. n
      PROVE  [j \in DOMAIN r.entries[i].links |-> NameOf(r, r.entries[i].links[j])] =
             [j \in DOMAIN d.entries[i].links |-> NameOf(d, d.entries[i].links[j])]
  <2> DEFINE k == Len(d.entries[i].links)
  <2>1. DOMAIN r.entries[i].links = 1 .. k /\ DOMAIN d.entries[i].links = 1 .. k
    BY <1>1, <1>2
  <2>2. ASSUME NEW j \in 1 .. k
        PROVE  NameOf(r, r.entries[i].links[j]) = NameOf(d, d.entries[i].links[j])
    <3> DEFINE x == IndexOf(d, d.entries[i].links[j]) + 1
    <3>1. r.entries[i].links[j] = x
      <4> DEFINE at(m) == IndexOf(d, d.entries[i].links[m]) + 1
      <4>1. r.entries[i].links = [m \in 1 .. k |-> at(m)]
        BY <1>2, Zenon
      <4>2. at(j) = x
        OBVIOUS
      <4> HIDE DEF at, x, k
      <4>3. QED
        BY <4>1, <4>2
    <3>2. x \in 1 .. n /\ NameOf(d, d.entries[i].links[j]) = d.entries[x].name
      BY <1>3
    <3> HIDE DEF n, x
    <3>3. QED
      BY <1>8, <3>1, <3>2
  <2> HIDE DEF k
  <2>3. QED
    BY <2>1, <2>2
<1>10. Describe(r) = Describe(d)
  <2> DEFINE linksOf(c, i) == [j \in DOMAIN c.entries[i].links |-> NameOf(c, c.entries[i].links[j])]
             said(c, i) == [name |-> c.entries[i].name, src |-> c.entries[i].src,
                            links |-> linksOf(c, i)]
  <2>1. \A c : Describe(c) = [i \in DOMAIN c.entries |-> said(c, i)]
    BY DEF Describe
  <2>2. \A i \in 1 .. n : said(r, i) = said(d, i)
    <3> SUFFICES ASSUME NEW i \in 1 .. n PROVE said(r, i) = said(d, i)
      OBVIOUS
    <3>1. linksOf(r, i) = linksOf(d, i)
      BY <1>9
    <3>2. r.entries[i].name = d.entries[i].name /\ r.entries[i].src = d.entries[i].src
      BY <1>2
    <3> HIDE DEF linksOf
    <3>3. QED
      BY <3>1, <3>2
  <2> HIDE DEF n, said
  <2>3. QED
    BY <1>1, <1>2, <2>1, <2>2
<1>11. QED
  BY <1>7, <1>10 DEF r
-----------------------------------------------------------------------------
(* What the commands make of an archive *)

(* No two entries have the same id. *)
Distinct(es) == \A i, j \in DOMAIN es : es[i].id = es[j].id => i = j

(* An archive with other entries is an archive.                              *)
LEMMA WithEntries ==
    ASSUME NEW c \in Archives, NEW es \in Seq(Entries), Distinct(es)
    PROVE  /\ [c EXCEPT !.entries = es] \in Archives
           /\ [c EXCEPT !.entries = es].endian = c.endian
<1> DEFINE r == [c EXCEPT !.entries = es]
<1>1. c \in [endian : {"L", "B"}, entries : Seq(Entries),
             data_size : {Unset} \cup Nat, link_count : {Unset} \cup Nat]
  BY DEF Archives
<1>2. /\ r \in [endian : {"L", "B"}, entries : Seq(Entries),
                data_size : {Unset} \cup Nat, link_count : {Unset} \cup Nat]
      /\ r.entries = es /\ r.endian = c.endian
  BY <1>1
<1> HIDE DEF r
<1>3. r \in Archives
  BY <1>2 DEF Archives, Distinct
<1>4. QED
  BY <1>2, <1>3 DEF r

(* Fixup brings the counters up to date.                                     *)
LEMMA FixupCounts ==
    ASSUME NEW c \in Archives, c.endian = Native
    PROVE  Counted(Fixup(c)) /\ (Linked(c) => Linked(Fixup(c)))
<1> DEFINE ds == Offsets(c, 0)[End(c)]
           lc == LinkStarts(c)[End(c)]
           r == [c EXCEPT !.data_size = ds, !.link_count = lc]
<1>1. c \in [endian : {"L", "B"}, entries : Seq(Entries),
             data_size : {Unset} \cup Nat, link_count : {Unset} \cup Nat]
      /\ Distinct(c.entries)
  BY DEF Archives, Distinct
<1>2. Fixup(c) = r
  BY DEF Fixup
<1>3. ds \in Nat /\ lc \in Nat
  BY DataInOrder, LinkList
<1> HIDE DEF ds, lc
<1>4. /\ r \in [endian : {"L", "B"}, entries : Seq(Entries),
                data_size : {Unset} \cup Nat, link_count : {Unset} \cup Nat]
      /\ r.entries = c.entries /\ r.endian = c.endian /\ r.data_size = ds /\ r.link_count = lc
  BY <1>1, <1>3
<1> HIDE DEF r
<1>5. r \in Archives
  BY <1>1, <1>4 DEF Archives, Distinct
<1>6. End(r) = End(c) /\ Offsets(r, 0) = Offsets(c, 0) /\ LinkStarts(r) = LinkStarts(c)
  BY <1>4, Zenon DEF End, Offsets, LinkStarts
<1>7. Linked(c) => Linked(r)
  BY <1>4, Zenon DEF Linked, Ids
<1>8. QED
  BY <1>2, <1>4, <1>5, <1>6, <1>7 DEF Counted, ds, lc

(* The image of a finite set. *)
LEMMA ImageFinite ==
    ASSUME NEW n \in Nat, NEW T, NEW f \in [1 .. n -> T]
    PROVE  IsFiniteSet({f[i] : i \in 1 .. n})
<1> DEFINE I == {f[i] : i \in 1 .. n}
<1>1. f \in Surjection(1 .. n, I)
  BY DEF Surjection
<1>2. IsFiniteSet(1 .. n)
  BY FS_Interval
<1> HIDE DEF I
<1>3. IsFiniteSet(I)
  BY <1>1, <1>2, FS_Surjection
<1>4. QED
  BY <1>3 DEF I

(* There are more numbers than ids in use. *)
LEMMA FreshIdIsFresh ==
    ASSUME NEW c \in Archives
    PROVE  FreshId(c) \in Nat /\ FreshId(c) \notin Ids(c)
<1> DEFINE n == Len(c.entries)
           ids == [i \in 1 .. n |-> c.entries[i].id]
           linked == [i \in 1 .. n |-> ToSet(c.entries[i].links)]
           used == Ids(c) \cup UNION {ToSet(c.entries[i].links) : i \in DOMAIN c.entries}
<1>1. /\ n \in Nat /\ DOMAIN c.entries = 1 .. n
      /\ \A i \in 1 .. n : c.entries[i].id \in Nat /\ c.entries[i].links \in Seq(Nat)
  BY EntriesOf
<1>2. IsFiniteSet(Ids(c))
  <2>1. ids \in [1 .. n -> Nat]
    BY <1>1
  <2>2. Ids(c) = {ids[i] : i \in 1 .. n}
    BY <1>1 DEF Ids
  <2> HIDE DEF ids, n
  <2>3. QED
    BY <1>1, <2>1, <2>2, ImageFinite
<1>3. IsFiniteSet(UNION {ToSet(c.entries[i].links) : i \in DOMAIN c.entries})
  <2> DEFINE sets == {linked[i] : i \in 1 .. n}
  <2>1. linked \in [1 .. n -> SUBSET Nat]
    BY <1>1 DEF ToSet
  <2>2. {ToSet(c.entries[i].links) : i \in DOMAIN c.entries} = sets
    BY <1>1
  <2>3. ASSUME NEW i \in 1 .. n PROVE IsFiniteSet(linked[i])
    <3> DEFINE links == c.entries[i].links
               k == Len(links)
    <3>1. k \in Nat /\ links \in [1 .. k -> Nat]
      BY <1>1, SMTT(30)
    <3>2. linked[i] = {links[j] : j \in 1 .. k}
      BY <3>1 DEF ToSet
    <3> HIDE DEF links, k, linked
    <3>3. QED
      BY <3>1, <3>2, ImageFinite
  <2>4. \A T \in sets : IsFiniteSet(T)
    BY <2>3
  <2>5. IsFiniteSet(sets)
    <3> HIDE DEF linked, n
    <3>1. QED
      BY <1>1, <2>1, ImageFinite
  <2> HIDE DEF sets
  <2>6. QED
    BY <2>2, <2>4, <2>5, FS_UNION
<1>4. IsFiniteSet(used)
  BY <1>2, <1>3, FS_Union
<1>5. FreshId(c) = CHOOSE id \in 1 .. Cardinality(used) + 1 : id \notin used
  BY DEF FreshId
<1>6. Ids(c) \subseteq used
  OBVIOUS
<1> HIDE DEF used
<1>7. Cardinality(used) \in Nat
  BY <1>4, FS_CardinalityType
<1>8. \E id \in 1 .. Cardinality(used) + 1 : id \notin used
  <2> SUFFICES ASSUME 1 .. Cardinality(used) + 1 \subseteq used PROVE FALSE
    OBVIOUS
  <2> DEFINE k == Cardinality(used) + 1
  <2>1. k \in Int /\ k \in Nat /\ ~(1 > k) /\ 1 \in Int
    BY <1>7
  <2> HIDE DEF k
  <2>2. Cardinality(1 .. k) = k - 1 + 1
    BY <2>1, FS_Interval
  <2>3. Cardinality(1 .. k) <= Cardinality(used)
    BY <1>4, FS_Subset DEF k
  <2>4. QED
    BY <1>7, <2>1, <2>2, <2>3 DEF k
<1>9. FreshId(c) \in 1 .. Cardinality(used) + 1 /\ FreshId(c) \notin used
  BY <1>5, <1>8
<1>10. QED
  BY <1>6, <1>7, <1>9

(* GetOrCreateFile gives a new entry an id of its own.                       *)
LEMMA FileCreated ==
    ASSUME NEW c \in Archives, NEW name \in Names
    PROVE  /\ GetOrCreateFile(c, name) \in Archives
           /\ GetOrCreateFile(c, name).endian = c.endian
<1> DEFINE n == Len(c.entries)
           e == [id |-> FreshId(c), name |-> name, src |-> 0, links |-> <<>>]
           es == Append(c.entries, e)
<1>1. CASE name \in NamesIn(c)
  BY <1>1 DEF GetOrCreateFile
<1>2. CASE name \notin NamesIn(c)
  <2>1. /\ c.entries \in Seq(Entries) /\ n \in Nat /\ DOMAIN c.entries = 1 .. n
        /\ Distinct(c.entries)
    BY EntriesOf DEF Archives, Distinct
  <2>2. FreshId(c) \in Nat /\ \A i \in 1 .. n : c.entries[i].id # FreshId(c)
    BY <2>1, FreshIdIsFresh DEF Ids
  <2>3. <<>> \in Seq(Nat) /\ 0 \in Nat
    OBVIOUS
  <2>4. e \in Entries /\ e.id = FreshId(c)
    BY <2>2, <2>3 DEF Entries
  <2> HIDE DEF e
  <2>5. /\ es \in Seq(Entries) /\ DOMAIN es = 1 .. n + 1
        /\ es[n + 1] = e /\ \A i \in 1 .. n : es[i] = c.entries[i]
    BY <2>1, <2>4
  <2> HIDE DEF es, n
  <2>6. ASSUME NEW i \in DOMAIN es, NEW j \in DOMAIN es, es[i].id = es[j].id PROVE i = j
    <3>1. /\ i \in 1 .. n \/ i = n + 1
          /\ j \in 1 .. n \/ j = n + 1
      BY <2>1, <2>5
    <3>2. CASE i \in 1 .. n /\ j \in 1 .. n
      BY <2>1, <2>5, <2>6, <3>2 DEF Distinct
    <3>3. CASE i \in 1 .. n /\ j = n + 1
      BY <2>2, <2>4, <2>5, <2>6, <3>3
    <3>4. CASE i = n + 1 /\ j \in 1 .. n
      BY <2>2, <2>4, <2>5, <2>6, <3>4
    <3>5. QED
      BY <3>1, <3>2, <3>3, <3>4
  <2>7. Distinct(es)
    BY <2>6 DEF Distinct
  <2>8. GetOrCreateFile(c, name) = [c EXCEPT !.entries = es]
    BY <1>2 DEF GetOrCreateFile, es, e
  <2>9. QED
    BY <2>5, <2>7, <2>8, WithEntries
<1>3. QED
  BY <1>1, <1>2

(* Entries that differ from those of c but not in their ids. *)
LEMMA SameIds ==
    ASSUME NEW c \in Archives, NEW es \in [1 .. Len(c.entries) -> Entries],
           \A i \in 1 .. Len(c.entries) : es[i].id = c.entries[i].id
    PROVE  /\ [c EXCEPT !.entries = es] \in Archives
           /\ [c EXCEPT !.entries = es].endian = c.endian
<1>1. Len(c.entries) \in Nat /\ DOMAIN c.entries = 1 .. Len(c.entries) /\ Distinct(c.entries)
  BY EntriesOf DEF Archives, Distinct
<1>2. es \in Seq(Entries) /\ DOMAIN es = 1 .. Len(c.entries)
  BY <1>1
<1>3. Distinct(es)
  BY <1>1, <1>2 DEF Distinct
<1>4. QED
  BY <1>2, <1>3, WithEntries

(* A new source changes no id,                                               *)
LEMMA SourceSet ==
    ASSUME NEW c \in Archives, NEW name \in Names, NEW src \in Nat
    PROVE  /\ SetSource(c, name, src) \in Archives
           /\ SetSource(c, name, src).endian = c.endian
<1> DEFINE n == Len(c.entries)
           entry(i) == IF c.entries[i].name = name
                       THEN [c.entries[i] EXCEPT !.src = src] ELSE c.entries[i]
           es == [i \in 1 .. n |-> entry(i)]
<1>1. n \in Nat /\ DOMAIN c.entries = 1 .. n /\ \A i \in 1 .. n : c.entries[i] \in Entries
  BY EntriesOf
<1>2. ASSUME NEW e \in Entries
      PROVE  [e EXCEPT !.src = src] \in Entries /\ [e EXCEPT !.src = src].id = e.id
  BY DEF Entries
<1>3. \A i \in 1 .. n : entry(i) \in Entries /\ entry(i).id = c.entries[i].id
  BY <1>1, <1>2
<1>4. SetSource(c, name, src) = [c EXCEPT !.entries = es]
  <2>1. c \in [endian : {"L", "B"}, entries : Seq(Entries),
               data_size : {Unset} \cup Nat, link_count : {Unset} \cup Nat]
    BY DEF Archives
  <2>2. es = [i \in DOMAIN c.entries |->
                IF c.entries[i].name = name
                THEN [c.entries[i] EXCEPT !.src = src] ELSE c.entries[i]]
    BY <1>1
  <2> HIDE DEF es
  <2>3. QED
    BY <2>1, <2>2 DEF SetSource
<1> HIDE DEF entry
<1>5. es \in [1 .. n -> Entries] /\ \A i \in 1 .. n : es[i].id = c.entries[i].id
  BY <1>3
<1> HIDE DEF es
<1>6. QED
  BY <1>4, <1>5, SameIds

(* nor do new links.                                                         *)
LEMMA LinksSet ==
    ASSUME NEW c \in Archives, NEW k \in DOMAIN c.entries, NEW links \in Seq(Nat)
    PROVE  /\ [c EXCEPT !.entries[k].links = links] \in Archives
           /\ [c EXCEPT !.entries[k].links = links].endian = c.endian
<1> DEFINE n == Len(c.entries)
           es == [c.entries EXCEPT ![k] = [c.entries[k] EXCEPT !.links = links]]
<1>1. n \in Nat /\ DOMAIN c.entries = 1 .. n /\ \A i \in 1 .. n : c.entries[i] \in Entries
      /\ c.entries \in Seq(Entries)
  BY EntriesOf
<1>2. [c EXCEPT !.entries[k].links = links] = [c EXCEPT !.entries = es]
  BY DEF Archives
<1>3. ASSUME NEW e \in Entries
      PROVE  [e EXCEPT !.links = links] \in Entries /\ [e EXCEPT !.links = links].id = e.id
  BY DEF Entries
<1>4. /\ DOMAIN es = 1 .. n
      /\ \A i \in 1 .. n :
           es[i] = IF i = k THEN [c.entries[k] EXCEPT !.links = links] ELSE c.entries[i]
      /\ es = [i \in 1 .. n |-> es[i]]
  BY <1>1
<1> HIDE DEF es
<1>5. es \in [1 .. n -> Entries] /\ \A i \in 1 .. n : es[i].id = c.entries[i].id
  BY <1>1, <1>3, <1>4
<1>6. QED
  BY <1>2, <1>5, SameIds
(* An entry behind entries with other ids. *)
LEMMA Appended ==
    ASSUME NEW es \in Seq(Entries), Distinct(es), NEW e \in Entries,
           \A i \in DOMAIN es : es[i].id # e.id
    PROVE  /\ Append(es, e) \in Seq(Entries) /\ Distinct(Append(es, e))
           /\ \A i \in DOMAIN Append(es, e) :
                Append(es, e)[i] = e \/ (i \in DOMAIN es /\ Append(es, e)[i] = es[i])
<1> DEFINE n == Len(es)
           fs == Append(es, e)
<1>1. /\ n \in Nat /\ DOMAIN es = 1 .. n
      /\ fs \in Seq(Entries) /\ DOMAIN fs = 1 .. n + 1
      /\ fs[n + 1] = e /\ \A i \in 1 .. n : fs[i] = es[i]
  OBVIOUS
<1> HIDE DEF fs, n
<1>2. \A i \in DOMAIN fs : i \in 1 .. n \/ i = n + 1
  BY <1>1
<1>3. ASSUME NEW i \in DOMAIN fs, NEW j \in DOMAIN fs, fs[i].id = fs[j].id PROVE i = j
  <2>1. CASE i \in 1 .. n /\ j \in 1 .. n
    BY <1>1, <1>3, <2>1 DEF Distinct
  <2>2. CASE i \in 1 .. n /\ j = n + 1
    BY <1>1, <1>3, <2>2
  <2>3. CASE i = n + 1 /\ j \in 1 .. n
    BY <1>1, <1>3, <2>3
  <2>4. QED
    BY <1>2, <2>1, <2>2, <2>3
<1>4. Distinct(fs)
  BY <1>3 DEF Distinct
<1>5. QED
  BY <1>1, <1>2, <1>4, Zenon DEF fs

(* fs are the entries of es before the i-th that are not erased, in order. *)
Remain(fs, es, names, i) ==
    /\ \A k \in DOMAIN fs :
         \E p \in 1 .. i - 1 : fs[k] = es[p] /\ es[p].name \notin names
    /\ \A k, l \in DOMAIN fs :
         k < l => \E p, q \in 1 .. i - 1 : p < q /\ fs[k] = es[p] /\ fs[l] = es[q]
    /\ \A p \in 1 .. i - 1 :
         es[p].name \notin names => \E k \in DOMAIN fs : fs[k] = es[p]

(* The next entry stays, behind those before it, or goes.                    *)
LEMMA RemainNext ==
    ASSUME NEW fs \in Seq(Entries), NEW es, NEW names, NEW i \in Nat, NEW k \in Nat,
           i # 0, k = i + 1, es[i] \in Entries, Remain(fs, es, names, i)
    PROVE  IF es[i].name \in names THEN Remain(fs, es, names, k)
           ELSE Remain(Append(fs, es[i]), es, names, k)
<1> DEFINE I == 1 .. i - 1
           K == 1 .. k - 1
<1>1. I \subseteq K /\ i \in K /\ (\A p \in K : p \in I \/ p = i) /\ \A p \in I : p < i
  OBVIOUS
<1>2. Remain(fs, es, names, i) = 
      ( /\ \A m \in DOMAIN fs : \E p \in I : fs[m] = es[p] /\ es[p].name \notin names
        /\ \A m, l \in DOMAIN fs :
             m < l => \E p, q \in I : p < q /\ fs[m] = es[p] /\ fs[l] = es[q]
        /\ \A p \in I : es[p].name \notin names => \E m \in DOMAIN fs : fs[m] = es[p] )
  BY Zenon DEF Remain
<1>3. \A gs : Remain(gs, es, names, k) = 
      ( /\ \A m \in DOMAIN gs : \E p \in K : gs[m] = es[p] /\ es[p].name \notin names
        /\ \A m, l \in DOMAIN gs :
             m < l => \E p, q \in K : p < q /\ gs[m] = es[p] /\ gs[l] = es[q]
        /\ \A p \in K : es[p].name \notin names => \E m \in DOMAIN gs : gs[m] = es[p] )
  BY Zenon DEF Remain
<1> HIDE DEF I, K
<1>4. CASE es[i].name \in names
  <2>1. ASSUME NEW m \in DOMAIN fs
        PROVE  \E p \in K : fs[m] = es[p] /\ es[p].name \notin names
    <3>1. PICK p \in I : fs[m] = es[p] /\ es[p].name \notin names
      BY <1>2
    <3>2. QED
      BY <1>1, <3>1
  <2>2. ASSUME NEW m \in DOMAIN fs, NEW l \in DOMAIN fs, m < l
        PROVE  \E p, q \in K : p < q /\ fs[m] = es[p] /\ fs[l] = es[q]
    <3>1. PICK p \in I, q \in I : p < q /\ fs[m] = es[p] /\ fs[l] = es[q]
      BY <1>2, <2>2
    <3>2. QED
      BY <1>1, <3>1
  <2>3. ASSUME NEW p \in K, es[p].name \notin names
        PROVE  \E m \in DOMAIN fs : fs[m] = es[p]
    <3>1. p \in I
      BY <1>1, <1>4, <2>3
    <3>2. QED
      BY <1>2, <2>3, <3>1
  <2>4. Remain(fs, es, names, k)
    BY <1>3, <2>1, <2>2, <2>3, Zenon
  <2>5. QED
    BY <1>4, <2>4
<1>5. CASE es[i].name \notin names
  <2> DEFINE n == Len(fs)
             gs == Append(fs, es[i])
  <2>1. /\ n \in Nat /\ DOMAIN fs = 1 .. n /\ DOMAIN gs = 1 .. n + 1
        /\ gs[n + 1] = es[i] /\ \A m \in 1 .. n : gs[m] = fs[m]
    OBVIOUS
  <2> HIDE DEF n, gs
  <2>2. /\ n + 1 \in DOMAIN gs /\ \A m \in DOMAIN fs : m \in DOMAIN gs
        /\ \A m \in DOMAIN gs : m \in DOMAIN fs \/ m = n + 1
        /\ \A m, l \in DOMAIN gs : m < l => m \in DOMAIN fs
        /\ \A m \in DOMAIN fs : gs[m] = fs[m]
    BY <2>1
  <2>3. ASSUME NEW m \in DOMAIN gs
        PROVE  \E p \in K : gs[m] = es[p] /\ es[p].name \notin names
    <3>1. CASE m \in DOMAIN fs
      <4>1. PICK p \in I : fs[m] = es[p] /\ es[p].name \notin names
        BY <1>2, <3>1
      <4>2. QED
        BY <1>1, <2>2, <3>1, <4>1
    <3>2. CASE m = n + 1
      BY <1>1, <1>5, <2>1, <3>2
    <3>3. QED
      BY <2>2, <3>1, <3>2
  <2>4. ASSUME NEW m \in DOMAIN gs, NEW l \in DOMAIN gs, m < l
        PROVE  \E p, q \in K : p < q /\ gs[m] = es[p] /\ gs[l] = es[q]
    <3>1. m \in DOMAIN fs
      BY <2>2, <2>4, Zenon
    <3>2. CASE l \in DOMAIN fs
      <4>1. PICK p \in I, q \in I : p < q /\ fs[m] = es[p] /\ fs[l] = es[q]
        BY <1>2, <2>4, <3>1, <3>2
      <4>2. QED
        BY <1>1, <2>2, <3>1, <3>2, <4>1
    <3>3. CASE l = n + 1
      <4>1. PICK p \in I : fs[m] = es[p]
        BY <1>2, <3>1
      <4>2. p \in K /\ i \in K /\ p < i /\ gs[m] = es[p] /\ gs[l] = es[i]
        BY <1>1, <2>1, <2>2, <3>1, <3>3, <4>1
      <4>3. QED
        BY <4>2
    <3>4. QED
      BY <2>2, <3>2, <3>3, Zenon
  <2>5. ASSUME NEW p \in K, es[p].name \notin names
        PROVE  \E m \in DOMAIN gs : gs[m] = es[p]
    <3>1. CASE p \in I
      <4>1. PICK m \in DOMAIN fs : fs[m] = es[p]
        BY <1>2, <2>5, <3>1
      <4>2. QED
        BY <2>2, <4>1
    <3>2. CASE p = i
      BY <2>1, <2>2, <3>2
    <3>3. QED
      BY <1>1, <3>1, <3>2
  <2>6. Remain(gs, es, names, k)
    BY <1>3, <2>3, <2>4, <2>5, Zenon
  <2>7. QED
    BY <1>5, <2>6 DEF gs
<1>6. QED
  BY <1>4, <1>5

(* Erasing leaves the other entries, in their order and with their ids.      *)
LEMMA Erased ==
    ASSUME NEW c \in Archives, NEW names
    PROVE  /\ Erase(c, names) \in Archives /\ Erase(c, names).endian = c.endian
           /\ Remain(Erase(c, names).entries, c.entries, names, Len(c.entries) + 1)
<1> DEFINE n == Len(c.entries)
           es == c.entries
           V == Seq(Entries)
           step == [p \in Nat \X V |->
                      IF p[1] - 1 \in 1 .. n
                      THEN IF es[p[1] - 1].name \in names THEN p[2]
                           ELSE Append(p[2], es[p[1] - 1])
                      ELSE <<>>]
<1>1. /\ n \in Nat /\ DOMAIN es = 1 .. n /\ \A i \in 1 .. n : es[i] \in Entries
      /\ \A i, j \in 1 .. n : es[i].id = es[j].id => i = j
  BY EntriesOf DEF Archives
<1> HIDE DEF n, es
<1>2. step \in Steps(V)
  <2>1. ASSUME NEW p \in Nat \X V, p[1] - 1 \in 1 .. n
        PROVE  p[2] \in V /\ Append(p[2], es[p[1] - 1]) \in V
    <3>1. p[2] \in V /\ es[p[1] - 1] \in Entries
      BY <1>1, <2>1
    <3>2. QED
      BY <3>1
  <2>2. <<>> \in V
    OBVIOUS
  <2> HIDE DEF V
  <2>3. QED
    BY <2>1, <2>2 DEF Steps
<1>3. PICK g \in [1 .. n + 1 -> V] :
        \A i \in 1 .. n + 1 : g[i] = IF i = 1 THEN <<>> ELSE step[<<i, g[i - 1]>>]
  <2> DEFINE k == n + 1
             a == <<>>
  <2>1. k \in Nat /\ a \in V
    BY <1>1
  <2> HIDE DEF k, step, V, a
  <2>2. \E g : Follows(g, k, a, step, V)
    BY <1>2, <2>1, Recursion
  <2>3. QED
    BY <2>2 DEF k, a, Follows
<1>4. \A i \in 1 .. n + 1 :
        g[i] = IF i = 1 THEN <<>>
               ELSE IF es[i - 1].name \in names THEN g[i - 1] ELSE Append(g[i - 1], es[i - 1])
  <2> SUFFICES ASSUME NEW i \in 1 .. n + 1, i # 1
               PROVE  g[i] = IF es[i - 1].name \in names THEN g[i - 1]
                             ELSE Append(g[i - 1], es[i - 1])
    BY <1>3
  <2>1. i - 1 \in 1 .. n /\ i - 1 \in 1 .. n + 1 /\ i \in Nat
    BY <1>1
  <2>2. g[i] = step[<<i, g[i - 1]>>]
    BY <1>3
  <2> HIDE DEF V
  <2>3. <<i, g[i - 1]>> \in Nat \X V
    BY <2>1
  <2>4. QED
    BY <2>1, <2>2, <2>3
<1>5. Erase(c, names) = [c EXCEPT !.entries = g[n + 1]]
  <2> DEFINE kept == CHOOSE f : f = [i \in 1 .. n + 1 |->
                       IF i = 1 THEN <<>>
                       ELSE IF es[i - 1].name \in names THEN f[i - 1]
                       ELSE Append(f[i - 1], es[i - 1])]
  <2>1. Erase(c, names) = [c EXCEPT !.entries = kept[n + 1]]
    BY DEF Erase, es, n
  <2>2. g = [i \in 1 .. n + 1 |->
               IF i = 1 THEN <<>>
               ELSE IF es[i - 1].name \in names THEN g[i - 1]
               ELSE Append(g[i - 1], es[i - 1])]
    <3> HIDE DEF V, step
    <3>1. QED
      BY <1>3, <1>4, Zenon
  <2>3. kept = [i \in 1 .. n + 1 |->
                  IF i = 1 THEN <<>>
                  ELSE IF es[i - 1].name \in names THEN kept[i - 1]
                  ELSE Append(kept[i - 1], es[i - 1])]
    BY <2>2, Zenon
  <2> HIDE DEF kept
  <2> DEFINE Same == {i \in 1 .. n + 1 : kept[i] = g[i]}
  <2>4. 1 \in Same
    BY <1>1, <1>4, <2>3
  <2>5. ASSUME NEW i \in 1 .. n, i \in Same PROVE i + 1 \in Same
    <3>1. i + 1 \in 1 .. n + 1 /\ i + 1 # 1 /\ i + 1 - 1 = i
      BY <1>1
    <3> DEFINE k == i + 1
    <3> HIDE DEF k
    <3>2. k \in 1 .. n + 1 /\ k # 1 /\ k - 1 = i
      BY <3>1 DEF k
    <3>3. kept[k] = IF es[i].name \in names THEN kept[i] ELSE Append(kept[i], es[i])
      BY <2>3, <3>2
    <3>4. g[k] = IF es[i].name \in names THEN g[i] ELSE Append(g[i], es[i])
      BY <1>4, <3>2
    <3>5. QED
      BY <2>5, <3>2, <3>3, <3>4 DEF k
  <2>6. n + 1 \in Same
    <3> HIDE DEF Same
    <3>1. \A i \in 1 .. n + 1 : i \in Same
      BY <1>1, <2>4, <2>5, Induction
    <3>2. QED
      BY <1>1, <3>1
  <2>7. QED
    BY <2>1, <2>6
<1> DEFINE S == {i \in 1 .. n + 1 : Distinct(g[i]) /\ Remain(g[i], es, names, i)}
<1>6. 1 \in S
  <2>1. g[1] = <<>> /\ 1 \in 1 .. n + 1
    BY <1>1, <1>4
  <2>2. DOMAIN g[1] = {}
    BY <2>1
  <2>3. QED
    BY <2>1, <2>2 DEF Distinct, Remain
<1>7. ASSUME NEW i \in 1 .. n, i \in S PROVE i + 1 \in S
  <2> DEFINE k == i + 1
  <2>1. /\ k \in 1 .. n + 1 /\ k # 1 /\ k - 1 = i /\ i \in 1 .. n + 1 /\ i # 0
        /\ \A m \in 1 .. i - 1 : m \in 1 .. n /\ m # i
    BY <1>1
  <2>0. i \in Nat /\ k \in Nat /\ k = i + 1
    BY <1>1
  <2> HIDE DEF k
  <2>2. g[k] = IF es[i].name \in names THEN g[i] ELSE Append(g[i], es[i])
    BY <1>4, <2>1
  <2>3. Distinct(g[i]) /\ Remain(g[i], es, names, i) /\ g[i] \in Seq(Entries) /\ es[i] \in Entries
    BY <1>1, <1>3, <1>7, <2>1
  <2> DEFINE fs == Append(g[i], es[i])
  <2>4. IF es[i].name \in names THEN Remain(g[i], es, names, k) ELSE Remain(fs, es, names, k)
    BY <2>0, <2>1, <2>3, RemainNext
  <2>5. CASE es[i].name \in names
    BY <2>1, <2>2, <2>3, <2>4, <2>5 DEF k
  <2>6. CASE es[i].name \notin names
    <3>1. \A j \in DOMAIN g[i] : g[i][j].id # es[i].id
      BY <1>1, <2>1, <2>3 DEF Remain
    <3>2. Distinct(fs)
      BY <2>3, <3>1, Appended
    <3> HIDE DEF fs
    <3>3. QED
      BY <2>1, <2>2, <2>4, <2>6, <3>2 DEF k, fs
  <2>7. QED
    BY <2>5, <2>6
<1>8. n + 1 \in S
  <2> HIDE DEF S
  <2>1. \A i \in 1 .. n + 1 : i \in S
    BY <1>1, <1>6, <1>7, Induction
  <2>2. QED
    BY <1>1, <2>1
<1> DEFINE r == [c EXCEPT !.entries = g[n + 1]]
<1>9. g[n + 1] \in Seq(Entries) /\ Distinct(g[n + 1]) /\ Remain(g[n + 1], es, names, n + 1)
  BY <1>3, <1>8
<1>10. r.entries = g[n + 1]
  BY DEF Archives
<1>11. r \in Archives /\ r.endian = c.endian
  BY <1>9, WithEntries
<1> HIDE DEF r
<1>12. QED
  BY <1>5, <1>9, <1>10, <1>11 DEF r, n, es
-----------------------------------------------------------------------------
(* What an archive says *)

(* The name an id stands for. *)
LEMMA NameById ==
    ASSUME NEW c \in Archives, NEW i \in DOMAIN c.entries, NEW id, c.entries[i].id = id
    PROVE  NameOf(c, id) = c.entries[i].name
<1>1. \A k \in DOMAIN c.entries : c.entries[k].id = id => k = i
  BY DEF Archives
<1>2. (CHOOSE k \in DOMAIN c.entries : c.entries[k].id = id) = i
  BY <1>1, Zenon
<1>3. QED
  BY <1>2, Zenon DEF NameOf

(* The description of an archive, entry by entry,                            *)
LEMMA DescribedEntries ==
    ASSUME NEW c
    PROVE  /\ DOMAIN Describe(c) = DOMAIN c.entries
           /\ \A i \in DOMAIN c.entries :
                Describe(c)[i] =
                  [name |-> c.entries[i].name, src |-> c.entries[i].src,
                   links |-> [j \in DOMAIN c.entries[i].links |->
                                NameOf(c, c.entries[i].links[j])]]
<1> DEFINE links(i) == [j \in DOMAIN c.entries[i].links |-> NameOf(c, c.entries[i].links[j])]
           said(i) == [name |-> c.entries[i].name, src |-> c.entries[i].src,
                       links |-> links(i)]
<1>1. Describe(c) = [i \in DOMAIN c.entries |-> said(i)]
  BY DEF Describe
<1>2. \A i \in DOMAIN c.entries : Describe(c)[i] = said(i)
  BY <1>1
<1>3. DOMAIN Describe(c) = DOMAIN c.entries
  <2> HIDE DEF said
  <2>1. QED
    BY <1>1
<1>4. QED
  BY <1>2, <1>3, Zenon

(* the links of each, *)
LEMMA DescribedLinks ==
    ASSUME NEW c, NEW i \in DOMAIN c.entries
    PROVE  Describe(c)[i].links =
             [j \in DOMAIN c.entries[i].links |-> NameOf(c, c.entries[i].links[j])]
<1> DEFINE l == [j \in DOMAIN c.entries[i].links |-> NameOf(c, c.entries[i].links[j])]
<1>1. Describe(c)[i] = [name |-> c.entries[i].name, src |-> c.entries[i].src, links |-> l]
  BY DescribedEntries
<1> HIDE DEF l
<1>2. Describe(c)[i].links = l
  BY <1>1
<1>3. QED
  BY <1>2 DEF l

(* and member by member. *)
LEMMA Described ==
    ASSUME NEW c
    PROVE  /\ DOMAIN Describe(c) = DOMAIN c.entries
           /\ \A i \in DOMAIN c.entries :
                /\ Describe(c)[i].name = c.entries[i].name
                /\ Describe(c)[i].src = c.entries[i].src
                /\ DOMAIN Describe(c)[i].links = DOMAIN c.entries[i].links
                /\ \A j \in DOMAIN c.entries[i].links :
                     Describe(c)[i].links[j] = NameOf(c, c.entries[i].links[j])
<1> SUFFICES ASSUME NEW i \in DOMAIN c.entries
             PROVE  /\ Describe(c)[i].name = c.entries[i].name
                    /\ Describe(c)[i].src = c.entries[i].src
                    /\ DOMAIN Describe(c)[i].links = DOMAIN c.entries[i].links
                    /\ \A j \in DOMAIN c.entries[i].links :
                         Describe(c)[i].links[j] = NameOf(c, c.entries[i].links[j])
  BY DescribedEntries
<1> DEFINE l == [j \in DOMAIN c.entries[i].links |-> NameOf(c, c.entries[i].links[j])]
<1>1. Describe(c)[i] = [name |-> c.entries[i].name, src |-> c.entries[i].src, links |-> l]
  BY DescribedEntries
<1>2. /\ DOMAIN l = DOMAIN c.entries[i].links
      /\ \A j \in DOMAIN c.entries[i].links : l[j] = NameOf(c, c.entries[i].links[j])
  OBVIOUS
<1> HIDE DEF l
<1>3. QED
  BY <1>1, <1>2

(* The names it speaks of. *)
LEMMA NamesDescribed ==
    ASSUME NEW c
    PROVE  Store!NamesOf(Describe(c)) = NamesIn(c)
<1>1. \A x : x \in Store!NamesOf(Describe(c)) <=> \E i \in DOMAIN Describe(c) : x = Describe(c)[i].name
  BY DEF Store!NamesOf
<1>2. \A x : x \in NamesIn(c) <=> \E i \in DOMAIN c.entries : x = c.entries[i].name
  BY DEF NamesIn
<1>3. /\ DOMAIN Describe(c) = DOMAIN c.entries
      /\ \A i \in DOMAIN c.entries : Describe(c)[i].name = c.entries[i].name
  BY Described
<1>4. \A x : x \in Store!NamesOf(Describe(c)) <=> x \in NamesIn(c)
  BY <1>1, <1>2, <1>3
<1>5. QED
  BY <1>4

(* Every file has one entry, and every link leads to one, if it does so in   *)
(* memory.                                                                   *)
LEMMA ClosedDescribed ==
    ASSUME NEW c \in Archives, Linked(c), Keyed(c)
    PROVE  Store!Closed(Describe(c))
<1> DEFINE list == Describe(c)
<1>1. DOMAIN list = DOMAIN c.entries /\ \A i \in DOMAIN c.entries : list[i].name = c.entries[i].name
  BY Described
<1>links. \A i \in DOMAIN c.entries :
        /\ DOMAIN list[i].links = DOMAIN c.entries[i].links
        /\ \A j \in DOMAIN c.entries[i].links :
             list[i].links[j] = NameOf(c, c.entries[i].links[j])
  BY Described
<1>names. Store!NamesOf(list) = NamesIn(c)
  BY NamesDescribed
<1> HIDE DEF list
<1>2. ASSUME NEW i \in DOMAIN list, NEW j \in DOMAIN list[i].links
      PROVE  list[i].links[j] \in Store!NamesOf(list)
  <2>1. i \in DOMAIN c.entries /\ j \in DOMAIN c.entries[i].links
        /\ list[i].links[j] = NameOf(c, c.entries[i].links[j])
    BY <1>links, <1>1, <1>2
  <2>2. c.entries[i].links[j] \in Ids(c)
    BY <2>1 DEF Linked, ToSet
  <2>3. PICK k \in DOMAIN c.entries : c.entries[k].id = c.entries[i].links[j]
    BY <2>2 DEF Ids
  <2>4. list[i].links[j] = c.entries[k].name
    BY <2>1, <2>3, NameById
  <2>5. c.entries[k].name \in NamesIn(c)
    BY DEF NamesIn
  <2>6. QED
    BY <1>names, <2>4, <2>5
<1>3. \A i, j \in DOMAIN list : list[i].name = list[j].name => i = j
  BY <1>1 DEF Keyed
<1>4. Store!Closed(list)
  BY <1>2, <1>3 DEF Store!Closed
<1>5. QED
  BY <1>4 DEF list

(* Only the entries matter for what an archive says, and for its links. *)
LEMMA SameEntries ==
    ASSUME NEW c, NEW d, c.entries = d.entries
    PROVE  /\ Describe(c) = Describe(d)
           /\ Linked(c) = Linked(d) /\ Keyed(c) = Keyed(d) /\ Ids(c) = Ids(d)
<1>1. \A id : NameOf(c, id) = NameOf(d, id)
  BY Zenon DEF NameOf
<1>2. Describe(c) = Describe(d)
  BY <1>1, Zenon DEF Describe
<1>3. Ids(c) = Ids(d)
  BY Zenon DEF Ids
<1>4. Linked(c) = Linked(d)
  BY <1>3, Zenon DEF Linked
<1>5. Keyed(c) = Keyed(d)
  BY Zenon DEF Keyed
<1>6. QED
  BY <1>2, <1>3, <1>4, <1>5

(* What is read back has its links and its names.                            *)
LEMMA ReadBackKeyed ==
    ASSUME NEW d, Counted(d), Linked(d)
    PROVE  Linked(ReadBack(d)) /\ (Keyed(d) => Keyed(ReadBack(d)))
<1> DEFINE r == ReadBack(d)
           n == Len(d.entries)
<1>1. d \in Archives /\ n \in Nat /\ DOMAIN d.entries = 1 .. n
  BY EntriesOf DEF Counted
<1>2. /\ DOMAIN r.entries = 1 .. n
      /\ \A i \in 1 .. n :
           /\ r.entries[i].id = i /\ r.entries[i].name = d.entries[i].name
           /\ r.entries[i].links = [j \in 1 .. Len(d.entries[i].links) |->
                                      IndexOf(d, d.entries[i].links[j]) + 1]
  BY DEF ReadBack
<1> HIDE DEF r
<1>3. ASSUME NEW i \in 1 .. n, NEW j \in 1 .. Len(d.entries[i].links)
      PROVE  IndexOf(d, d.entries[i].links[j]) + 1 \in 1 .. n
  <2>1. i \in DOMAIN d.entries /\ j \in DOMAIN d.entries[i].links
    BY <1>1, EntriesOf
  <2>2. QED
    BY <1>1, <2>1, LinksRead
<1>4. Ids(r) = 1 .. n
  <2>1. DOMAIN r.entries = 1 .. n /\ \A i \in 1 .. n : r.entries[i].id = i
    BY <1>2, Zenon
  <2> HIDE DEF n
  <2>2. QED
    BY <2>1 DEF Ids
<1>5. ASSUME NEW i \in 1 .. n PROVE ToSet(r.entries[i].links) \subseteq 1 .. n
  <2> DEFINE at(j) == IndexOf(d, d.entries[i].links[j]) + 1
             L == 1 .. Len(d.entries[i].links)
  <2>0. r.entries[i].links = [j \in L |-> at(j)]
    BY <1>2, Zenon
  <2>1. \A j \in L : at(j) \in 1 .. n
    BY <1>3
  <2> DEFINE ls == r.entries[i].links
             N == 1 .. n
  <2> HIDE DEF at, L, n
  <2>2. ls = [j \in L |-> at(j)] /\ \A j \in L : at(j) \in N
    BY <2>0, <2>1
  <2> HIDE DEF ls, N
  <2>3. ToSet(ls) \subseteq N
    BY <2>2 DEF ToSet
  <2>4. QED
    BY <2>3 DEF ls, N
<1>6. Linked(r)
  <2> HIDE DEF n
  <2>1. QED
    BY <1>2, <1>4, <1>5 DEF Linked
<1>7. Keyed(d) => Keyed(r)
  <2> HIDE DEF n
  <2>1. QED
    BY <1>1, <1>2 DEF Keyed
<1>8. QED
  BY <1>6, <1>7 DEF r
-----------------------------------------------------------------------------
(* Files that are added, changed and erased *)

(* r is c, or c and an entry for the name behind it. *)
FileMade(r, c, name) ==
    /\ Len(c.entries) <= Len(r.entries)
    /\ \A i \in DOMAIN c.entries : r.entries[i] = c.entries[i]
    /\ \A i \in DOMAIN r.entries :
         i > Len(c.entries) => r.entries[i].name = name /\ r.entries[i].links = <<>>
    /\ name \in NamesIn(r)

(* GetOrCreateFile adds a file that was not there.                           *)
LEMMA FileMadeOnce ==
    ASSUME NEW c \in Archives, NEW name \in Names
    PROVE  /\ FileMade(GetOrCreateFile(c, name), c, name)
           /\ Keyed(c) => Keyed(GetOrCreateFile(c, name))
<1> DEFINE n == Len(c.entries)
           e == [id |-> FreshId(c), name |-> name, src |-> 0, links |-> <<>>]
           es == Append(c.entries, e)
<1>1. n \in Nat /\ DOMAIN c.entries = 1 .. n /\ c.entries \in Seq(Entries)
  BY EntriesOf
<1>2. CASE name \in NamesIn(c)
  BY <1>1, <1>2 DEF GetOrCreateFile, FileMade
<1>3. CASE name \notin NamesIn(c)
  <2> DEFINE r == [c EXCEPT !.entries = es]
  <2>1. GetOrCreateFile(c, name) = r
    BY <1>3 DEF GetOrCreateFile
  <2>2. r.entries = es
    BY DEF Archives
  <2> HIDE DEF r
  <2>3. e.name = name /\ e.links = <<>>
    OBVIOUS
  <2> HIDE DEF e
  <2>4. /\ Len(es) = n + 1 /\ DOMAIN es = 1 .. n + 1
        /\ es[n + 1] = e /\ \A i \in 1 .. n : es[i] = c.entries[i]
    BY <1>1
  <2> HIDE DEF es, n
  <2>5. \A i \in 1 .. n + 1 : i \in 1 .. n \/ i = n + 1
    BY <1>1
  <2>6. Len(c.entries) = n
    BY DEF n
  <2>7. name \in NamesIn(r)
    <3>1. n + 1 \in DOMAIN r.entries /\ r.entries[n + 1].name = name
      BY <1>1, <2>2, <2>3, <2>4
    <3>2. QED
      BY <3>1 DEF NamesIn
  <2>8. FileMade(r, c, name)
    <3>1. n <= n + 1 /\ \A i \in 1 .. n : ~(i > n)
      BY <1>1
    <3>2. \A i \in DOMAIN es : i > n => es[i].name = name /\ es[i].links = <<>>
      BY <2>3, <2>4, <2>5, <3>1
    <3>3. QED
      BY <1>1, <2>2, <2>4, <2>6, <2>7, <3>1, <3>2 DEF FileMade
  <2>9. Keyed(c) => Keyed(r)
    <3> SUFFICES ASSUME Keyed(c), NEW i \in DOMAIN es, NEW j \in DOMAIN es,
                        es[i].name = es[j].name
                 PROVE  i = j
      BY <2>2 DEF Keyed
    <3>1. \A k \in 1 .. n : c.entries[k].name # name
      BY <1>1, <1>3 DEF NamesIn
    <3>2. CASE i \in 1 .. n /\ j \in 1 .. n
      BY <1>1, <2>4, <3>2 DEF Keyed
    <3>3. CASE i = n + 1 \/ j = n + 1
      BY <2>3, <2>4, <2>5, <3>1, <3>3
    <3>4. QED
      BY <2>4, <2>5, <3>2, <3>3
  <2>10. QED
    BY <2>1, <2>8, <2>9
<1>4. QED
  BY <1>2, <1>3

(* The entries of r are those of c but for their sources and links. *)
SameNames(r, c) ==
    /\ DOMAIN r.entries = DOMAIN c.entries
    /\ \A i \in DOMAIN c.entries :
         r.entries[i].name = c.entries[i].name /\ r.entries[i].id = c.entries[i].id

(* So they have the same names and ids.                                      *)
LEMMA NamesKept ==
    ASSUME NEW c, NEW r, SameNames(r, c)
    PROVE  NamesIn(r) = NamesIn(c) /\ Ids(r) = Ids(c) /\ (Keyed(c) => Keyed(r))
<1>1. \A x : x \in NamesIn(r) <=> x \in NamesIn(c)
  BY DEF SameNames, NamesIn
<1>2. \A x : x \in Ids(r) <=> x \in Ids(c)
  BY DEF SameNames, Ids
<1>3. Keyed(c) => Keyed(r)
  BY DEF SameNames, Keyed
<1>4. QED
  BY <1>1, <1>2, <1>3

(* A new source changes nothing else. *)
SourceMade(r, c, name, src) ==
    \A i \in DOMAIN c.entries :
        /\ r.entries[i].links = c.entries[i].links
        /\ r.entries[i].src = IF c.entries[i].name = name THEN src ELSE c.entries[i].src

(* SetSource gives the file of the name its source.                          *)
LEMMA SourceMadeOnce ==
    ASSUME NEW c \in Archives, NEW name \in Names, NEW src \in Nat
    PROVE  /\ SameNames(SetSource(c, name, src), c)
           /\ SourceMade(SetSource(c, name, src), c, name, src)
<1> DEFINE entry(i) == IF c.entries[i].name = name
                       THEN [c.entries[i] EXCEPT !.src = src] ELSE c.entries[i]
           es == [i \in DOMAIN c.entries |-> entry(i)]
           r == [c EXCEPT !.entries = es]
<1>1. SetSource(c, name, src) = r /\ r.entries = es
  BY DEF SetSource, Archives
<1> HIDE DEF r
<1>2. ASSUME NEW e \in Entries
      PROVE  /\ [e EXCEPT !.src = src].id = e.id /\ [e EXCEPT !.src = src].name = e.name
             /\ [e EXCEPT !.src = src].links = e.links /\ [e EXCEPT !.src = src].src = src
  BY DEF Entries
<1>3. ASSUME NEW i \in DOMAIN c.entries
      PROVE  /\ entry(i).id = c.entries[i].id /\ entry(i).name = c.entries[i].name
             /\ entry(i).links = c.entries[i].links
             /\ entry(i).src = IF c.entries[i].name = name THEN src ELSE c.entries[i].src
  <2>1. c.entries[i] \in Entries
    BY EntriesOf
  <2>2. QED
    BY <1>2, <2>1
<1> HIDE DEF entry
<1>4. DOMAIN es = DOMAIN c.entries /\ \A i \in DOMAIN c.entries : es[i] = entry(i)
  OBVIOUS
<1> HIDE DEF es
<1>5. SameNames(r, c)
  BY <1>1, <1>3, <1>4 DEF SameNames
<1>6. SourceMade(r, c, name, src)
  BY <1>1, <1>3, <1>4 DEF SourceMade
<1>7. QED
  BY <1>1, <1>5, <1>6

(* The entries of the archive are where they were, but for their sources. *)
Stays(c, old) ==
    /\ Len(old.entries) <= Len(c.entries)
    /\ \A i \in DOMAIN old.entries :
         /\ c.entries[i].id = old.entries[i].id
         /\ c.entries[i].name = old.entries[i].name
         /\ c.entries[i].links = old.entries[i].links

(* UpdateFromDir has met the files `seen` of the directory.                  *)
Listed(c, old, seen, dir) ==
    /\ Stays(c, old)
    /\ \A i \in DOMAIN c.entries :
         i > Len(old.entries) => c.entries[i].links = <<>>
    /\ seen \subseteq NamesIn(c)
    /\ \A i \in DOMAIN c.entries :
         c.entries[i].name \in seen => c.entries[i].src = dir[c.entries[i].name]

(* It begins with what was read, *)
LEMMA ListingBegins ==
    ASSUME NEW c \in Archives, NEW dir
    PROVE  Listed(c, c, {}, dir)
<1>1. Len(c.entries) \in Nat /\ DOMAIN c.entries = 1 .. Len(c.entries)
  BY EntriesOf
<1>2. \A i \in DOMAIN c.entries : ~(i > Len(c.entries))
  BY <1>1
<1>3. Stays(c, c)
  BY <1>1 DEF Stays
<1>4. QED
  BY <1>2, <1>3 DEF Listed

(* and goes on with the next file.                                           *)
LEMMA ListingGoesOn ==
    ASSUME NEW c \in Archives, NEW old \in Archives, NEW n \in Names, NEW dir,
           dir[n] \in Nat, NEW seen, Listed(c, old, seen, dir)
    PROVE  Listed(SetSource(GetOrCreateFile(c, n), n, dir[n]), old, seen \cup {n}, dir)
<1> DEFINE g == GetOrCreateFile(c, n)
           src == dir[n]
           r == SetSource(g, n, src)
           m == Len(old.entries)
<1>1. g \in Archives /\ FileMade(g, c, n)
  BY FileCreated, FileMadeOnce
<1> HIDE DEF g
<1>2. SameNames(r, g) /\ SourceMade(r, g, n, src) /\ r \in Archives
  <2> HIDE DEF src
  <2>1. src \in Nat
    BY DEF src
  <2>2. QED
    BY <1>1, <2>1, SourceMadeOnce, SourceSet
<1> HIDE DEF r
<1>3. /\ m \in Nat /\ DOMAIN old.entries = 1 .. m
      /\ Len(c.entries) \in Nat /\ DOMAIN c.entries = 1 .. Len(c.entries)
      /\ Len(g.entries) \in Nat /\ DOMAIN g.entries = 1 .. Len(g.entries)
      /\ Len(r.entries) \in Nat /\ DOMAIN r.entries = 1 .. Len(r.entries)
  BY <1>1, <1>2, EntriesOf
<1>4. m <= Len(c.entries) /\ Len(c.entries) <= Len(g.entries) /\ Len(r.entries) = Len(g.entries)
  BY <1>1, <1>2, <1>3 DEF Listed, Stays, FileMade, SameNames
<1>5. \A i \in DOMAIN old.entries : i \in DOMAIN c.entries /\ i \in DOMAIN g.entries
  BY <1>3, <1>4
<1>6. \A i \in DOMAIN g.entries : i \in DOMAIN c.entries \/ (i > Len(c.entries) /\ i > m)
  BY <1>3, <1>4
<1>7. Stays(r, old)
  <2>1. \A i \in DOMAIN old.entries : g.entries[i] = c.entries[i]
    BY <1>1, <1>5 DEF FileMade
  <2> HIDE DEF m
  <2>2. ASSUME NEW i \in DOMAIN old.entries
        PROVE  /\ r.entries[i].id = old.entries[i].id
               /\ r.entries[i].name = old.entries[i].name
               /\ r.entries[i].links = old.entries[i].links
    BY <1>2, <1>5, <2>1 DEF Listed, Stays, SameNames, SourceMade
  <2>3. Len(old.entries) <= Len(r.entries)
    BY <1>3, <1>4 DEF m
  <2>4. QED
    BY <2>2, <2>3 DEF Stays
<1>8. ASSUME NEW i \in DOMAIN r.entries, i > m
      PROVE  r.entries[i].links = <<>>
  <2>1. i \in DOMAIN g.entries /\ r.entries[i].links = g.entries[i].links
    BY <1>2 DEF SameNames, SourceMade
  <2>2. CASE i \in DOMAIN c.entries
    BY <1>1, <1>8, <2>1, <2>2 DEF FileMade, Listed
  <2>3. CASE i > Len(c.entries)
    BY <1>1, <2>1, <2>3 DEF FileMade
  <2>4. QED
    BY <1>6, <2>1, <2>2, <2>3
<1>9. seen \cup {n} \subseteq NamesIn(r)
  <2>1. NamesIn(r) = NamesIn(g)
    BY <1>2, NamesKept
  <2>2. n \in NamesIn(g)
    BY <1>1 DEF FileMade
  <2>3. ASSUME NEW x \in seen PROVE x \in NamesIn(g)
    <3>1. PICK i \in DOMAIN c.entries : c.entries[i].name = x
      BY DEF Listed, NamesIn
    <3>2. i \in DOMAIN g.entries /\ g.entries[i].name = x
      BY <1>1, <1>3, <1>4, <3>1 DEF FileMade
    <3>3. QED
      BY <3>2 DEF NamesIn
  <2>4. QED
    BY <2>1, <2>2, <2>3
<1>10. ASSUME NEW i \in DOMAIN r.entries, r.entries[i].name \in seen \cup {n}
       PROVE  r.entries[i].src = dir[r.entries[i].name]
  <2>1. /\ i \in DOMAIN g.entries /\ r.entries[i].name = g.entries[i].name
        /\ r.entries[i].src = IF g.entries[i].name = n THEN src ELSE g.entries[i].src
    BY <1>2 DEF SameNames, SourceMade
  <2>2. CASE g.entries[i].name = n
    BY <2>1, <2>2
  <2>3. CASE g.entries[i].name # n
    <3>1. i \in DOMAIN c.entries /\ g.entries[i] = c.entries[i]
      BY <1>1, <1>6, <2>1, <2>3 DEF FileMade
    <3>2. c.entries[i].name \in seen
      BY <1>10, <2>1, <2>3, <3>1
    <3>3. c.entries[i].src = dir[c.entries[i].name]
      BY <3>1, <3>2 DEF Listed
    <3>4. QED
      BY <2>1, <2>3, <3>1, <3>3
  <2>4. QED
    BY <2>2, <2>3
<1>11. Listed(r, old, seen \cup {n}, dir)
  BY <1>7, <1>8, <1>9, <1>10 DEF Listed
<1>12. QED
  BY <1>11 DEF r, g

(* r has the entries of c that are not erased, in order.                     *)
LEMMA ErasedEntries ==
    ASSUME NEW c \in Archives, NEW names, NEW r, r = Erase(c, names)
    PROVE  /\ r \in Archives /\ r.endian = c.endian
           /\ \A k \in DOMAIN r.entries : \E p \in DOMAIN c.entries :
                r.entries[k] = c.entries[p] /\ c.entries[p].name \notin names
           /\ \A k, l \in DOMAIN r.entries :
                k < l => \E p, q \in DOMAIN c.entries :
                           p < q /\ r.entries[k] = c.entries[p] /\ r.entries[l] = c.entries[q]
           /\ \A p \in DOMAIN c.entries :
                c.entries[p].name \notin names =>
                  \E k \in DOMAIN r.entries : r.entries[k] = c.entries[p]
<1> DEFINE n == Len(c.entries)
           k == n + 1
<1>1. r \in Archives /\ r.endian = c.endian /\ Remain(r.entries, c.entries, names, k)
  BY Erased
<1> DEFINE P == 1 .. k - 1
<1>2. P = DOMAIN c.entries
  BY EntriesOf
<1> HIDE DEF n, k
<1>3. /\ \A l \in DOMAIN r.entries : \E p \in P :
           r.entries[l] = c.entries[p] /\ c.entries[p].name \notin names
      /\ \A m, l \in DOMAIN r.entries :
           m < l => \E p, q \in P :
                      p < q /\ r.entries[m] = c.entries[p] /\ r.entries[l] = c.entries[q]
      /\ \A p \in P :
           c.entries[p].name \notin names =>
             \E l \in DOMAIN r.entries : r.entries[l] = c.entries[p]
  BY <1>1, Zenon DEF Remain
<1> HIDE DEF P
<1>4. QED
  BY <1>1, <1>2, <1>3

(* Their names are as distinct as they were. *)
LEMMA ErasedKeyed ==
    ASSUME NEW c \in Archives, NEW names, Keyed(c)
    PROVE  Keyed(Erase(c, names))
<1> DEFINE r == Erase(c, names)
<1>1. r \in Archives
  BY ErasedEntries
<1>2. \A k, l \in DOMAIN r.entries :
        k < l => \E p, q \in DOMAIN c.entries :
                   p < q /\ r.entries[k] = c.entries[p] /\ r.entries[l] = c.entries[q]
  BY ErasedEntries
<1> HIDE DEF r
<1>3. ASSUME NEW k \in DOMAIN r.entries, NEW l \in DOMAIN r.entries, k < l
      PROVE  r.entries[k].name # r.entries[l].name
  <2>1. PICK p \in DOMAIN c.entries, q \in DOMAIN c.entries :
          p < q /\ r.entries[k] = c.entries[p] /\ r.entries[l] = c.entries[q]
    BY <1>2, <1>3
  <2>2. p # q
    <3>1. p \in Nat /\ q \in Nat
      BY EntriesOf
    <3>2. QED
      BY <2>1, <3>1
  <2>3. QED
    BY <2>1, <2>2 DEF Keyed
<1>4. \A k, l \in DOMAIN r.entries : k < l \/ l < k \/ k = l
  BY <1>1, EntriesOf
<1>5. Keyed(r)
  BY <1>3, <1>4 DEF Keyed
<1>6. QED
  BY <1>5 DEF r

(* An entry that stays has the links it had: in memory they are the same,    *)
(* and they lead to entries with the names they led to.                      *)
LEMMA LinksStay ==
    ASSUME NEW c \in Archives, NEW old \in Archives, Stays(c, old), Linked(old),
           NEW r \in Archives, Linked(r),
           \A k \in DOMAIN r.entries : \E p \in DOMAIN c.entries : r.entries[k] = c.entries[p],
           NEW j \in DOMAIN old.entries, NEW i \in DOMAIN r.entries,
           r.entries[i] = c.entries[j]
    PROVE  Describe(r)[i].links = Describe(old)[j].links
<1> DEFINE links == old.entries[j].links
<1>1. r.entries[i].links = links
  BY DEF Stays
<1> HIDE DEF links
<1>2. ASSUME NEW x \in DOMAIN links
      PROVE  NameOf(r, links[x]) = NameOf(old, links[x])
  <2> DEFINE id == links[x]
  <2>1. id \in Ids(r) /\ id \in Ids(old)
    BY <1>1 DEF Linked, ToSet, links
  <2> HIDE DEF id
  <2>2. PICK k \in DOMAIN r.entries : r.entries[k].id = id
    BY <2>1 DEF Ids
  <2>3. PICK s \in DOMAIN old.entries : old.entries[s].id = id
    BY <2>1 DEF Ids
  <2>4. PICK p \in DOMAIN c.entries : r.entries[k] = c.entries[p]
    OBVIOUS
  <2>5. s \in DOMAIN c.entries /\ c.entries[s].id = id /\ c.entries[s].name = old.entries[s].name
    <3>1. s \in DOMAIN c.entries
      <4>1. /\ Len(old.entries) \in Nat /\ DOMAIN old.entries = 1 .. Len(old.entries)
            /\ Len(c.entries) \in Nat /\ DOMAIN c.entries = 1 .. Len(c.entries)
            /\ Len(old.entries) <= Len(c.entries)
        BY EntriesOf DEF Stays
      <4>2. QED
        BY <4>1
    <3>2. QED
      BY <2>3, <3>1 DEF Stays
  <2>6. p = s
    BY <2>2, <2>4, <2>5 DEF Archives
  <2>7. NameOf(r, id) = r.entries[k].name /\ NameOf(old, id) = old.entries[s].name
    BY <2>2, <2>3, NameById
  <2>8. QED
    BY <2>4, <2>5, <2>6, <2>7 DEF id
<1> DEFINE said(a) == [x \in DOMAIN links |-> NameOf(a, links[x])]
<1>3. said(r) = said(old)
  BY <1>2
<1>4. Describe(r)[i].links = said(r)
  <2>1. Describe(r)[i].links =
          [x \in DOMAIN r.entries[i].links |-> NameOf(r, r.entries[i].links[x])]
    BY DescribedLinks
  <2>2. QED
    BY <1>1, <2>1, Zenon
<1>5. Describe(old)[j].links = said(old)
  BY DescribedLinks DEF links
<1>6. QED
  BY <1>3, <1>4, <1>5, Zenon

Missing == {n \in Names : folder[n] = Absent}

(* What is left when the directory was listed and what is missing erased is  *)
(* what packing should make of the archive, if no link dangles.              *)
LEMMA ListedPacked ==
    ASSUME NEW c \in Archives, Keyed(c), NEW old \in Archives, Linked(old),
           Listed(c, old, DirNames, folder), Linked(Erase(c, Missing))
    PROVE  Store!Packed(Describe(Erase(c, Missing)), Describe(old))
<1> DEFINE r == Erase(c, Missing)
           new == Describe(r)
           was == Describe(old)
<1>1. /\ r \in Archives
      /\ \A k \in DOMAIN r.entries : \E p \in DOMAIN c.entries :
           r.entries[k] = c.entries[p] /\ c.entries[p].name \notin Missing
      /\ \A k, l \in DOMAIN r.entries :
           k < l => \E p, q \in DOMAIN c.entries :
                      p < q /\ r.entries[k] = c.entries[p] /\ r.entries[l] = c.entries[q]
      /\ \A p \in DOMAIN c.entries :
           c.entries[p].name \notin Missing =>
             \E k \in DOMAIN r.entries : r.entries[k] = c.entries[p]
  BY ErasedEntries
<1>2. Keyed(r) /\ Linked(r)
  BY ErasedKeyed
<1> HIDE DEF r
<1>3. Store!Closed(new)
  BY <1>1, <1>2, ClosedDescribed
<1>4. /\ DOMAIN new = DOMAIN r.entries /\ DOMAIN was = DOMAIN old.entries
      /\ \A i \in DOMAIN r.entries : new[i].name = r.entries[i].name
                                     /\ new[i].src = r.entries[i].src
      /\ \A i \in DOMAIN old.entries : was[i].name = old.entries[i].name
  BY Described
<1>5. Store!NamesOf(new) = NamesIn(r) /\ Store!NamesOf(was) = NamesIn(old)
  BY NamesDescribed
<1>6. Stays(c, old) /\ \A k \in DOMAIN r.entries : \E p \in DOMAIN c.entries :
                         r.entries[k] = c.entries[p]
  BY <1>1 DEF Listed
<1>7. /\ Len(old.entries) \in Nat /\ DOMAIN old.entries = 1 .. Len(old.entries)
      /\ Len(c.entries) \in Nat /\ DOMAIN c.entries = 1 .. Len(c.entries)
      /\ Len(old.entries) <= Len(c.entries)
  BY <1>6, EntriesOf DEF Stays
<1>8. \A i \in DOMAIN old.entries : i \in DOMAIN c.entries /\ c.entries[i].name = old.entries[i].name
  BY <1>6, <1>7 DEF Stays
<1>9. ASSUME NEW i \in DOMAIN r.entries, NEW j \in DOMAIN old.entries,
             old.entries[j].name = r.entries[i].name
      PROVE  r.entries[i] = c.entries[j]
  <2>1. PICK p \in DOMAIN c.entries : r.entries[i] = c.entries[p]
    BY <1>1
  <2>2. p = j
    BY <1>8, <1>9, <2>1 DEF Keyed
  <2>3. QED
    BY <2>1, <2>2
<1>10. ASSUME NEW i \in DOMAIN r.entries, NEW j \in DOMAIN old.entries,
              old.entries[j].name = r.entries[i].name
       PROVE  new[i].links = was[j].links
  <2>1. r.entries[i] = c.entries[j]
    BY <1>9, <1>10
  <2>2. QED
    BY <1>1, <1>2, <1>6, <2>1, LinksStay
<1>11. ASSUME NEW i \in DOMAIN r.entries, r.entries[i].name \notin NamesIn(old)
       PROVE  new[i].links = <<>>
  <2>1. PICK p \in DOMAIN c.entries : r.entries[i] = c.entries[p]
    BY <1>1
  <2>2. p \notin DOMAIN old.entries
    BY <1>8, <1>11, <2>1 DEF NamesIn
  <2>3. p > Len(old.entries)
    BY <1>7, <2>2
  <2>4. r.entries[i].links = <<>>
    BY <2>1, <2>3 DEF Listed
  <2>5. new[i].links = [j \in DOMAIN r.entries[i].links |-> NameOf(r, r.entries[i].links[j])]
    BY DescribedLinks
  <2>6. DOMAIN r.entries[i].links = {}
    BY <2>4
  <2> HIDE DEF new
  <2>7. QED
    BY <2>5, <2>6
<1>12. ASSUME NEW i \in DOMAIN r.entries
       PROVE  new[i].src = folder[new[i].name] /\ r.entries[i].name \in DirNames
  <2>1. PICK p \in DOMAIN c.entries :
          r.entries[i] = c.entries[p] /\ c.entries[p].name \notin Missing
    BY <1>1
  <2>2. c.entries[p].name \in DirNames
    BY <2>1, EntriesOf DEF Missing, DirNames
  <2>3. c.entries[p].src = folder[c.entries[p].name]
    BY <2>2 DEF Listed
  <2>4. QED
    BY <1>4, <2>1, <2>2, <2>3
<1>13. NamesIn(r) = DirNames
  <2>1. ASSUME NEW x \in DirNames PROVE x \in NamesIn(r)
    <3>1. PICK p \in DOMAIN c.entries : c.entries[p].name = x
      BY DEF Listed, NamesIn
    <3>2. x \notin Missing
      BY DEF Missing, DirNames
    <3>3. PICK k \in DOMAIN r.entries : r.entries[k] = c.entries[p]
      BY <1>1, <3>1, <3>2
    <3>4. QED
      BY <3>1, <3>3 DEF NamesIn
  <2>2. ASSUME NEW x \in NamesIn(r) PROVE x \in DirNames
    BY <1>12 DEF NamesIn
  <2>3. QED
    BY <2>1, <2>2
<1>14. ASSUME NEW i \in DOMAIN r.entries, NEW j \in DOMAIN r.entries, i < j,
              r.entries[j].name \in NamesIn(old)
       PROVE  Store!InOrder(was, r.entries[i].name, r.entries[j].name)
  <2>1. PICK p \in DOMAIN c.entries, q \in DOMAIN c.entries :
          p < q /\ r.entries[i] = c.entries[p] /\ r.entries[j] = c.entries[q]
    BY <1>1, <1>14
  <2>2. PICK l \in DOMAIN old.entries : old.entries[l].name = r.entries[j].name
    BY <1>14 DEF NamesIn
  <2>3. q = l
    BY <1>8, <2>1, <2>2 DEF Keyed
  <2>4. p \in DOMAIN old.entries /\ q \in DOMAIN old.entries
    BY <1>7, <2>1, <2>2, <2>3
  <2>5. was[p].name = r.entries[i].name /\ was[q].name = r.entries[j].name
    BY <1>4, <1>8, <2>1, <2>4
  <2> HIDE DEF was
  <2>6. QED
    BY <1>4, <2>1, <2>4, <2>5 DEF Store!InOrder
<1> HIDE DEF new, was
<1>15. Store!NamesOf(new) = Store!Present
  BY <1>5, <1>13 DEF Store!Present, DirNames
<1>16. ASSUME NEW i \in DOMAIN new
       PROVE  /\ new[i].src = folder[new[i].name]
              /\ new[i].name \notin Store!NamesOf(was) => new[i].links = <<>>
              /\ \A j \in DOMAIN was :
                   was[j].name = new[i].name => new[i].links = was[j].links
  BY <1>4, <1>5, <1>10, <1>11, <1>12
<1>17. ASSUME NEW i \in DOMAIN new, NEW j \in DOMAIN new,
              i < j, new[j].name \in Store!NamesOf(was)
       PROVE  Store!InOrder(was, new[i].name, new[j].name)
  BY <1>4, <1>5, <1>14, <1>17
<1>18. Store!Packed(new, was)
  BY <1>3, <1>15, <1>16, <1>17 DEF Store!Packed
<1>19. QED
  BY <1>18 DEF new, was, r

(* Text that is imported changes one file. *)
LEMMA Imported ==
    ASSUME NEW c \in Archives, Keyed(c), Linked(c), NEW name \in NamesIn(c), NEW src \in Nat
    PROVE  \E i \in DOMAIN c.entries :
             /\ c.entries[i].name = name
             /\ Describe(SetSource(c, name, src)) = [Describe(c) EXCEPT ![i].src = src]
<1> DEFINE r == SetSource(c, name, src)
           new == Describe(r)
           was == Describe(c)
<1>1. PICK i \in DOMAIN c.entries : c.entries[i].name = name
  BY DEF NamesIn
<1>2. name \in Names
  BY <1>1, EntriesOf
<1>3. r \in Archives /\ SameNames(r, c) /\ SourceMade(r, c, name, src)
  BY <1>2, SourceSet, SourceMadeOnce
<1> HIDE DEF r
<1>4. /\ DOMAIN r.entries = DOMAIN c.entries
      /\ \A k \in DOMAIN c.entries :
           /\ r.entries[k].id = c.entries[k].id /\ r.entries[k].name = c.entries[k].name
           /\ r.entries[k].links = c.entries[k].links
           /\ r.entries[k].src = IF c.entries[k].name = name THEN src ELSE c.entries[k].src
  BY <1>3 DEF SameNames, SourceMade
<1>5. ASSUME NEW k \in DOMAIN c.entries, NEW j \in DOMAIN c.entries[k].links
      PROVE  NameOf(r, c.entries[k].links[j]) = NameOf(c, c.entries[k].links[j])
  <2> DEFINE id == c.entries[k].links[j]
  <2>1. id \in Ids(c)
    BY DEF Linked, ToSet
  <2> HIDE DEF id
  <2>2. PICK m \in DOMAIN c.entries : c.entries[m].id = id
    BY <2>1 DEF Ids
  <2>3. NameOf(c, id) = c.entries[m].name
    BY <2>2, NameById
  <2>4. NameOf(r, id) = r.entries[m].name
    BY <1>3, <1>4, <2>2, NameById
  <2>5. QED
    BY <1>4, <2>3, <2>4 DEF id
<1> DEFINE links(a, k) == [j \in DOMAIN a.entries[k].links |-> NameOf(a, a.entries[k].links[j])]
<1>6. ASSUME NEW k \in DOMAIN c.entries
      PROVE  links(r, k) = links(c, k)
  <2> DEFINE ls == c.entries[k].links
             said(a) == [j \in DOMAIN ls |-> NameOf(a, ls[j])]
  <2>1. said(r) = said(c)
    BY <1>5
  <2>2. r.entries[k].links = ls
    BY <1>4
  <2>3. links(r, k) = said(r)
    BY <2>2, Zenon
  <2>4. QED
    BY <2>1, <2>3, Zenon
<1>said. \A a : /\ DOMAIN Describe(a) = DOMAIN a.entries
            /\ \A k \in DOMAIN a.entries :
                 Describe(a)[k] = [name |-> a.entries[k].name, src |-> a.entries[k].src,
                                   links |-> links(a, k)]
  BY DescribedEntries, Zenon
<1> HIDE DEF links
<1>7. /\ DOMAIN new = DOMAIN c.entries /\ DOMAIN was = DOMAIN c.entries
      /\ \A k \in DOMAIN c.entries :
           /\ new[k] = [name |-> r.entries[k].name, src |-> r.entries[k].src,
                        links |-> links(r, k)]
           /\ was[k] = [name |-> c.entries[k].name, src |-> c.entries[k].src,
                        links |-> links(c, k)]
  BY <1>4, <1>said
<1> HIDE DEF new, was
<1>8. ASSUME NEW k \in DOMAIN c.entries
      PROVE  new[k] = IF k = i THEN [was[k] EXCEPT !.src = src] ELSE was[k]
  <2>1. CASE k = i
    <3>1. new[k] = [name |-> c.entries[k].name, src |-> src, links |-> links(c, k)]
      BY <1>1, <1>4, <1>6, <1>7, <2>1
    <3>2. was[k] = [name |-> c.entries[k].name, src |-> c.entries[k].src, links |-> links(c, k)]
      BY <1>7
    <3>3. [was[k] EXCEPT !.src = src] =
            [name |-> c.entries[k].name, src |-> src, links |-> links(c, k)]
      BY <3>2
    <3>4. QED
      BY <2>1, <3>1, <3>3
  <2>2. CASE k # i
    <3>1. c.entries[k].name # name
      BY <1>1, <2>2 DEF Keyed
    <3>2. r.entries[k].src = c.entries[k].src
      BY <1>4, <3>1
    <3>3. QED
      BY <1>4, <1>6, <1>7, <2>2, <3>2
  <2>3. QED
    BY <2>1, <2>2
<1>9. new = [k \in DOMAIN c.entries |-> new[k]]
  BY <1>7, DescribedEntries DEF new, Describe
<1>10. [was EXCEPT ![i].src = src] =
         [k \in DOMAIN c.entries |-> IF k = i THEN [was[k] EXCEPT !.src = src] ELSE was[k]]
  BY <1>7
<1>11. new = [was EXCEPT ![i].src = src]
  BY <1>8, <1>9, <1>10
<1>12. QED
  BY <1>1, <1>11 DEF new, was, r
-----------------------------------------------------------------------------
(* The tool *)

(* The archives of the game are in the byte order of the machine.            *)
NativeOrder == \A c \in Initial : c.endian = Native

(* No file is the mark of a file that is not there, or not whole.            *)
FilesApart == \A d \in Archives : Dump(d) \notin {Absent, Torn}

(* What a command may have written. *)
Dumps == {Dump(d) : d \in {c \in Archives : Counted(c) /\ Linked(c)}}

InMemory(c) == c \in Archives /\ c.endian = Native

Folders == [Names -> Nat \cup {Absent}]

(* The files that may be there, *)
DiskInv ==
    /\ archive \in Dumps \cup {Absent}
    /\ temp \in Dumps \cup {Absent}
    /\ out \in Dumps \cup {Absent, Torn}
    /\ archive = Absent => temp \in Dumps
    /\ folder \in Folders \cup {Absent}

(* and how far the command in progress is.                                   *)
CommandInv ==
    /\ pc \in {"idle", "listing", "unpacking", "importing", "session",
               "edited", "fixed", "written"}
    /\ pc # "idle" => InMemory(cl3)
    /\ pc \in {"listing", "unpacking"} => folder \in Folders
    /\ pc = "listing" => todo \subseteq Names /\ \A n \in todo : folder[n] \in Nat
    /\ pc = "unpacking" => todo \subseteq DOMAIN cl3.entries
    /\ pc \in {"fixed", "written"} => Counted(cl3)
    /\ pc = "written" => Linked(cl3) /\ temp = Dump(cl3)

ToolInv == DiskInv /\ CommandInv

(* What a command writes is one of the dumps.                                *)
LEMMA DumpIsDump ==
    ASSUME NEW d, Counted(d), Linked(d)
    PROVE  Dump(d) \in Dumps
BY DEF Dumps, Counted

(* A dump opens as what it was made from. *)
LEMMA DumpOpens ==
    ASSUME NEW f \in Dumps
    PROVE  Validates(f) /\ InMemory(Parse(f)) /\ (FilesApart => f \notin {Absent, Torn})
<1>1. PICK d \in Archives : Counted(d) /\ Linked(d) /\ f = Dump(d)
  BY DEF Dumps
<1>2. Validates(f) /\ Parse(f) = ReadBack(d)
  BY <1>1, DumpValidates, DumpParses
<1>3. ReadBack(d) \in Archives /\ ReadBack(d).endian = Native
  BY <1>1, ReadBackSame DEF ReadBack
<1>4. QED
  BY <1>1, <1>2, <1>3 DEF InMemory, FilesApart

(* An archive of the game is what a dump of it would be. *)
LEMMA GameFileIsDump ==
    ASSUME NativeOrder, NEW c \in Initial
    PROVE  GameFile(c) = Dump(Fixup(c)) /\ GameFile(c) \in Dumps
<1>1. c \in Archives /\ Linked(c) /\ c.endian = Native
  BY Cl3ToolAssumption DEF NativeOrder
<1> DEFINE d == Fixup(c)
<1>2. Counted(d) /\ Linked(d)
  BY <1>1, FixupCounts
<1> HIDE DEF d
<1>3. GameFile(c) = [Dump(d) EXCEPT !.sections[2].order = Native]
  BY <1>1 DEF GameFile, d
<1> DEFINE links == DataOffset(d) + d.data_size
           files == links - FilesOffset
           table == d.link_count * LinkEntrySize
           s1 == [count |-> Len(d.entries), data_size |-> files,
                  data_offset |-> FilesOffset, order |-> d.endian]
           s2 == [count |-> d.link_count, data_size |-> table,
                  data_offset |-> links, order |-> Native]
<1>4. Dump(d).sections = <<s1, s2>>
  BY DEF Dump, Sections
<1> HIDE DEF s1
<1>5. [s2 EXCEPT !.order = Native] = s2
  OBVIOUS
<1> HIDE DEF s2
<1>6. [<<s1, s2>> EXCEPT ![2] = s2] = <<s1, s2>>
  OBVIOUS
<1>7. [Dump(d) EXCEPT !.sections = <<s1, s2>>] = Dump(d)
  BY <1>4 DEF Dump
<1>8. [Dump(d) EXCEPT !.sections[2].order = Native] = Dump(d)
  <2>1. [Dump(d) EXCEPT !.sections[2].order = Native] =
          [Dump(d) EXCEPT !.sections =
             [Dump(d).sections EXCEPT ![2] = [Dump(d).sections[2] EXCEPT !.order = Native]]]
    OBVIOUS
  <2>2. Dump(d).sections[2] = s2
    BY <1>4
  <2>3. QED
    BY <1>4, <1>5, <1>6, <1>7, <2>1, <2>2
<1>9. QED
  BY <1>2, <1>3, <1>8, DumpIsDump DEF d

(* The archive of the game is a dump, and no command runs.                   *)
LEMMA ToolInit ==
    ASSUME NativeOrder, FilesApart
    PROVE  Init => ToolInv
<1> SUFFICES ASSUME Init PROVE ToolInv
  OBVIOUS
<1>1. archive \in Dumps
  BY GameFileIsDump DEF Init
<1>2. archive # Absent
  BY <1>1, DumpOpens
<1>3. QED
  BY <1>1, <1>2 DEF Init, ToolInv, DiskInv, CommandInv

(* The start of a command has the archive in memory. *)
LEMMA Opened ==
    ASSUME ToolInv, Open
    PROVE  InMemory(cl3') /\ pc = "idle"
<1>1. archive \in Dumps
  BY DEF ToolInv, DiskInv, Open
<1>2. QED
  BY <1>1, DumpOpens DEF Open
(* Between commands only the user changes files. *)
LEMMA UserSteps ==
    ASSUME FilesApart, ToolInv, EditFolder \/ TakeOut \/ Recover
    PROVE  ToolInv'
<1> USE DEF ToolInv, DiskInv, CommandInv
<1>1. CASE EditFolder
  <2>1. PICK n \in Names, c \in Contents \cup {Absent} : folder' = [folder EXCEPT ![n] = c]
    BY <1>1 DEF EditFolder
  <2>2. folder \in Folders
    BY <1>1 DEF EditFolder
  <2>3. folder' \in Folders
    BY <2>1, <2>2, Cl3ToolAssumption DEF Folders
  <2>4. QED
    BY <1>1, <2>3 DEF EditFolder
<1>2. CASE TakeOut
  <2>1. CASE archive' = out /\ Exists(out)
    <3>1. out \in Dumps /\ archive' # Absent
      BY <2>1 DEF Exists
    <3>2. QED
      BY <1>2, <2>1, <3>1 DEF TakeOut
  <2>2. CASE UNCHANGED archive
    BY <1>2, <2>2 DEF TakeOut
  <2>3. QED
    BY <1>2, <2>1, <2>2 DEF TakeOut
<1>3. CASE Recover
  <2>1. temp \in Dumps /\ archive' = temp
    BY <1>3 DEF Recover
  <2>2. archive' # Absent
    BY <2>1, DumpOpens
  <2>3. QED
    BY <1>3, <2>1, <2>2 DEF Recover
<1>4. QED
  BY <1>1, <1>2, <1>3

(* A command starts with the archive in memory.                              *)
LEMMA CommandSteps ==
    ASSUME ToolInv, Pack \/ Unpack \/ ImportText \/ Session
    PROVE  ToolInv'
<1>1. Open /\ UNCHANGED <<archive, temp, out>>
  BY DEF Pack, Unpack, ImportText, Session, Command, disk
<1>2. InMemory(cl3')
  BY <1>1, Opened
<1> USE DEF ToolInv, DiskInv, CommandInv
<1>3. CASE Pack
  <2>1. folder \in Folders /\ folder' = folder
    BY <1>3 DEF Pack, disk
  <2>2. pc' = "listing" /\ todo' = DirNames
    BY <1>3 DEF Pack, Command
  <2>3. DirNames \subseteq Names /\ \A n \in DirNames : folder[n] \in Nat
    BY <2>1 DEF DirNames, Folders
  <2>4. QED
    BY <1>1, <1>2, <2>1, <2>2, <2>3
<1>4. CASE Unpack
  <2>1. pc' = "unpacking" /\ todo' = DOMAIN cl3'.entries
    BY <1>4 DEF Unpack, Command
  <2>2. folder' \in Folders
    BY <1>4 DEF Unpack, Folders
  <2>3. QED
    BY <1>1, <1>2, <2>1, <2>2
<1>5. CASE ImportText
  BY <1>1, <1>2, <1>5 DEF ImportText, Command, disk
<1>6. CASE Session
  BY <1>1, <1>2, <1>6 DEF Session, Command, disk
<1>7. QED
  BY <1>3, <1>4, <1>5, <1>6

(* A command that packs changes the archive in memory, *)
LEMMA PackSteps ==
    ASSUME ToolInv, UpdateFile \/ EraseMissing \/ ReadTxt \/ FixupAll
    PROVE  ToolInv'
<1> USE DEF ToolInv, DiskInv, CommandInv
<1>1. InMemory(cl3) /\ UNCHANGED disk
  BY DEF UpdateFile, EraseMissing, ReadTxt, FixupAll
<1>2. CASE UpdateFile
  <2>1. PICK n \in todo : /\ cl3' = SetSource(GetOrCreateFile(cl3, n), n, folder[n])
                          /\ todo' = todo \ {n}
    BY <1>2 DEF UpdateFile
  <2>2. n \in Names /\ folder[n] \in Nat /\ pc = "listing" /\ pc' = pc /\ folder \in Folders
    BY <1>2, <2>1 DEF UpdateFile
  <2>3. InMemory(cl3')
    BY <1>1, <2>1, <2>2, FileCreated, SourceSet DEF InMemory
  <2>4. QED
    BY <1>1, <2>1, <2>2, <2>3 DEF disk
<1>3. CASE EraseMissing
  <2>1. InMemory(cl3')
    BY <1>1, <1>3, Erased DEF EraseMissing, InMemory
  <2>2. QED
    BY <1>1, <1>3, <2>1 DEF EraseMissing, disk
<1>4. CASE ReadTxt
  <2>1. PICK c \in Contents : cl3' = SetSource(cl3, Main, c)
    BY <1>4 DEF ReadTxt
  <2>2. Main \in Names /\ c \in Nat
    BY Cl3ToolAssumption
  <2>3. InMemory(cl3')
    BY <1>1, <2>1, <2>2, SourceSet DEF InMemory
  <2>4. QED
    BY <1>1, <1>4, <2>3 DEF ReadTxt, disk
<1>5. CASE FixupAll
  <2>1. Counted(cl3') /\ InMemory(cl3')
    BY <1>1, <1>5, FixupCounts DEF FixupAll, InMemory, Counted
  <2>2. QED
    BY <1>1, <1>5, <2>1 DEF FixupAll, disk
<1>6. QED
  BY <1>2, <1>3, <1>4, <1>5

(* and puts it in the place of the old one. *)
LEMMA DumpSteps ==
    ASSUME FilesApart, ToolInv, DumpTemp \/ RenameAway \/ Rename
    PROVE  ToolInv'
<1> USE DEF ToolInv, DiskInv, CommandInv
<1>1. CASE DumpTemp
  <2>1. Dump(cl3) \in Dumps
    BY <1>1, DumpIsDump DEF DumpTemp
  <2>2. QED
    BY <1>1, <2>1 DEF DumpTemp
<1>2. CASE pc = "written" /\ (RenameAway \/ Rename)
  <2>1. temp \in Dumps /\ temp = Dump(cl3)
    BY <1>2, DumpIsDump
  <2>2. temp # Absent
    BY <2>1, DumpOpens
  <2>3. CASE RenameAway
    BY <1>2, <2>1, <2>3 DEF RenameAway
  <2>4. CASE Rename
    BY <1>2, <2>1, <2>2, <2>4 DEF Rename
  <2>5. QED
    BY <1>2, <2>3, <2>4
<1>3. QED
  BY <1>1, <1>2 DEF RenameAway, Rename

(* An entry is written to the directory.                                     *)
LEMMA ExtractStep ==
    ASSUME ToolInv, ExtractFile
    PROVE  ToolInv'
<1> USE DEF ToolInv, DiskInv, CommandInv
<1>1. PICK i \in todo : /\ folder' = [folder EXCEPT ![cl3.entries[i].name] = cl3.entries[i].src]
                        /\ todo' = todo \ {i}
  BY DEF ExtractFile
<1>2. pc = "unpacking" /\ cl3 \in Archives /\ folder \in Folders /\ i \in DOMAIN cl3.entries
  BY <1>1 DEF ExtractFile, InMemory
<1>3. cl3.entries[i].src \in Nat
  BY <1>2, EntriesOf
<1>4. folder' \in Folders
  BY <1>1, <1>2, <1>3 DEF Folders
<1>5. QED
  BY <1>1, <1>2, <1>4 DEF ExtractFile

(* A session. *)
LEMMA SessionSteps ==
    ASSUME ToolInv, ReplaceFile \/ RemoveFile \/ SetLink \/ RemoveLink
    PROVE  ToolInv'
<1> USE DEF ToolInv, DiskInv, CommandInv
<1>1. /\ pc = "session" /\ InMemory(cl3) /\ cl3 \in Archives
      /\ UNCHANGED <<archive, temp, folder, out, pc, todo>>
  BY DEF ReplaceFile, RemoveFile, SetLink, RemoveLink, InSession, InMemory, disk
<1>2. CASE ReplaceFile
  <2>1. PICK n \in Names, src \in Contents : cl3' = SetSource(GetOrCreateFile(cl3, n), n, src)
    BY <1>2 DEF ReplaceFile, InSession
  <2>2. src \in Nat
    BY Cl3ToolAssumption
  <2>3. InMemory(cl3')
    BY <1>1, <2>1, <2>2, FileCreated, SourceSet DEF InMemory
  <2>4. QED
    BY <1>1, <2>3
<1>3. CASE RemoveFile
  <2>1. PICK n \in NamesIn(cl3) : cl3' = Erase(cl3, {n})
    BY <1>3 DEF RemoveFile, InSession
  <2>2. InMemory(cl3')
    BY <1>1, <2>1, Erased DEF InMemory
  <2>3. QED
    BY <1>1, <2>2
<1>4. CASE SetLink
  <2>1. PICK k \in DOMAIN cl3.entries, dest \in DOMAIN cl3.entries :
          LET links == cl3.entries[k].links IN
          \E i \in 1 .. Len(links) + 1 :
            /\ i <= MaxLinks
            /\ InSession([cl3 EXCEPT !.entries[k].links =
                            [j \in DOMAIN links \cup {i} |->
                               IF j = i THEN cl3.entries[dest].id ELSE links[j]]])
    BY <1>4, Zenon DEF SetLink
  <2> DEFINE links == cl3.entries[k].links
             id == cl3.entries[dest].id
             set(i) == [j \in DOMAIN links \cup {i} |-> IF j = i THEN id ELSE links[j]]
  <2>2. links \in Seq(Nat) /\ id \in Nat
    BY <1>1, EntriesOf
  <2>3. PICK i \in 1 .. Len(links) + 1 : cl3' = [cl3 EXCEPT !.entries[k].links = set(i)]
    BY <2>1, Zenon DEF InSession
  <2> HIDE DEF links, id
  <2>4. set(i) \in Seq(Nat)
    <3> DEFINE n == Len(links)
               m == IF i = n + 1 THEN n + 1 ELSE n
    <3>1. n \in Nat /\ m \in Nat /\ DOMAIN links \cup {i} = 1 .. m
          /\ \A j \in 1 .. m : j # i => links[j] \in Nat
      BY <2>2
    <3> HIDE DEF m
    <3> DEFINE at(j) == IF j = i THEN id ELSE links[j]
    <3>2. set(i) = [j \in 1 .. m |-> at(j)]
      BY <3>1
    <3>3. \A j \in 1 .. m : at(j) \in Nat
      BY <2>2, <3>1
    <3> HIDE DEF set, at
    <3>4. QED
      BY <3>1, <3>2, <3>3
  <2> HIDE DEF set
  <2>5. InMemory(cl3')
    BY <1>1, <2>3, <2>4, LinksSet DEF InMemory
  <2>6. QED
    BY <1>1, <2>5
<1>5. CASE RemoveLink
  <2>1. PICK k \in DOMAIN cl3.entries : \E i \in DOMAIN cl3.entries[k].links :
          cl3' = [cl3 EXCEPT !.entries[k].links = RemoveAt(@, i)]
    BY <1>5 DEF RemoveLink, InSession
  <2> DEFINE links == cl3.entries[k].links
  <2>2. links \in Seq(Nat)
    BY <1>1, EntriesOf
  <2>3. PICK i \in DOMAIN links : cl3' = [cl3 EXCEPT !.entries[k].links = RemoveAt(links, i)]
    BY <2>1
  <2> HIDE DEF links
  <2>4. RemoveAt(links, i) \in Seq(Nat)
    BY <2>2 DEF RemoveAt
  <2>5. InMemory(cl3')
    BY <1>1, <2>3, <2>4, LinksSet DEF InMemory
  <2>6. QED
    BY <1>1, <2>5
<1>6. QED
  BY <1>2, <1>3, <1>4, <1>5

(* Saving writes a dump of what the session made.                            *)
LEMMA SaveStep ==
    ASSUME ToolInv, Save
    PROVE  /\ ToolInv'
           /\ Counted(cl3') /\ Linked(cl3') /\ out' = Dump(cl3')
<1>1. pc = "session" /\ InMemory(cl3) /\ pc' = pc
  BY DEF ToolInv, CommandInv, Save
<1>2. Counted(cl3') /\ Linked(cl3') /\ out' = Dump(cl3')
  BY <1>1, FixupCounts DEF Save, InMemory
<1>3. InMemory(cl3') /\ out' \in Dumps
  BY <1>2, DumpIsDump DEF Counted, InMemory
<1>4. QED
  BY <1>1, <1>2, <1>3 DEF ToolInv, DiskInv, CommandInv, Save

(* A stop keeps the temporary file while it is the only archive.             *)
LEMMA StopStep ==
    ASSUME ToolInv, Stop
    PROVE  ToolInv'
<1> USE DEF ToolInv, DiskInv, CommandInv
<1>1. folder' \in Folders \cup {Absent}
  <2>1. CASE UNCHANGED folder
    BY <2>1
  <2>2. CASE pc = "unpacking" /\ \E i \in todo : \E c \in Contents :
               folder' = [folder EXCEPT ![cl3.entries[i].name] = c]
    BY <2>2, Cl3ToolAssumption DEF Folders
  <2>3. QED
    BY <2>1, <2>2 DEF Stop
<1>2. QED
  BY <1>1 DEF Stop

(* Every step keeps the invariant.                                           *)
LEMMA ToolStep ==
    ASSUME FilesApart
    PROVE  ToolInv /\ [Next]_vars => ToolInv'
<1> SUFFICES ASSUME ToolInv, [Next]_vars PROVE ToolInv'
  OBVIOUS
<1>1. CASE UNCHANGED vars
  BY <1>1 DEF vars, ToolInv, DiskInv, CommandInv
<1>2. QED
  BY <1>1, UserSteps, CommandSteps, PackSteps, DumpSteps, ExtractStep, SessionSteps,
     SaveStep, StopStep DEF Next

(* So it holds in every behaviour.                                           *)
LEMMA ToolInvariant ==
    ASSUME NativeOrder, FilesApart
    PROVE  Spec => []ToolInv
BY ToolInit, ToolStep, PTL DEF Spec

(* The files that a step writes. *)
LEMMA NewDump ==
    ASSUME ToolInv, [Next]_vars, NEW file \in NewFiles
    PROVE  Counted(cl3') /\ Linked(cl3') /\ file = Dump(cl3')
<1>1. CASE Save
  <2>1. temp' = temp
    BY <1>1 DEF Save
  <2>2. QED
    BY <1>1, <2>1, SaveStep DEF NewFiles
<1>2. CASE DumpTemp
  BY <1>2 DEF DumpTemp, NewFiles, ToolInv, CommandInv
<1>3. CASE Stop
  BY <1>3 DEF Stop, NewFiles
<1>4. CASE UNCHANGED vars
  BY <1>4 DEF vars, NewFiles
<1>5. CASE EditFolder \/ TakeOut \/ Recover \/ RenameAway \/ Rename \/ ExtractFile
  BY <1>5 DEF EditFolder, TakeOut, Recover, RenameAway, Rename, ExtractFile, NewFiles
<1>6. CASE Pack \/ Unpack \/ ImportText \/ Session
  BY <1>6 DEF Pack, Unpack, ImportText, Session, Command, disk, NewFiles
<1>7. CASE UpdateFile \/ EraseMissing \/ ReadTxt \/ FixupAll
  BY <1>7 DEF UpdateFile, EraseMissing, ReadTxt, FixupAll, disk, NewFiles
<1>8. CASE ReplaceFile \/ RemoveFile \/ SetLink \/ RemoveLink
  BY <1>8 DEF ReplaceFile, RemoveFile, SetLink, RemoveLink, InSession, disk, NewFiles
<1>9. QED
  BY <1>1, <1>2, <1>3, <1>4, <1>5, <1>6, <1>7, <1>8 DEF Next

-----------------------------------------------------------------------------
(* What is written, and what is left *)

(* Every dump takes as many bytes as GetSize said before, whatever the number *)
(* of files, their lengths and their links.                                   *)
THEOREM DumpTakesItsSize ==
    ASSUME NativeOrder, FilesApart
    PROVE  Spec => SizeReserved
<1>1. ToolInv /\ [Next]_vars => [\A file \in NewFiles : file.size = GetSize(cl3')]_vars
  <2> SUFFICES ASSUME ToolInv, [Next]_vars, NEW file \in NewFiles
               PROVE  file.size = GetSize(cl3')
    OBVIOUS
  <2>1. Counted(cl3') /\ file = Dump(cl3')
    BY NewDump
  <2>2. Dump(cl3').size = DataOffset(cl3') + cl3'.data_size + LinkEntrySize * cl3'.link_count
    BY <2>1, CountedSizes
  <2>3. QED
    BY <2>1, <2>2 DEF GetSize
<1>2. QED
  BY <1>1, ToolInvariant, PTL DEF Spec, SizeReserved

(* Every dump opens again as the same files with the same links.              *)
THEOREM DumpIsReadBack ==
    ASSUME NativeOrder, FilesApart
    PROVE  Spec => DumpReadsBack
<1>1. ToolInv /\ [Next]_vars =>
        [\A file \in NewFiles :
           Validates(file) /\ Describe(Parse(file)) = Describe(cl3')]_vars
  <2> SUFFICES ASSUME ToolInv, [Next]_vars, NEW file \in NewFiles
               PROVE  Validates(file) /\ Describe(Parse(file)) = Describe(cl3')
    OBVIOUS
  <2>1. Counted(cl3') /\ Linked(cl3') /\ file = Dump(cl3')
    BY NewDump
  <2> DEFINE d == cl3'
  <2>2. Counted(d) /\ Linked(d)
    BY <2>1
  <2> HIDE DEF d
  <2>3. Validates(Dump(d)) /\ Describe(Parse(Dump(d))) = Describe(d)
    BY <2>2, DumpValidates, DumpParses, ReadBackSame
  <2>4. QED
    BY <2>1, <2>3 DEF d
<1>2. QED
  BY <1>1, ToolInvariant, PTL DEF Spec, DumpReadsBack

(* Whatever stops a command, a whole archive is left.                         *)
THEOREM OneArchiveSurvives ==
    ASSUME NativeOrder, FilesApart
    PROVE  Spec => []ArchiveSurvives
<1>1. ToolInv => ArchiveSurvives
  <2> SUFFICES ASSUME ToolInv, archive = Absent PROVE Exists(temp) /\ Validates(temp)
    BY DEF ArchiveSurvives
  <2>1. temp \in Dumps
    BY DEF ToolInv, DiskInv
  <2>2. QED
    BY <2>1, DumpOpens DEF Exists
<1>2. QED
  BY <1>1, ToolInvariant, PTL
-----------------------------------------------------------------------------
(* The tool implements ArchiveStore *)

(* What an archive says is not the mark of a file that is not there, either. *)
ListingsApart == \A c \in Archives : Describe(c) \notin {Absent, Torn}

(* No archive, on the disk or in memory, has two files of one name. *)
KeyedFiles == \A f \in {archive, temp, out} \cap Dumps : Keyed(Parse(f))

(* c is what a command may put in the place of old. *)
Replaces(c, old) ==
    \/ folder # Absent /\ Store!Packed(Describe(c), Describe(old))
    \/ \E i \in DOMAIN old.entries : \E size \in Contents :
         /\ old.entries[i].name = Main
         /\ Describe(c) = [Describe(old) EXCEPT ![i].src = size]

(* While a command runs, the archive on the disk is the one it read, and what*)
(* it has in memory comes from it.                                           *)
StoreInv ==
    /\ KeyedFiles
    /\ pc # "idle" => Keyed(cl3)
    /\ pc \notin {"idle", "written"} => archive # Absent
    /\ pc = "listing" =>
         /\ folder # Absent
         /\ todo \subseteq DirNames
         /\ Listed(cl3, Parse(archive), DirNames \ todo, folder)
    /\ pc = "importing" => cl3 = Parse(archive)
    /\ pc \in {"edited", "fixed", "written"} /\ archive # Absent /\ Linked(cl3) =>
         Replaces(cl3, Parse(archive))

(* Links of an archive that is read lead to its entries.                     *)
LEMMA DumpLinked ==
    ASSUME NEW f \in Dumps
    PROVE  Linked(Parse(f)) /\ Parse(f) \in Archives
<1>1. PICK d \in Archives : Counted(d) /\ Linked(d) /\ f = Dump(d)
  BY DEF Dumps
<1>2. Parse(f) = ReadBack(d)
  BY <1>1, DumpParses
<1>3. QED
  BY <1>1, <1>2, ReadBackKeyed, ReadBackSame

(* A file that was written is read as what was written. *)
LEMMA DumpKeyed ==
    ASSUME NEW d, Counted(d), Linked(d), Keyed(d)
    PROVE  Keyed(Parse(Dump(d))) /\ Describe(Parse(Dump(d))) = Describe(d)
BY DumpParses, ReadBackKeyed, ReadBackSame

(* Files that were there already.                                            *)
LEMMA FilesKept ==
    ASSUME FilesApart, KeyedFiles,
           {archive', temp', out'} \subseteq {archive, temp, out, Absent, Torn}
    PROVE  KeyedFiles'
<1> SUFFICES ASSUME NEW f \in {archive', temp', out'} \cap Dumps PROVE Keyed(Parse(f))
  BY DEF KeyedFiles
<1>1. f \notin {Absent, Torn}
  BY DumpOpens
<1>2. f \in {archive, temp, out} \cap Dumps
  BY <1>1
<1>3. QED
  BY <1>2 DEF KeyedFiles

(* A file that was written, among them. *)
LEMMA FileAdded ==
    ASSUME FilesApart, KeyedFiles, NEW d, Counted(d), Linked(d), Keyed(d),
           {archive', temp', out'} \subseteq {archive, temp, out, Dump(d)}
    PROVE  KeyedFiles'
<1> SUFFICES ASSUME NEW f \in {archive', temp', out'} \cap Dumps PROVE Keyed(Parse(f))
  BY DEF KeyedFiles
<1>1. CASE f = Dump(d)
  BY <1>1, DumpKeyed
<1>2. CASE f \in {archive, temp, out}
  BY <1>2 DEF KeyedFiles
<1>3. QED
  BY <1>1, <1>2

(* The archives of the game have their names once.                           *)
LEMMA StoreInvInit ==
    ASSUME NativeOrder, FilesApart
    PROVE  Init => StoreInv
<1> SUFFICES ASSUME Init PROVE StoreInv
  OBVIOUS
<1>1. PICK c \in Initial : archive = GameFile(c)
  BY DEF Init
<1>2. Keyed(Parse(GameFile(c)))
  <2>1. c \in Archives /\ Linked(c) /\ Keyed(c) /\ c.endian = Native
    BY Cl3ToolAssumption DEF NativeOrder
  <2>2. Fixup(c).entries = c.entries
    BY <2>1 DEF Fixup, Archives
  <2>3. Counted(Fixup(c)) /\ Linked(Fixup(c)) /\ Keyed(Fixup(c))
    BY <2>1, <2>2, FixupCounts, SameEntries
  <2>4. GameFile(c) = Dump(Fixup(c))
    BY GameFileIsDump
  <2>5. QED
    BY <2>3, <2>4, DumpKeyed
<1>3. KeyedFiles
  <2> SUFFICES ASSUME NEW f \in {archive, temp, out} \cap Dumps PROVE Keyed(Parse(f))
    BY DEF KeyedFiles
  <2>1. f # Absent
    BY DumpOpens
  <2>2. f = archive
    BY <2>1 DEF Init
  <2>3. QED
    BY <1>1, <1>2, <2>2
<1>4. QED
  BY <1>3 DEF Init, StoreInv

(* Between commands the user changes files, but makes no archive.            *)
LEMMA UserKeeps ==
    ASSUME FilesApart, StoreInv, EditFolder \/ TakeOut \/ Recover \/ UNCHANGED vars
    PROVE  StoreInv'
<1>1. CASE UNCHANGED vars
  BY <1>1 DEF vars, StoreInv, KeyedFiles, Replaces, DirNames, Store!Packed, Store!Present
<1>2. CASE EditFolder \/ TakeOut \/ Recover
  <2>1. {archive', temp', out'} \subseteq {archive, temp, out, Absent, Torn}
    BY <1>2 DEF EditFolder, TakeOut, Recover
  <2>2. pc' = "idle"
    BY <1>2 DEF EditFolder, TakeOut, Recover
  <2>3. KeyedFiles'
    BY <2>1, FilesKept DEF StoreInv
  <2>4. QED
    BY <2>2, <2>3 DEF StoreInv
<1>3. QED
  BY <1>1, <1>2

(* A command begins with the archive that is on the disk. *)
LEMMA CommandKeeps ==
    ASSUME FilesApart, ToolInv, StoreInv, Pack \/ Unpack \/ ImportText \/ Session
    PROVE  StoreInv'
<1>1. Open /\ UNCHANGED <<archive, temp, out>>
  BY DEF Pack, Unpack, ImportText, Session, Command, disk
<1>2. KeyedFiles'
  <2>1. {archive', temp', out'} \subseteq {archive, temp, out, Absent, Torn}
    BY <1>1
  <2>2. QED
    BY <2>1, FilesKept DEF StoreInv
<1>3. cl3' = Parse(archive) /\ archive # Absent /\ archive \in Dumps
  BY <1>1 DEF Open, ToolInv, DiskInv
<1>4. Keyed(cl3') /\ cl3' \in Archives
  BY <1>3, DumpLinked DEF StoreInv, KeyedFiles
<1>5. CASE Pack
  <2>1. pc' = "listing" /\ folder' = folder /\ folder # Absent /\ todo' = DirNames
    BY <1>5 DEF Pack, Command, disk
  <2>2. DirNames' = DirNames
    BY <2>1 DEF DirNames
  <2>3. DirNames' \ todo' = {}
    BY <2>1, <2>2
  <2>4. Listed(cl3', Parse(archive'), DirNames' \ todo', folder')
    BY <1>1, <1>3, <1>4, <2>1, <2>3, ListingBegins
  <2>5. QED
    BY <1>1, <1>2, <1>3, <1>4, <2>1, <2>2, <2>4 DEF StoreInv
<1>6. CASE Unpack \/ ImportText \/ Session
  <2>1. pc' \in {"unpacking", "importing", "session"}
    BY <1>6 DEF Unpack, ImportText, Session, Command
  <2>2. QED
    BY <1>1, <1>2, <1>3, <1>4, <2>1 DEF StoreInv
<1>7. QED
  BY <1>5, <1>6

(* What is in memory stays what may replace the archive, *)
LEMMA PackKeeps ==
    ASSUME FilesApart, ToolInv, StoreInv, UpdateFile \/ EraseMissing \/ ReadTxt \/ FixupAll
    PROVE  StoreInv'
<1>1. InMemory(cl3) /\ UNCHANGED disk /\ pc \notin {"idle", "written"}
  BY DEF UpdateFile, EraseMissing, ReadTxt, FixupAll, ToolInv, CommandInv
<1>2. cl3 \in Archives /\ archive \in Dumps /\ archive # Absent /\ Keyed(cl3)
  BY <1>1 DEF InMemory, ToolInv, DiskInv, StoreInv
<1>3. KeyedFiles' /\ archive' = archive /\ folder' = folder /\ DirNames' = DirNames
  <2>1. {archive', temp', out'} \subseteq {archive, temp, out, Absent, Torn}
    BY <1>1 DEF disk
  <2>2. KeyedFiles'
    BY <2>1, FilesKept DEF StoreInv
  <2>3. QED
    BY <1>1, <2>2 DEF disk, DirNames
<1> DEFINE old == Parse(archive)
<1>4. old \in Archives /\ Linked(old)
  BY <1>2, DumpLinked
<1>5. ASSUME pc' \in {"edited", "fixed"}, Keyed(cl3'), Linked(cl3') => Replaces(cl3', old)
      PROVE  StoreInv'
  <2>1. ASSUME Linked(cl3') PROVE Replaces(cl3, Parse(archive))'
    <3>1. Replaces(cl3', old)
      BY <1>5, <2>1
    <3>2. CASE folder # Absent /\ Store!Packed(Describe(cl3'), Describe(old))
      <4>1. Store!Packed(Describe(cl3), Describe(Parse(archive)))'
        BY <1>3, <3>2, Zenon DEF Store!Packed, Store!Present
      <4>2. QED
        BY <1>3, <3>2, <4>1 DEF Replaces
    <3>3. CASE \E i \in DOMAIN old.entries : \E size \in Contents :
                 /\ old.entries[i].name = Main
                 /\ Describe(cl3') = [Describe(old) EXCEPT ![i].src = size]
      BY <1>3, <3>3 DEF Replaces
    <3>4. QED
      BY <3>1, <3>2, <3>3 DEF Replaces
  <2>2. QED
    BY <1>2, <1>3, <1>5, <2>1, Zenon DEF StoreInv
<1>6. CASE UpdateFile
  <2>1. PICK n \in todo : /\ cl3' = SetSource(GetOrCreateFile(cl3, n), n, folder[n])
                          /\ todo' = todo \ {n}
    BY <1>6 DEF UpdateFile
  <2>2. pc = "listing" /\ pc' = "listing"
    BY <1>6 DEF UpdateFile
  <2>3. n \in Names /\ folder[n] \in Nat /\ folder # Absent
    BY <2>2 DEF ToolInv, CommandInv, StoreInv
  <2>4. n \in DirNames /\ todo \subseteq DirNames /\ Listed(cl3, old, DirNames \ todo, folder)
    BY <2>2 DEF StoreInv
  <2>5. Listed(cl3', old, (DirNames \ todo) \cup {n}, folder)
    <3> HIDE DEF old
    <3>1. QED
      BY <1>2, <1>4, <2>1, <2>3, <2>4, ListingGoesOn
  <2>6. (DirNames \ todo) \cup {n} = DirNames \ todo'
    BY <2>1, <2>4
  <2>7. Keyed(cl3')
    <3> DEFINE g == GetOrCreateFile(cl3, n)
    <3>1. g \in Archives /\ Keyed(g)
      BY <1>2, <2>3, FileCreated, FileMadeOnce
    <3> HIDE DEF g
    <3>2. Keyed(SetSource(g, n, folder[n]))
      BY <2>3, <3>1, SourceMadeOnce, NamesKept
    <3>3. QED
      BY <2>1, <3>2 DEF g
  <2>8. QED
    BY <1>2, <1>3, <2>1, <2>2, <2>3, <2>4, <2>5, <2>6, <2>7 DEF StoreInv
<1>7. CASE EraseMissing
  <2>1. pc = "listing" /\ pc' = "edited" /\ todo = {} /\ cl3' = Erase(cl3, Missing)
    BY <1>7 DEF EraseMissing, Missing
  <2>2. DirNames \ todo = DirNames
    BY <2>1
  <2>3. folder # Absent /\ Listed(cl3, old, DirNames, folder)
    BY <2>1, <2>2 DEF StoreInv
  <2>4. Keyed(cl3')
    BY <1>2, <2>1, ErasedKeyed
  <2>5. Linked(cl3') => Store!Packed(Describe(cl3'), Describe(old))
    <3> HIDE DEF old
    <3>1. QED
      BY <1>2, <1>4, <2>1, <2>3, ListedPacked
  <2>6. Linked(cl3') => Replaces(cl3', old)
    BY <2>3, <2>5 DEF Replaces
  <2> HIDE DEF old
  <2>7. QED
    BY <1>5, <2>1, <2>4, <2>6
<1>8. CASE ReadTxt
  <2>1. pc = "importing" /\ pc' = "edited" /\ Main \in NamesIn(cl3)
    BY <1>8 DEF ReadTxt
  <2>2. PICK size \in Contents : cl3' = SetSource(cl3, Main, size)
    BY <1>8 DEF ReadTxt
  <2>3. cl3 = old /\ size \in Nat /\ Main \in Names
    BY <2>1, Cl3ToolAssumption DEF StoreInv
  <2>4. Keyed(cl3')
    BY <1>2, <2>2, <2>3, SourceMadeOnce, NamesKept
  <2>5. Replaces(cl3', old)
    <3> HIDE DEF old
    <3>1. \E i \in DOMAIN old.entries :
            /\ old.entries[i].name = Main
            /\ Describe(SetSource(old, Main, size)) = [Describe(old) EXCEPT ![i].src = size]
      BY <1>2, <1>4, <2>1, <2>3, Imported
    <3>2. QED
      BY <2>2, <2>3, <3>1 DEF Replaces
  <2> HIDE DEF old
  <2>6. QED
    BY <1>5, <2>1, <2>4, <2>5
<1>9. CASE FixupAll
  <2>1. pc = "edited" /\ pc' = "fixed" /\ cl3' = Fixup(cl3)
    BY <1>9 DEF FixupAll
  <2>2. cl3'.entries = cl3.entries
    BY <1>2, <2>1 DEF Fixup, Archives
  <2>3. Describe(cl3') = Describe(cl3) /\ Linked(cl3') = Linked(cl3) /\ Keyed(cl3') = Keyed(cl3)
    BY <2>2, SameEntries
  <2>4. Linked(cl3) => Replaces(cl3, old)
    BY <1>2, <2>1 DEF StoreInv
  <2> HIDE DEF old
  <2>5. Linked(cl3') => Replaces(cl3', old)
    BY <2>3, <2>4 DEF Replaces
  <2>6. QED
    BY <1>2, <1>5, <2>1, <2>3, <2>5
<1>10. QED
  BY <1>6, <1>7, <1>8, <1>9

(* and on the disk, until it does.                                           *)
LEMMA DumpKeeps ==
    ASSUME FilesApart, ToolInv, StoreInv, DumpTemp \/ RenameAway \/ Rename
    PROVE  StoreInv'
<1>1. /\ pc \in {"fixed", "written"} /\ folder' = folder /\ Counted(cl3) /\ Linked(cl3)
      /\ Keyed(cl3)
  BY DEF DumpTemp, RenameAway, Rename, ToolInv, CommandInv, StoreInv
<1>2. CASE DumpTemp
  <2>1. /\ {archive', temp', out'} \subseteq {archive, temp, out, Dump(cl3)}
        /\ cl3' = cl3 /\ archive' = archive /\ pc' = "written" /\ folder' = folder
    BY <1>2 DEF DumpTemp
  <2>2. KeyedFiles'
    BY <1>1, <2>1, FileAdded DEF StoreInv
  <2>3. archive # Absent => Replaces(cl3, Parse(archive))
    BY <1>1, <1>2 DEF StoreInv, DumpTemp
  <2>4. ASSUME archive # Absent PROVE Replaces(cl3, Parse(archive))'
    BY <2>1, <2>3, <2>4, Zenon DEF Replaces, Store!Packed, Store!Present
  <2>5. QED
    BY <1>1, <2>1, <2>2, <2>4, Zenon DEF StoreInv
<1>3. CASE RenameAway
  <2>1. /\ {archive', temp', out'} \subseteq {archive, temp, out, Absent, Torn}
        /\ cl3' = cl3 /\ archive' = Absent /\ pc' = "written"
    BY <1>3 DEF RenameAway
  <2>2. KeyedFiles'
    BY <2>1, FilesKept DEF StoreInv
  <2>3. QED
    BY <1>1, <2>1, <2>2 DEF StoreInv
<1>4. CASE Rename
  <2>1. {archive', temp', out'} \subseteq {archive, temp, out, Absent, Torn} /\ pc' = "idle"
    BY <1>4 DEF Rename
  <2>2. KeyedFiles'
    BY <2>1, FilesKept DEF StoreInv
  <2>3. QED
    BY <2>1, <2>2 DEF StoreInv
<1>5. QED
  BY <1>2, <1>3, <1>4

(* New links leave the names.                                                *)
LEMMA LinksNames ==
    ASSUME NEW c \in Archives, NEW k \in DOMAIN c.entries, NEW links
    PROVE  SameNames([c EXCEPT !.entries[k].links = links], c)
<1> DEFINE es == [c.entries EXCEPT ![k] = [c.entries[k] EXCEPT !.links = links]]
           r == [c EXCEPT !.entries[k].links = links]
<1>1. r.entries = es
  BY DEF Archives
<1> HIDE DEF r
<1>2. ASSUME NEW e \in Entries
      PROVE  [e EXCEPT !.links = links].id = e.id /\ [e EXCEPT !.links = links].name = e.name
  BY DEF Entries
<1>3. DOMAIN es = DOMAIN c.entries
      /\ \A i \in DOMAIN c.entries :
           es[i] = IF i = k THEN [c.entries[k] EXCEPT !.links = links] ELSE c.entries[i]
  BY EntriesOf
<1>4. c.entries[k] \in Entries
  BY EntriesOf
<1> HIDE DEF es
<1>5. SameNames(r, c)
  BY <1>1, <1>2, <1>3, <1>4 DEF SameNames
<1>6. QED
  BY <1>5 DEF r

(* The steps of a session keep the names apart. *)
LEMMA SessionKeeps ==
    ASSUME FilesApart, ToolInv, StoreInv, ReplaceFile \/ RemoveFile \/ SetLink \/ RemoveLink
    PROVE  StoreInv'
<1>1. /\ pc = "session" /\ pc' = "session" /\ cl3 \in Archives /\ Keyed(cl3)
      /\ UNCHANGED <<archive, temp, out>>
  BY DEF ReplaceFile, RemoveFile, SetLink, RemoveLink, InSession, InMemory, disk,
         ToolInv, CommandInv, StoreInv
<1>2. Keyed(cl3')
  <2>1. CASE ReplaceFile
    <3>1. PICK n \in Names, src \in Contents : cl3' = SetSource(GetOrCreateFile(cl3, n), n, src)
      BY <2>1 DEF ReplaceFile, InSession
    <3>2. src \in Nat
      BY Cl3ToolAssumption
    <3> DEFINE g == GetOrCreateFile(cl3, n)
    <3>3. g \in Archives /\ Keyed(g)
      BY <1>1, FileCreated, FileMadeOnce
    <3> HIDE DEF g
    <3>4. Keyed(SetSource(g, n, src))
      BY <3>2, <3>3, SourceMadeOnce, NamesKept
    <3>5. QED
      BY <3>1, <3>4 DEF g
  <2>2. CASE RemoveFile
    <3>1. PICK n \in NamesIn(cl3) : cl3' = Erase(cl3, {n})
      BY <2>2 DEF RemoveFile, InSession
    <3>2. QED
      BY <1>1, <3>1, ErasedKeyed
  <2>3. CASE SetLink \/ RemoveLink
    <3>1. \E k \in DOMAIN cl3.entries : \E links : cl3' = [cl3 EXCEPT !.entries[k].links = links]
      <4>1. CASE SetLink
        <5>1. PICK k \in DOMAIN cl3.entries, dest \in DOMAIN cl3.entries :
                LET links == cl3.entries[k].links IN
                \E i \in 1 .. Len(links) + 1 :
                  /\ i <= MaxLinks
                  /\ InSession([cl3 EXCEPT !.entries[k].links =
                                  [j \in DOMAIN links \cup {i} |->
                                     IF j = i THEN cl3.entries[dest].id ELSE links[j]]])
          BY <4>1, Zenon DEF SetLink
        <5> DEFINE ls == cl3.entries[k].links
                   set(i) == [j \in DOMAIN ls \cup {i} |->
                                IF j = i THEN cl3.entries[dest].id ELSE ls[j]]
        <5>2. PICK i \in 1 .. Len(ls) + 1 : cl3' = [cl3 EXCEPT !.entries[k].links = set(i)]
          BY <5>1, Zenon DEF InSession
        <5> HIDE DEF ls, set
        <5>3. QED
          BY <5>2
      <4>2. CASE RemoveLink
        <5>1. PICK k \in DOMAIN cl3.entries : \E i \in DOMAIN cl3.entries[k].links :
                cl3' = [cl3 EXCEPT !.entries[k].links = RemoveAt(@, i)]
          BY <4>2 DEF RemoveLink, InSession
        <5> DEFINE ls == cl3.entries[k].links
        <5>2. PICK i \in DOMAIN ls : cl3' = [cl3 EXCEPT !.entries[k].links = RemoveAt(ls, i)]
          BY <5>1
        <5> HIDE DEF ls
        <5>3. QED
          BY <5>2
      <4>3. QED
        BY <2>3, <4>1, <4>2
    <3>a. PICK k \in DOMAIN cl3.entries :
            \E links : cl3' = [cl3 EXCEPT !.entries[k].links = links]
      BY <3>1
    <3>2. PICK links : cl3' = [cl3 EXCEPT !.entries[k].links = links]
      BY <3>a
    <3> DEFINE r == [cl3 EXCEPT !.entries[k].links = links]
    <3>3. SameNames(r, cl3)
      BY <1>1, LinksNames
    <3> HIDE DEF r
    <3>4. Keyed(r)
      BY <1>1, <3>3, NamesKept
    <3>5. QED
      BY <3>2, <3>4 DEF r
  <2>4. QED
    BY <2>1, <2>2, <2>3
<1>3. KeyedFiles'
  <2>1. {archive', temp', out'} \subseteq {archive, temp, out, Absent, Torn}
    BY <1>1
  <2>2. QED
    BY <2>1, FilesKept DEF StoreInv
<1>4. QED
  BY <1>1, <1>2, <1>3 DEF StoreInv

(* So does what a session saves, and what a command extracts,                *)
LEMMA WritingKeeps ==
    ASSUME FilesApart, ToolInv, StoreInv, Save \/ ExtractFile
    PROVE  StoreInv'
<1>1. CASE Save
  <2>1. /\ pc = "session" /\ pc' = "session" /\ cl3 \in Archives /\ Keyed(cl3)
        /\ archive' = archive /\ temp' = temp /\ archive # Absent /\ cl3' = Fixup(cl3)
    BY <1>1 DEF Save, InMemory, ToolInv, CommandInv, StoreInv
  <2>2. cl3'.entries = cl3.entries
    BY <2>1 DEF Fixup, Archives
  <2>3. Keyed(cl3')
    BY <2>1, <2>2, SameEntries
  <2>4. Counted(cl3') /\ Linked(cl3') /\ out' = Dump(cl3')
    BY <1>1, SaveStep
  <2> DEFINE d == cl3'
  <2> HIDE DEF d
  <2>5. Counted(d) /\ Linked(d) /\ Keyed(d)
        /\ {archive', temp', out'} \subseteq {archive, temp, out, Dump(d)}
    BY <2>1, <2>3, <2>4 DEF d
  <2>6. KeyedFiles'
    BY <2>5, FileAdded DEF StoreInv
  <2>7. QED
    BY <2>1, <2>3, <2>6 DEF StoreInv
<1>2. CASE ExtractFile
  <2>1. /\ pc = "unpacking" /\ pc' = "unpacking" /\ cl3' = cl3
        /\ {archive', temp', out'} \subseteq {archive, temp, out, Absent, Torn}
        /\ archive' = archive
    BY <1>2 DEF ExtractFile
  <2>2. KeyedFiles'
    BY <2>1, FilesKept DEF StoreInv
  <2>3. QED
    BY <2>1, <2>2 DEF StoreInv
<1>3. QED
  BY <1>1, <1>2

(* and what stops it.                                                        *)
LEMMA StopKeeps ==
    ASSUME FilesApart, StoreInv, Stop
    PROVE  StoreInv'
<1>1. {archive', temp', out'} \subseteq {archive, temp, out, Absent, Torn} /\ pc' = "idle"
  BY DEF Stop
<1>2. KeyedFiles'
  BY <1>1, FilesKept DEF StoreInv
<1>3. QED
  BY <1>1, <1>2 DEF StoreInv

(* Every step keeps the invariant. *)
LEMMA StoreInvStep ==
    ASSUME FilesApart
    PROVE  ToolInv /\ StoreInv /\ [Next]_vars => StoreInv'
BY UserKeeps, CommandKeeps, PackKeeps, DumpKeeps, SessionKeeps, WritingKeeps, StopKeeps DEF Next

(* So it holds in every behaviour. *)
LEMMA StoreInvariant ==
    ASSUME NativeOrder, FilesApart
    PROVE  Spec => []StoreInv
<1>1. Init => StoreInv
  BY StoreInvInit
<1>2. QED
  BY <1>1, StoreInvStep, ToolInvariant, PTL DEF Spec

(* The archive that is left, and what ArchiveStore says of it. *)
Left == IF archive = Absent THEN temp ELSE archive

(* A dump is listed as what it is read as.                                   *)
LEMMA DumpListed ==
    ASSUME FilesApart, NEW f \in Dumps
    PROVE  Listing(f) = Describe(Parse(f))
<1>1. Exists(f)
  BY DumpOpens DEF Exists
<1>2. \A x : (CHOOSE list \in {x} : TRUE) = x
  OBVIOUS
<1>3. {Describe(c) : c \in {Parse(f)}} = {Describe(Parse(f))}
  OBVIOUS
<1>4. QED
  BY <1>1, <1>2, <1>3 DEF Listing

(* A step that leaves both files leaves both lists. *)
LEMMA StoreStays ==
    ASSUME Left' = Left, out' = out
    PROVE  Store!Next
BY DEF Left, Store!Next, Store!Edit

(* What is put in the place of the archive is what the store makes of it.    *)
LEMMA StoreReplaced ==
    ASSUME FilesApart, ToolInv, StoreInv, pc = "written",
           archive # Absent, Left' = temp, UNCHANGED <<folder, out>>
    PROVE  Store!Next
<1> DEFINE old == Parse(archive)
           stored == Listing(Left)
           draft == Listing(out)
<1>1. /\ archive \in Dumps /\ temp \in Dumps /\ temp = Dump(cl3)
      /\ Counted(cl3) /\ Linked(cl3) /\ Replaces(cl3, old)
  BY DumpIsDump DEF ToolInv, DiskInv, CommandInv, StoreInv
<1>2. stored = Describe(old)
  BY <1>1, DumpListed DEF Left
<1>3. stored' = Describe(cl3)
  <2>1. stored' = Listing(temp)
    OBVIOUS
  <2>2. Listing(temp) = Describe(Parse(temp))
    BY <1>1, DumpListed
  <2>3. Describe(Parse(temp)) = Describe(cl3)
    BY <1>1, DumpParses, ReadBackSame
  <2>4. QED
    BY <2>1, <2>2, <2>3
<1>4. draft' = draft
  OBVIOUS
<1>5. CASE stored' = stored
  BY <1>4, <1>5 DEF Left, Store!Next, Store!Edit
<1>6. CASE stored' # stored
  <2>1. CASE folder # Absent /\ Store!Packed(Describe(cl3), Describe(old))
    <3>1. Store!Packed(stored', stored)
      BY <1>2, <1>3, <2>1
    <3>2. Store!Pack
      BY <1>4, <2>1, <3>1 DEF Left, Store!Pack
    <3>3. QED
      BY <1>6, <3>2 DEF Left, Store!Next
  <2>2. CASE \E i \in DOMAIN old.entries : \E size \in Contents :
               /\ old.entries[i].name = Main
               /\ Describe(cl3) = [Describe(old) EXCEPT ![i].src = size]
    <3>1. PICK i \in DOMAIN old.entries, size \in Contents :
            /\ old.entries[i].name = Main
            /\ Describe(cl3) = [Describe(old) EXCEPT ![i].src = size]
      BY <2>2
    <3>2. i \in DOMAIN stored /\ stored[i].name = Main
      BY <1>2, <3>1, Described
    <3>3. stored' = [stored EXCEPT ![i].src = size]
      BY <1>2, <1>3, <3>1
    <3>4. Store!Import
      BY <1>4, <3>2, <3>3 DEF Left, Store!Import
    <3>5. QED
      BY <1>6, <3>4 DEF Left, Store!Next
  <2>3. QED
    BY <1>1, <2>1, <2>2 DEF Replaces
<1>7. QED
  BY <1>5, <1>6

(* The user edits the folder, or installs or discards what a session saved.  *)
LEMMA StoreUser ==
    ASSUME FilesApart, ListingsApart, ToolInv, EditFolder \/ TakeOut \/ Recover
    PROVE  Store!Next
<1>1. CASE EditFolder
  BY <1>1, StoreStays DEF EditFolder, Left
<1>2. CASE TakeOut
  <2>1. Listing(out)' = Absent /\ UNCHANGED <<temp, folder>>
    BY <1>2 DEF TakeOut, Listing, Exists
  <2>2. CASE UNCHANGED archive
    <3>1. Store!Discard
      BY <2>1, <2>2 DEF Store!Discard
    <3>2. QED
      BY <3>1 DEF Store!Next
  <2>3. CASE Exists(out) /\ archive' = out
    <3>1. out \in Dumps /\ out # Absent
      BY <2>3 DEF Exists, ToolInv, DiskInv
    <3>2. Listing(out) = Describe(Parse(out)) /\ Parse(out) \in Archives
      BY <3>1, DumpListed, DumpLinked
    <3>3. Listing(out) \notin {Absent, Torn}
      BY <3>2 DEF ListingsApart
    <3>4. Listing(IF archive = Absent THEN temp ELSE archive)' = Listing(out)
      BY <2>3, <3>1
    <3>5. Store!Install
      BY <2>1, <3>3, <3>4 DEF Store!Install
    <3>6. QED
      BY <3>5 DEF Store!Next
  <2>4. QED
    BY <1>2, <2>2, <2>3 DEF TakeOut
<1>3. CASE Recover
  <2>1. archive = Absent /\ archive' = temp /\ out' = out /\ temp \in Dumps
    BY <1>3 DEF Recover, ToolInv, DiskInv
  <2>2. temp # Absent
    BY <2>1, DumpOpens
  <2>3. QED
    BY <2>1, <2>2, StoreStays DEF Left
<1>4. QED
  BY <1>1, <1>2, <1>3

(* A command that only reads, or works in memory, changes nothing but the    *)
(* folder.                                                                   *)
LEMMA StoreCommand ==
    ASSUME Pack \/ Unpack \/ ImportText \/ Session
           \/ UpdateFile \/ EraseMissing \/ ReadTxt \/ FixupAll \/ ExtractFile
           \/ ReplaceFile \/ RemoveFile \/ SetLink \/ RemoveLink
    PROVE  Store!Next
<1>1. UNCHANGED <<archive, temp, out>>
  BY DEF Pack, Unpack, ImportText, Session, Command, UpdateFile, EraseMissing, ReadTxt,
         FixupAll, ExtractFile, ReplaceFile, RemoveFile, SetLink, RemoveLink, InSession, disk
<1>2. QED
  BY <1>1, StoreStays DEF Left

(* Dumpable::Dump replaces the archive when it renames the one or the other. *)
LEMMA StoreDump ==
    ASSUME FilesApart, ToolInv, StoreInv, DumpTemp \/ RenameAway \/ Rename
    PROVE  Store!Next
<1>1. CASE DumpTemp
  <2>1. archive # Absent /\ archive' = archive /\ out' = out
    BY <1>1 DEF DumpTemp, StoreInv
  <2>2. QED
    BY <2>1, StoreStays DEF Left
<1>2. CASE RenameAway \/ Rename
  <2>1. pc = "written" /\ temp \in Dumps /\ UNCHANGED <<folder, out>>
    BY <1>2, DumpIsDump DEF RenameAway, Rename, ToolInv, CommandInv
  <2>2. temp # Absent
    BY <2>1, DumpOpens
  <2>3. Left' = temp
    BY <1>2, <2>2 DEF RenameAway, Rename, Left
  <2>4. CASE archive = Absent
    BY <2>1, <2>3, <2>4, StoreStays DEF Left
  <2>5. CASE archive # Absent
    BY <2>1, <2>3, <2>5, StoreReplaced
  <2>6. QED
    BY <2>4, <2>5
<1>3. QED
  BY <1>1, <1>2

(* A session saves all or, when it is stopped, a part.                       *)
LEMMA StoreSave ==
    ASSUME FilesApart, ListingsApart, ToolInv, StoreInv, Save \/ Stop
    PROVE  Store!Next
<1>1. CASE Save
  <2>1. Counted(cl3') /\ Linked(cl3') /\ out' = Dump(cl3') /\ ToolInv'
    BY <1>1, SaveStep
  <2>2. StoreInv'
    BY <1>1, WritingKeeps
  <2>3. /\ pc' = "session" /\ UNCHANGED <<archive, temp, folder>>
    BY <1>1 DEF Save
  <2> DEFINE d == cl3'
  <2>4. Counted(d) /\ Linked(d) /\ Keyed(d) /\ out' = Dump(d) /\ d \in Archives
    BY <2>1, <2>2, <2>3 DEF StoreInv, Counted
  <2> HIDE DEF d
  <2>5. Dump(d) \in Dumps
    BY <2>4, DumpIsDump
  <2>6. Listing(Dump(d)) = Describe(d)
    BY <2>4, <2>5, DumpListed, DumpKeyed
  <2>7. Listing(out)' = Describe(d)
    BY <2>4, <2>6
  <2>8. Store!Closed(Describe(d)) /\ Describe(d) \notin {Absent, Torn}
    BY <2>4, ClosedDescribed DEF ListingsApart
  <2>9. Store!Save
    BY <2>3, <2>7, <2>8 DEF Store!Save
  <2>10. QED
    BY <2>7, <2>8, <2>9 DEF Store!Next
<1>2. CASE Stop
  <2>1. Left' = Left
    BY <1>2 DEF Stop, Left
  <2>2. CASE out' = out
    BY <2>1, <2>2, StoreStays
  <2>3. CASE out' = Torn /\ UNCHANGED folder
    <3>1. Listing(out)' = Torn
      BY <2>3 DEF Listing, Exists
    <3>2. CASE Torn = Absent
      <4>1. Store!Discard
        BY <2>1, <2>3, <3>1, <3>2 DEF Left, Store!Discard
      <4>2. QED
        BY <4>1 DEF Store!Next
    <3>3. CASE Torn # Absent
      <4>1. Store!Save
        BY <2>1, <2>3, <3>1, <3>3 DEF Left, Store!Save
      <4>2. QED
        BY <3>1, <3>3, <4>1 DEF Store!Next
    <3>4. QED
      BY <3>2, <3>3
  <2>4. QED
    BY <1>2, <2>2, <2>3 DEF Stop
<1>3. QED
  BY <1>1, <1>2

(* The archive of the game is one of the store.                              *)
LEMMA StoreInit ==
    ASSUME NativeOrder, FilesApart
    PROVE  Init => Store!Init
<1> SUFFICES ASSUME Init PROVE Store!Init
  OBVIOUS
<1>1. ToolInv /\ StoreInv
  BY ToolInit, StoreInvInit
<1>2. archive \in Dumps /\ archive # Absent
  <2>1. archive \in Dumps
    BY GameFileIsDump DEF Init
  <2>2. QED
    BY <2>1, DumpOpens
<1>3. Keyed(Parse(archive)) /\ Linked(Parse(archive)) /\ Parse(archive) \in Archives
  BY <1>1, <1>2, DumpLinked DEF StoreInv, KeyedFiles
<1>4. Listing(archive) = Describe(Parse(archive))
  BY <1>2, DumpListed
<1>5. Store!Closed(Listing(archive))
  BY <1>3, <1>4, ClosedDescribed
<1>6. Listing(out) = Absent
  BY DEF Init, Listing, Exists
<1>7. QED
  BY <1>2, <1>5, <1>6 DEF Store!Init

(* A command replaces the archive at once by what it was told to make of it,  *)
(* or not at all, whatever the archive and the directory hold, in whatever    *)
(* order the directory is listed, and wherever the command is stopped.        *)
THEOREM Implements ==
    ASSUME NativeOrder, FilesApart, ListingsApart
    PROVE  Spec => ImplementsArchiveStore
<1>1. Init => Store!Init
  BY StoreInit
<1>2. ToolInv /\ StoreInv /\ [Next]_vars => [Store!Next]_(Store!vars)
  <2> SUFFICES ASSUME ToolInv, StoreInv, [Next]_vars PROVE [Store!Next]_(Store!vars)
    OBVIOUS
  <2>1. CASE UNCHANGED vars
    BY <2>1 DEF vars, Store!vars
  <2>2. CASE Next
    <3>1. Store!Next
      BY <2>2, StoreUser, StoreCommand, StoreDump, StoreSave DEF Next
    <3>2. QED
      BY <3>1
  <2>3. QED
    BY <2>1, <2>2
<1>3. Spec => []ToolInv /\ []StoreInv
  BY ToolInvariant, StoreInvariant
<1>4. QED
  BY <1>1, <1>2, <1>3, PTL DEF Spec, ImplementsArchiveStore, Store!Spec
=============================================================================
