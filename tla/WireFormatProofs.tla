-------------------------- MODULE WireFormatProofs ---------------------------
(***************************************************************************)
(* Proofs about WireFormat, for NAL units of every length and content,     *)
(* every MTU and every sequence number.                                    *)
(***************************************************************************)
EXTENDS WireFormat, FunctionTheorems, SequenceTheorems, WellFoundedInduction, TLAPS

------------------------------------------------------------------------------
(* Lemmas about division and bytes                                         *)

\* Division with remainder.
LEMMA DivMod ==
  ASSUME NEW n \in Nat, NEW m \in Nat \ {0}
  PROVE  n \div m \in Nat /\ n % m \in 0..(m - 1) /\ n = m * (n \div m) + (n % m)
BY Z3

\* There is only one way to divide with remainder.
LEMMA DivModUnique ==
  ASSUME NEW m \in Nat \ {0}, NEW q \in Nat, NEW r \in 0..(m - 1)
  PROVE  (m * q + r) \div m = q /\ (m * q + r) % m = r
BY Z3

LEMMA Products ==
  ASSUME NEW a \in Nat, NEW b \in Nat
  PROVE  /\ a * b \in Nat /\ a * (b + 1) = a * b + a
         /\ \A c \in Nat : c <= b => a * c <= a * b
BY Z3

------------------------------------------------------------------------------
(* Lemmas about sequences                                                  *)

LEMMA SubSeqFacts ==
  ASSUME NEW S, NEW s \in Seq(S), NEW a \in Nat, NEW b \in Nat, 1 <= a, a <= b, b <= Len(s)
  PROVE  /\ SubSeq(s, a, b) \in Seq(S) /\ Len(SubSeq(s, a, b)) = b - a + 1
         /\ \A j \in 1..(b - a + 1) : SubSeq(s, a, b)[j] = s[a + j - 1]
OBVIOUS

LEMMA ConcatFacts ==
  ASSUME NEW S, NEW s \in Seq(S), NEW t \in Seq(S)
  PROVE  /\ s \o t \in Seq(S) /\ Len(s \o t) = Len(s) + Len(t)
         /\ \A j \in 1..Len(s) : (s \o t)[j] = s[j]
         /\ \A j \in 1..Len(t) : (s \o t)[Len(s) + j] = t[j]
OBVIOUS

\* The recursion of FlattenSeq.
IsFlattening(f, seqs) ==
  f = [k \in 1..Len(seqs) |-> IF k = 1 THEN seqs[k] ELSE f[k - 1] \o seqs[k]]

\* FlattenSeq is what a solution of its recursion gives for the last index.
LEMMA FlattenUnfolds ==
  ASSUME NEW S, NEW seqs \in Seq(Seq(S)), Len(seqs) # 0, NEW g, IsFlattening(g, seqs)
  PROVE  \E f : IsFlattening(f, seqs) /\ FlattenSeq(seqs) = f[Len(seqs)]
BY DEF FlattenSeq, IsFlattening

\* The recursion has one solution: two would differ first somewhere.
LEMMA FlattenUnique ==
  ASSUME NEW S, NEW seqs \in Seq(Seq(S)),
         NEW f, IsFlattening(f, seqs), NEW g, IsFlattening(g, seqs)
  PROVE  \A k \in 1..Len(seqs) : f[k] = g[k]
<1> DEFINE Differ == {k \in 1..Len(seqs) : f[k] # g[k]}
<1> SUFFICES ASSUME Differ # {} PROVE FALSE
  OBVIOUS
<1>1. Len(seqs) \in Nat
  OBVIOUS
<1>2. Differ \subseteq Nat
  BY <1>1
<1>3. PICK k \in Differ : \A j \in Differ : ~(<<j, k>> \in OpToRel(<, Nat))
  BY <1>2, NatLessThanWellFounded, WFMin
<1>4. \A j \in Differ : ~(j < k)
  BY <1>2, <1>3 DEF OpToRel
<1>5. k \in 1..Len(seqs) /\ f[k] # g[k]
  BY <1>3
<1>6. CASE k = 1
  BY <1>5, <1>6 DEF IsFlattening
<1>7. CASE k # 1
  <2>1. k - 1 \in 1..Len(seqs) /\ k - 1 < k
    BY <1>1, <1>5, <1>7
  <2>2. f[k - 1] = g[k - 1]
    BY <1>4, <2>1
  <2>3. f[k] = f[k - 1] \o seqs[k] /\ g[k] = g[k - 1] \o seqs[k]
    BY <1>5, <1>7 DEF IsFlattening
  <2> QED BY <1>5, <2>2, <2>3
<1> QED BY <1>6, <1>7

\* A place in a row of blocks of w, of which the last may be shorter.
LEMMA PlaceFacts ==
  ASSUME NEW w \in Nat \ {0}, NEW k \in Nat \ {0}, NEW j \in 1..w
  PROVE  /\ w * (k - 1) \in Nat /\ w * (k - 1) + j \in Nat \ {0} /\ w * (k - 1) + j <= w * k
         /\ (w * (k - 1) + j - 1) \div w = k - 1
         /\ (w * (k - 1) + j - 1) % w = j - 1
<1>1. k - 1 \in Nat /\ j - 1 \in 0..(w - 1)
  OBVIOUS
<1>2. w * (k - 1) \in Nat /\ w * ((k - 1) + 1) = w * (k - 1) + w /\ (k - 1) + 1 = k
  BY <1>1, Products
<1>3. w * (k - 1) + j - 1 = w * (k - 1) + (j - 1)
  BY <1>1, <1>2
<1>4. /\ (w * (k - 1) + (j - 1)) \div w = k - 1
      /\ (w * (k - 1) + (j - 1)) % w = j - 1
  BY <1>1, DivModUnique
<1>5. w * (k - 1) + j \in Nat \ {0} /\ w * (k - 1) + j <= w * k
  BY <1>2
<1> QED BY <1>2, <1>3, <1>4, <1>5

\* n blocks of w, of which the last may be shorter.
Blocks(seqs, n, w, S) ==
  /\ n \in Nat \ {0} /\ w \in Nat \ {0} /\ seqs \in [1..n -> Seq(S)]
  /\ \A k \in 1..(n - 1) : Len(seqs[k]) = w
  /\ Len(seqs[n]) <= w

\* What the blocks are behind one another.
Joined(whole, seqs, n, w, S) ==
  /\ whole \in Seq(S)
  /\ Len(whole) = w * (n - 1) + Len(seqs[n])
  /\ \A k \in 1..n : \A j \in 1..Len(seqs[k]) : whole[w * (k - 1) + j] = seqs[k][j]
  /\ \A m \in 1..Len(whole) : \E k \in 1..n : \E j \in 1..Len(seqs[k]) : m = w * (k - 1) + j

\* FlattenSeq puts the blocks behind one another.
LEMMA FlattenJoins ==
  ASSUME NEW S, NEW n, NEW w, NEW seqs, Blocks(seqs, n, w, S)
  PROVE  Joined(FlattenSeq(seqs), seqs, n, w, S)
<1>0. /\ n \in Nat \ {0} /\ w \in Nat \ {0} /\ seqs \in [1..n -> Seq(S)]
      /\ \A k \in 1..(n - 1) : Len(seqs[k]) = w
      /\ Len(seqs[n]) <= w
  BY DEF Blocks
<1> USE <1>0
<1> DEFINE total(i) == w * (i - 1) + Len(seqs[i])
           elem(m) == seqs[((m - 1) \div w) + 1][((m - 1) % w) + 1]
           g == [i \in 1..n |-> [m \in 1..total(i) |-> elem(m)]]
<1>1. ASSUME NEW i \in 1..n
      PROVE  /\ seqs[i] \in Seq(S) /\ Len(seqs[i]) \in 0..w
             /\ w * (i - 1) \in Nat /\ total(i) \in Nat
             /\ w * i = w * (i - 1) + w
  <2>1. seqs[i] \in Seq(S) /\ Len(seqs[i]) \in Nat
    OBVIOUS
  <2>2. Len(seqs[i]) <= w
    <3>1. i = n \/ i \in 1..(n - 1)
      OBVIOUS
    <3> QED BY <3>1, <2>1
  <2>3. i - 1 \in Nat /\ (i - 1) + 1 = i
    OBVIOUS
  <2>4. w * (i - 1) \in Nat /\ w * ((i - 1) + 1) = w * (i - 1) + w
    BY <2>3, Products
  <2> QED BY <2>1, <2>2, <2>3, <2>4
<1>2. ASSUME NEW i \in 1..n, NEW k \in 1..i, NEW j \in 1..Len(seqs[k])
      PROVE  w * (k - 1) + j \in 1..total(i) /\ elem(w * (k - 1) + j) = seqs[k][j]
  <2>1. k \in 1..n /\ k \in Nat \ {0} /\ j \in 1..w
    BY <1>1
  <2>2. elem(w * (k - 1) + j) = seqs[k][j]
    <3> HIDE DEF g, elem, total
    <3>1. /\ (w * (k - 1) + j - 1) \div w = k - 1
          /\ (w * (k - 1) + j - 1) % w = j - 1
      <4> DEFINE q == k - 1
                 r == j - 1
      <4>1. q \in Nat /\ r \in 0..(w - 1) /\ w * q \in Nat /\ j \in Nat
        BY <2>1, Products
      <4>2. w * q + j - 1 = w * q + r
        BY <4>1
      <4> HIDE DEF q, r
      <4>3. (w * q + r) \div w = q /\ (w * q + r) % w = r
        BY <4>1, DivModUnique
      <4> QED BY <4>2, <4>3 DEF q, r
    <3>2. (k - 1) + 1 = k /\ (j - 1) + 1 = j
      BY <2>1
    <3> QED BY <3>1, <3>2 DEF elem
  <2>3. w * (k - 1) + j <= total(i)
    <3>1. CASE k = i
      BY <1>1, <2>1, <3>1
    <3>2. CASE k # i
      <4>1. k <= i - 1 /\ i - 1 \in Nat
        BY <3>2
      <4>2. w * k <= w * (i - 1)
        BY <2>1, <4>1, Products
      <4>3. w * (k - 1) + j <= w * k /\ w * (k - 1) + j \in Nat /\ w * k \in Nat
        BY <2>1, PlaceFacts, Products
      <4> DEFINE a == w * (k - 1) + j
                 b == w * k
                 c == w * (i - 1)
      <4>4. a <= b /\ b <= c /\ a \in Nat /\ b \in Nat /\ c \in Nat /\ Len(seqs[i]) \in Nat
        BY <1>1, <4>2, <4>3
      <4> HIDE DEF a, b, c
      <4>5. a <= c + Len(seqs[i])
        BY <4>4
      <4> QED BY <4>5 DEF a, c
    <3> QED BY <3>1, <3>2
  <2>4. w * (k - 1) + j \in Nat \ {0}
    BY <2>1, PlaceFacts
  <2> QED BY <1>1, <2>2, <2>3, <2>4
<1>3. ASSUME NEW i \in 1..n, NEW m \in 1..total(i)
      PROVE  \E k \in 1..i : \E j \in 1..Len(seqs[k]) : m = w * (k - 1) + j
  <2> DEFINE q == (m - 1) \div w
             r == (m - 1) % w
  <2>1. m - 1 \in Nat
    BY <1>1
  <2>2. q \in Nat /\ r \in 0..(w - 1) /\ m - 1 = w * q + r
    BY <2>1, DivMod
  <2> HIDE DEF q, r
  <2>3. w * q \in Nat /\ w * q <= m - 1
    BY <2>2, Products
  <2>4. q <= i - 1
    <3> SUFFICES ASSUME i <= q PROVE FALSE
      BY <2>2
    <3>1. w * i <= w * q
      BY <2>2, Products
    <3>2. w * i >= total(i) /\ w * i \in Nat
      BY <1>1
    <3> QED BY <1>1, <2>1, <2>3, <3>1, <3>2
  <2>5. q + 1 \in 1..i /\ q + 1 \in 1..n /\ w * ((q + 1) - 1) = w * q
    BY <2>2, <2>4
  <2>6. r + 1 \in 1..Len(seqs[q + 1])
    <3>1. CASE q = i - 1
      <4>1. m - 1 = w * (i - 1) + r
        BY <2>2, <3>1
      <4>2. r + 1 <= Len(seqs[i])
        BY <1>1, <2>2, <4>1
      <4>3. q + 1 = i
        BY <3>1
      <4> QED BY <1>1, <2>2, <4>2, <4>3
    <3>2. CASE q # i - 1
      <4>1. q + 1 \in 1..(n - 1)
        BY <2>2, <2>4, <3>2
      <4> QED BY <2>2, <4>1
    <3> QED BY <3>1, <3>2
  <2>7. m = w * ((q + 1) - 1) + (r + 1)
    BY <2>2, <2>3, <2>5
  <2> QED BY <2>5, <2>6, <2>7
<1>4. ASSUME NEW i \in 1..n
      PROVE  /\ g[i] \in Seq(S) /\ Len(g[i]) = total(i)
             /\ \A m \in 1..total(i) : g[i][m] = elem(m)
  <2>1. \A m \in 1..total(i) : elem(m) \in S
    <3> SUFFICES ASSUME NEW m \in 1..total(i) PROVE elem(m) \in S
      OBVIOUS
    <3>1. PICK k \in 1..i : \E j \in 1..Len(seqs[k]) : m = w * (k - 1) + j
      BY <1>3
    <3>2. PICK j \in 1..Len(seqs[k]) : m = w * (k - 1) + j
      BY <3>1
    <3>3. elem(m) = seqs[k][j]
      BY <1>2, <3>2
    <3>4. seqs[k] \in Seq(S)
      BY <1>1
    <3> QED BY <3>3, <3>4
  <2> HIDE DEF elem
  <2>2. g[i] \in [1..total(i) -> S] /\ \A m \in 1..total(i) : g[i][m] = elem(m)
    BY <2>1
  <2>3. total(i) \in Nat
    BY <1>1
  <2> HIDE DEF g, total
  <2>4. \E t \in Nat : g[i] \in [1..t -> S]
    BY <2>2, <2>3
  <2>5. g[i] \in Seq(S)
    BY <2>4, SeqDef
  <2> QED BY <2>2, <2>3, <2>5
<1>5. n \in Nat /\ Len(seqs) = n /\ DOMAIN seqs = 1..n /\ seqs \in Seq(Seq(S))
  OBVIOUS
<1>6. ASSUME NEW i \in 1..n
      PROVE  g[i] = IF i = 1 THEN seqs[i] ELSE g[i - 1] \o seqs[i]
  <2> HIDE DEF g, total, elem
  <2>1. CASE i = 1
    <3>1. total(i) = Len(seqs[i])
      BY <1>1, <2>1 DEF total
    <3>2. \A m \in 1..Len(seqs[i]) : g[i][m] = seqs[i][m]
      <4> SUFFICES ASSUME NEW m \in 1..Len(seqs[i]) PROVE elem(m) = seqs[i][m]
        BY <1>4, <3>1
      <4>1. w * (i - 1) + m = m
        BY <2>1
      <4>2. elem(w * (i - 1) + m) = seqs[i][m]
        BY <1>2
      <4> QED BY <4>1, <4>2
    <3>3. g[i] = seqs[i]
      BY <1>1, <1>4, <3>1, <3>2, SeqEqual
    <3> QED BY <2>1, <3>3
  <2>2. CASE i # 1
    <3>1. i - 1 \in 1..n /\ i - 1 \in 1..(n - 1) /\ i \in Nat
      BY <2>2
    <3> DEFINE x == w * (i - 1)
    <3>2. total(i - 1) = x /\ total(i) = x + Len(seqs[i]) /\ x \in Nat
      <4>1. Len(seqs[i - 1]) = w
        BY <3>1
      <4>2. w * (i - 1) = w * ((i - 1) - 1) + w /\ w * (i - 1) \in Nat
        BY <1>1, <3>1
      <4> QED BY <4>1, <4>2 DEF total
    <3>3. \A j \in 1..Len(seqs[i]) : elem(x + j) = seqs[i][j]
      BY <1>2, <3>1
    <3> HIDE DEF x
    <3> DEFINE both == g[i - 1] \o seqs[i]
    <3>4. /\ both \in Seq(S) /\ Len(both) = total(i)
          /\ \A m \in 1..x : both[m] = elem(m)
          /\ \A j \in 1..Len(seqs[i]) : both[x + j] = seqs[i][j]
      <4>1. g[i - 1] \in Seq(S) /\ Len(g[i - 1]) = x /\ \A m \in 1..x : g[i - 1][m] = elem(m)
        BY <1>4, <3>1, <3>2
      <4>2. seqs[i] \in Seq(S)
        BY <1>1
      <4> DEFINE front == g[i - 1]
                 back == seqs[i]
      <4>3. front \in Seq(S) /\ back \in Seq(S)
        BY <4>1, <4>2
      <4> HIDE DEF front, back
      <4>4. /\ front \o back \in Seq(S) /\ Len(front \o back) = Len(front) + Len(back)
            /\ \A m \in 1..Len(front) : (front \o back)[m] = front[m]
            /\ \A j \in 1..Len(back) : (front \o back)[Len(front) + j] = back[j]
        BY <4>3
      <4>5. /\ both \in Seq(S) /\ Len(both) = Len(g[i - 1]) + Len(seqs[i])
            /\ \A m \in 1..Len(g[i - 1]) : both[m] = g[i - 1][m]
            /\ \A j \in 1..Len(seqs[i]) : both[Len(g[i - 1]) + j] = seqs[i][j]
        BY <4>4 DEF front, back
      <4> HIDE DEF both
      <4> QED BY <3>2, <4>1, <4>5
    <3> HIDE DEF both
    <3>5. \A m \in 1..total(i) : g[i][m] = both[m]
      <4> SUFFICES ASSUME NEW m \in 1..total(i) PROVE elem(m) = both[m]
        BY <1>4
      <4>1. CASE m <= x
        <5>1. m \in 1..x
          BY <1>1, <3>2, <4>1
        <5> QED BY <3>4, <5>1
      <4>2. CASE ~(m <= x)
        <5>1. Len(seqs[i]) \in Nat
          BY <1>1
        <5> DEFINE j == m - x
        <5>2. j \in 1..Len(seqs[i]) /\ m = x + j
          BY <3>2, <4>2, <5>1
        <5> HIDE DEF j
        <5> QED BY <3>3, <3>4, <5>2
      <4> QED BY <4>1, <4>2
    <3>6. g[i] = both
      BY <1>4, <3>4, <3>5, SeqEqual
    <3> QED BY <2>2, <3>6 DEF both
  <2> QED BY <2>1, <2>2
<1>7. IsFlattening(g, seqs)
  <2>1. DOMAIN g = 1..n
    OBVIOUS
  <2>2. g = [i \in 1..n |-> g[i]]
    BY <2>1
  <2> HIDE DEF g
  <2> QED BY <1>5, <1>6, <2>2 DEF IsFlattening
<1> HIDE DEF g, total, elem
<1>8. FlattenSeq(seqs) = g[n]
  <2>1. PICK f : IsFlattening(f, seqs) /\ FlattenSeq(seqs) = f[n]
    BY <1>5, <1>7, FlattenUnfolds
  <2> QED BY <1>5, <1>7, <2>1, FlattenUnique
<1>9. n \in 1..n
  OBVIOUS
<1>10. \A k \in 1..n : \A j \in 1..Len(seqs[k]) : g[n][w * (k - 1) + j] = seqs[k][j]
  <2> SUFFICES ASSUME NEW k \in 1..n, NEW j \in 1..Len(seqs[k])
               PROVE  g[n][w * (k - 1) + j] = seqs[k][j]
    OBVIOUS
  <2>1. w * (k - 1) + j \in 1..total(n) /\ elem(w * (k - 1) + j) = seqs[k][j]
    BY <1>2, <1>9
  <2> QED BY <1>4, <1>9, <2>1
<1>11. Len(g[n]) = total(n)
  BY <1>4, <1>9
<1>12. \A m \in 1..Len(g[n]) : \E k \in 1..n : \E j \in 1..Len(seqs[k]) : m = w * (k - 1) + j
  BY <1>3, <1>9, <1>11
<1>13. /\ g[n] \in Seq(S) /\ Len(g[n]) = w * (n - 1) + Len(seqs[n])
  BY <1>4, <1>9 DEF total
<1> QED BY ONLY <1>8, <1>10, <1>12, <1>13 DEF Joined

\* The blocks are data, cut after every w elements.
CutInto(data, seqs, n, w, S) ==
  /\ data \in Seq(S) /\ Len(data) = w * (n - 1) + Len(seqs[n])
  /\ \A k \in 1..n : \A j \in 1..Len(seqs[k]) : seqs[k][j] = data[w * (k - 1) + j]

\* What is cut into blocks comes together again.
LEMMA FlattenRejoins ==
  ASSUME NEW S, NEW n, NEW w, NEW seqs, Blocks(seqs, n, w, S),
         NEW data, CutInto(data, seqs, n, w, S)
  PROVE  FlattenSeq(seqs) = data
<1>1. /\ data \in Seq(S) /\ Len(data) = w * (n - 1) + Len(seqs[n])
      /\ \A k \in 1..n : \A j \in 1..Len(seqs[k]) : seqs[k][j] = data[w * (k - 1) + j]
  BY DEF CutInto
<1> USE <1>1
<1> DEFINE whole == FlattenSeq(seqs)
<1>2. Joined(whole, seqs, n, w, S)
  BY ONLY Blocks(seqs, n, w, S), FlattenJoins
<1> HIDE DEF whole
<1>3. /\ whole \in Seq(S) /\ Len(whole) = w * (n - 1) + Len(seqs[n])
      /\ \A k \in 1..n : \A j \in 1..Len(seqs[k]) : whole[w * (k - 1) + j] = seqs[k][j]
      /\ \A m \in 1..Len(whole) :
           \E k \in 1..n : \E j \in 1..Len(seqs[k]) : m = w * (k - 1) + j
  BY <1>2 DEF Joined
<1> HIDE DEF whole
<1>4. \A m \in 1..Len(whole) : whole[m] = data[m]
  <2> SUFFICES ASSUME NEW m \in 1..Len(whole) PROVE whole[m] = data[m]
    OBVIOUS
  <2>1. PICK k \in 1..n : \E j \in 1..Len(seqs[k]) : m = w * (k - 1) + j
    BY <1>3
  <2>2. PICK j \in 1..Len(seqs[k]) : m = w * (k - 1) + j
    BY <2>1
  <2>3. whole[w * (k - 1) + j] = seqs[k][j] /\ seqs[k][j] = data[w * (k - 1) + j]
    BY <1>3
  <2> QED BY <2>2, <2>3
<1>5. whole = data
  BY <1>3, <1>4, SeqEqual
<1> QED BY <1>5 DEF whole

\* Blocks of equal length, of which there may be none.
EqualBlocks(seqs, q, w, S) ==
  /\ q \in Nat /\ w \in Nat \ {0} /\ seqs \in [1..q -> Seq(S)]
  /\ \A k \in 1..q : Len(seqs[k]) = w

JoinedEqual(whole, seqs, q, w, S) ==
  /\ whole \in Seq(S) /\ Len(whole) = w * q
  /\ \A k \in 1..q : \A j \in 1..w : whole[w * (k - 1) + j] = seqs[k][j]

LEMMA FlattenEqual ==
  ASSUME NEW S, NEW q, NEW w, NEW seqs, EqualBlocks(seqs, q, w, S)
  PROVE  JoinedEqual(FlattenSeq(seqs), seqs, q, w, S)
<1>0. /\ q \in Nat /\ w \in Nat \ {0} /\ seqs \in [1..q -> Seq(S)]
      /\ \A k \in 1..q : Len(seqs[k]) = w
  BY DEF EqualBlocks
<1> USE <1>0
<1> DEFINE whole == FlattenSeq(seqs)
<1>1. CASE q = 0
  <2>1. Len(seqs) = 0 /\ seqs \in Seq(Seq(S)) /\ seqs = <<>> /\ w * q = 0
    BY <1>1
  <2>2. whole = <<>>
    BY <2>1 DEF FlattenSeq
  <2>3. <<>> \in Seq(S) /\ Len(<<>>) = 0 /\ 1..q = {}
    BY <1>1
  <2> HIDE DEF whole
  <2>4. whole \in Seq(S) /\ Len(whole) = w * q
    BY ONLY <2>1, <2>2, <2>3
  <2>5. \A k \in 1..q : \A j \in 1..w : whole[w * (k - 1) + j] = seqs[k][j]
    BY <2>3
  <2> QED BY <2>4, <2>5 DEF whole, JoinedEqual
<1>2. CASE q # 0
  <2>0. Blocks(seqs, q, w, S)
    BY <1>2 DEF Blocks
  <2>1. Joined(whole, seqs, q, w, S)
    BY ONLY <2>0, FlattenJoins
  <2>2. /\ whole \in Seq(S) /\ Len(whole) = w * (q - 1) + Len(seqs[q])
        /\ \A k \in 1..q : \A j \in 1..Len(seqs[k]) : whole[w * (k - 1) + j] = seqs[k][j]
    BY <2>1 DEF Joined
  <2> HIDE DEF whole
  <2>3. Len(seqs[q]) = w /\ q - 1 \in Nat /\ (q - 1) + 1 = q
    BY <1>2
  <2>4. w * ((q - 1) + 1) = w * (q - 1) + w
    BY <2>3, Products
  <2>5. Len(whole) = w * q
    BY <2>2, <2>3, <2>4
  <2>6. \A k \in 1..q : \A j \in 1..w : whole[w * (k - 1) + j] = seqs[k][j]
    BY <2>2
  <2> QED BY <2>2, <2>5, <2>6 DEF whole, JoinedEqual
<1> QED BY <1>1, <1>2

------------------------------------------------------------------------------
(* base64                                                                  *)

\* The four sextets of three bytes are digits of the same number.
LEMMA SextetFacts ==
  ASSUME NEW a \in Byte, NEW b \in Byte, NEW c \in Byte
  PROVE  LET s == Sextets(a, b, c) IN
         /\ s \in Seq(0..63) /\ Len(s) = 4
         /\ s[1] * 262144 + s[2] * 4096 + s[3] * 64 + s[4] = a * 65536 + b * 256 + c
         /\ c = 0 => s[4] = 0
         /\ b = 0 /\ c = 0 => s[3] = 0
<1> DEFINE t == a * 65536 + b * 256 + c
<1>1. a \in 0..255 /\ b \in 0..255 /\ c \in 0..255
  BY DEF Byte
<1>2. t \in Nat /\ t = a * 65536 + b * 256 + c
  BY <1>1
<1>3. t \div 262144 \in Nat /\ t \div 262144 < 64
  BY <1>1, <1>2, Z3
<1> HIDE DEF t
<1>4. (t \div 4096) % 64 \in 0..63
  BY <1>2, Z3
<1>5. (t \div 64) % 64 \in 0..63
  BY <1>2, Z3
<1>6. t % 64 \in 0..63
  BY <1>2, Z3
<1>7. (t \div 262144) * 262144 + ((t \div 4096) % 64) * 4096 + ((t \div 64) % 64) * 64
        + (t % 64) = t
  <2>1. t \in Nat
    BY <1>2
  <2> QED BY <2>1, Z3
<1>8. c = 0 => t % 64 = 0
  BY <1>1, <1>2, Z3
<1>9. b = 0 /\ c = 0 => (t \div 64) % 64 = 0
  <2> SUFFICES ASSUME b = 0, c = 0 PROVE (t \div 64) % 64 = 0
    OBVIOUS
  <2>1. t = a * 65536
    BY <1>1, <1>2
  <2>2. t \div 64 = a * 1024
    BY <1>1, <2>1, Z3
  <2>3. (a * 1024) % 64 = 0
    BY <1>1, Z3
  <2> QED BY <2>2, <2>3
<1> DEFINE s1 == t \div 262144
           s2 == (t \div 4096) % 64
           s3 == (t \div 64) % 64
           s4 == t % 64
<1>10. Sextets(a, b, c) = <<s1, s2, s3, s4>>
  BY DEF Sextets, t
<1> HIDE DEF s1, s2, s3, s4
<1>11. s1 \in 0..63
  <2>1. s1 \in Nat /\ s1 < 64
    BY <1>3 DEF s1
  <2> QED BY <2>1
<1>12. s2 \in 0..63
  BY <1>4 DEF s2
<1>13. s3 \in 0..63
  BY <1>5 DEF s3
<1>14. s4 \in 0..63
  BY <1>6 DEF s4
<1>15. s1 * 262144 + s2 * 4096 + s3 * 64 + s4 = a * 65536 + b * 256 + c
  <2>1. s1 * 262144 + s2 * 4096 + s3 * 64 + s4 = t
    BY <1>7 DEF s1, s2, s3, s4
  <2> QED BY <1>2, <2>1
<1>16. c = 0 => s4 = 0
  BY <1>8 DEF s4
<1>17. b = 0 /\ c = 0 => s3 = 0
  BY <1>9 DEF s3
<1>18. <<s1, s2, s3, s4>> \in Seq(0..63) /\ Len(<<s1, s2, s3, s4>>) = 4
  BY <1>11, <1>12, <1>13, <1>14
<1> QED BY <1>10, <1>15, <1>16, <1>17, <1>18

\* Sextets and the padding.
Char == 0..64

LEMMA SextetTypes ==
  ASSUME NEW a \in Byte, NEW b \in Byte, NEW c \in Byte
  PROVE  Sextets(a, b, c) \in Seq(Char) /\ Len(Sextets(a, b, c)) = 4
<1> DEFINE s == Sextets(a, b, c)
<1>1. s \in Seq(0..63) /\ Len(s) = 4
  BY SextetFacts
<1> HIDE DEF s
<1>2. s \in Seq(Char)
  BY <1>1 DEF Char
<1> QED BY <1>1, <1>2 DEF s

\* The three bytes of a number.
LEMMA BytesFacts ==
  ASSUME NEW a \in Byte, NEW b \in Byte, NEW c \in Byte,
         NEW t, t = a * 65536 + b * 256 + c
  PROVE  t \div 65536 = a /\ (t \div 256) % 256 = b /\ t % 256 = c
<1>1. a \in 0..255 /\ b \in 0..255 /\ c \in 0..255 /\ t \in Nat
  BY DEF Byte
<1>2. t \div 65536 = a
  BY <1>1, Z3
<1>3. t \div 256 = a * 256 + b
  BY <1>1, Z3
<1>4. (a * 256 + b) % 256 = b
  BY <1>1, Z3
<1>5. t % 256 = c
  BY <1>1, Z3
<1> QED BY <1>2, <1>3, <1>4, <1>5

LEMMA FrontsOfThree ==
  ASSUME NEW S, NEW a \in S, NEW b \in S, NEW c \in S
  PROVE  /\ SubSeq(<<a, b, c>>, 1, 1) = <<a>>
         /\ SubSeq(<<a, b, c>>, 1, 2) = <<a, b>>
         /\ SubSeq(<<a, b, c>>, 1, 3) = <<a, b, c>>
<1> DEFINE s == <<a, b, c>>
<1>1. s \in Seq(S) /\ Len(s) = 3 /\ s[1] = a /\ s[2] = b /\ s[3] = c
  OBVIOUS
<1> HIDE DEF s
<1>2. /\ SubSeq(s, 1, 1) \in Seq(S) /\ Len(SubSeq(s, 1, 1)) = 1
      /\ SubSeq(s, 1, 1)[1] = s[1]
  BY <1>1
<1>3. /\ SubSeq(s, 1, 2) \in Seq(S) /\ Len(SubSeq(s, 1, 2)) = 2
      /\ SubSeq(s, 1, 2)[1] = s[1] /\ SubSeq(s, 1, 2)[2] = s[2]
  BY <1>1
<1>4. /\ SubSeq(s, 1, 3) \in Seq(S) /\ Len(SubSeq(s, 1, 3)) = 3
      /\ SubSeq(s, 1, 3)[1] = s[1] /\ SubSeq(s, 1, 3)[2] = s[2] /\ SubSeq(s, 1, 3)[3] = s[3]
  BY <1>1
<1> DEFINE f1 == SubSeq(s, 1, 1)
           f2 == SubSeq(s, 1, 2)
           f3 == SubSeq(s, 1, 3)
<1>5. /\ f1 \in Seq(S) /\ Len(f1) = 1 /\ f1[1] = a
      /\ f2 \in Seq(S) /\ Len(f2) = 2 /\ f2[1] = a /\ f2[2] = b
      /\ f3 \in Seq(S) /\ Len(f3) = 3 /\ f3[1] = a /\ f3[2] = b /\ f3[3] = c
  BY <1>1, <1>2, <1>3, <1>4
<1> HIDE DEF f1, f2, f3
<1>6. f1 = <<a>> /\ f2 = <<a, b>> /\ f3 = <<a, b, c>>
  BY <1>5
<1> QED BY <1>6 DEF f1, f2, f3, s

\* The decoder's view of four characters, with two, one or no padding.
LEMMA GroupFacts ==
  ASSUME NEW a \in Byte, NEW b \in Byte, NEW c \in Byte, NEW g
  PROVE  LET s == Sextets(a, b, c) IN
         /\ (g[1] = s[1] /\ g[2] = s[2] /\ g[3] = s[3] /\ g[4] = s[4])
              => Group(g) = <<a, b, c>>
         /\ (c = 0 /\ g[1] = s[1] /\ g[2] = s[2] /\ g[3] = s[3] /\ g[4] = Pad)
              => Group(g) = <<a, b>>
         /\ (b = 0 /\ c = 0 /\ g[1] = s[1] /\ g[2] = s[2] /\ g[3] = Pad /\ g[4] = Pad)
              => Group(g) = <<a>>
<1> DEFINE s == Sextets(a, b, c)
           t == Digit(g[1]) * 262144 + Digit(g[2]) * 4096 + Digit(g[3]) * 64 + Digit(g[4])
<1>1. /\ s[1] \in 0..63 /\ s[2] \in 0..63 /\ s[3] \in 0..63 /\ s[4] \in 0..63
      /\ s[1] * 262144 + s[2] * 4096 + s[3] * 64 + s[4] = a * 65536 + b * 256 + c
      /\ c = 0 => s[4] = 0
      /\ b = 0 /\ c = 0 => s[3] = 0
  BY SextetFacts
<1> HIDE DEF s
<1>2. /\ \A d \in 0..63 : Digit(d) = d /\ d # Pad
      /\ Digit(Pad) = 0
  BY DEF Digit, Pad
<1>3. Group(g) = SubSeq(<<t \div 65536, (t \div 256) % 256, t % 256>>, 1,
                        IF g[3] = Pad THEN 1 ELSE IF g[4] = Pad THEN 2 ELSE 3)
  BY DEF Group
<1>4. ASSUME t = a * 65536 + b * 256 + c
      PROVE  Group(g) = SubSeq(<<a, b, c>>, 1,
                               IF g[3] = Pad THEN 1 ELSE IF g[4] = Pad THEN 2 ELSE 3)
  <2>1. t \div 65536 = a /\ (t \div 256) % 256 = b /\ t % 256 = c
    BY <1>4, BytesFacts
  <2> HIDE DEF t
  <2> QED BY <1>3, <2>1
<1>5. /\ SubSeq(<<a, b, c>>, 1, 1) = <<a>>
      /\ SubSeq(<<a, b, c>>, 1, 2) = <<a, b>>
      /\ SubSeq(<<a, b, c>>, 1, 3) = <<a, b, c>>
  BY FrontsOfThree
<1>6. ASSUME g[1] = s[1], g[2] = s[2], g[3] = s[3], g[4] = s[4] PROVE Group(g) = <<a, b, c>>
  <2>1. t = a * 65536 + b * 256 + c
    BY <1>1, <1>2, <1>6
  <2>2. g[3] # Pad /\ g[4] # Pad
    BY <1>1, <1>2, <1>6
  <2> QED BY <1>4, <1>5, <2>1, <2>2
<1>7. ASSUME c = 0, g[1] = s[1], g[2] = s[2], g[3] = s[3], g[4] = Pad
      PROVE  Group(g) = <<a, b>>
  <2>1. t = a * 65536 + b * 256 + c
    BY <1>1, <1>2, <1>7
  <2>2. g[3] # Pad
    BY <1>1, <1>2, <1>7
  <2> QED BY <1>4, <1>5, <1>7, <2>1, <2>2
<1>8. ASSUME b = 0, c = 0, g[1] = s[1], g[2] = s[2], g[3] = Pad, g[4] = Pad
      PROVE  Group(g) = <<a>>
  <2>1. t = a * 65536 + b * 256 + c
    BY <1>1, <1>2, <1>8
  <2> QED BY <1>4, <1>5, <1>8, <2>1
<1> QED BY <1>6, <1>7, <1>8 DEF s

\* Four sextets and the padding.
LEMMA PaddedFacts ==
  ASSUME NEW S, NEW s \in Seq(S), Len(s) = 4, NEW p \in S
  PROVE  /\ SubSeq(s, 1, 2) \o <<p, p>> = <<s[1], s[2], p, p>>
         /\ SubSeq(s, 1, 3) \o <<p>> = <<s[1], s[2], s[3], p>>
         /\ <<s[1], s[2], p, p>> \in Seq(S)
         /\ <<s[1], s[2], s[3], p>> \in Seq(S)
<1> DEFINE f2 == SubSeq(s, 1, 2)
           f3 == SubSeq(s, 1, 3)
           p1 == <<p>>
           p2 == <<p, p>>
<1>1. f2 \in Seq(S) /\ Len(f2) = 2 /\ f2[1] = s[1] /\ f2[2] = s[2]
  OBVIOUS
<1>2. f3 \in Seq(S) /\ Len(f3) = 3 /\ f3[1] = s[1] /\ f3[2] = s[2] /\ f3[3] = s[3]
  BY SMTT(20)
<1>3. /\ p1 \in Seq(S) /\ Len(p1) = 1 /\ p1[1] = p
      /\ p2 \in Seq(S) /\ Len(p2) = 2 /\ p2[1] = p /\ p2[2] = p
  OBVIOUS
<1> HIDE DEF f2, f3, p1, p2
<1> DEFINE c2 == f2 \o p2
           c3 == f3 \o p1
<1>4. c2 \in Seq(S) /\ Len(c2) = 4 /\ c2[1] = s[1] /\ c2[2] = s[2] /\ c2[3] = p /\ c2[4] = p
  <2>0. f2 \in Seq(S) /\ p2 \in Seq(S)
    BY <1>1, <1>3
  <2>1. Len(f2) = 2 /\ Len(p2) = 2
    BY <1>1, <1>3
  <2>2. /\ c2 \in Seq(S) /\ Len(c2) = Len(f2) + Len(p2)
        /\ \A j \in 1..Len(f2) : c2[j] = f2[j]
        /\ \A j \in 1..Len(p2) : c2[Len(f2) + j] = p2[j]
    BY ONLY <2>0
  <2> HIDE DEF c2
  <2> QED BY <1>1, <1>3, <2>1, <2>2
<1>5. c3 \in Seq(S) /\ Len(c3) = 4 /\ c3[1] = s[1] /\ c3[2] = s[2] /\ c3[3] = s[3] /\ c3[4] = p
  <2>0. f3 \in Seq(S) /\ p1 \in Seq(S)
    BY <1>2, <1>3
  <2>1. Len(f3) = 3 /\ Len(p1) = 1
    BY <1>2, <1>3
  <2>2. /\ c3 \in Seq(S) /\ Len(c3) = Len(f3) + Len(p1)
        /\ \A j \in 1..Len(f3) : c3[j] = f3[j]
        /\ \A j \in 1..Len(p1) : c3[Len(f3) + j] = p1[j]
    BY ONLY <2>0
  <2> HIDE DEF c3
  <2> QED BY <1>2, <1>3, <2>1, <2>2
<1> HIDE DEF c2, c3
<1>6. c2 = <<s[1], s[2], p, p>>
  BY <1>4
<1>7. c3 = <<s[1], s[2], s[3], p>>
  BY <1>5
<1> QED BY <1>4, <1>5, <1>6, <1>7 DEF c2, c3, f2, f3, p1, p2

\* The characters behind the last whole group of three bytes.
LEMMA TailFacts ==
  ASSUME NEW data \in Seq(Byte), NEW q \in Nat, NEW r \in 0..2, Len(data) = 3 * q + r,
         NEW one, one = Sextets(data[Len(data)], 0, 0),
         NEW two, two = Sextets(data[Len(data) - 1], data[Len(data)], 0)
  PROVE  /\ r = 0 => Base64Tail(data) = <<>>
         /\ r = 1 => Base64Tail(data) = <<one[1], one[2], Pad, Pad>>
         /\ r = 2 => Base64Tail(data) = <<two[1], two[2], two[3], Pad>>
         /\ Base64Tail(data) \in Seq(Char)
         /\ Len(Base64Tail(data)) = IF r = 0 THEN 0 ELSE 4
<1>1. Len(data) \in Nat /\ Len(data) % 3 = r
  <2>1. r \in 0..(3 - 1)
    OBVIOUS
  <2>2. (3 * q + r) % 3 = r
    BY <2>1, DivModUnique
  <2> QED BY <2>2
<1>2. 0 \in Byte
  BY DEF Byte
<1> DEFINE tail == Base64Tail(data)
<1>3. tail = IF r = 0 THEN <<>> ELSE IF r = 1 THEN SubSeq(one, 1, 2) \o <<Pad, Pad>>
             ELSE SubSeq(two, 1, 3) \o <<Pad>>
  BY <1>1 DEF Base64Tail
<1> DEFINE x == data[Len(data)]
           y == data[Len(data) - 1]
<1>4. r # 0 => x \in Byte
  OBVIOUS
<1>5. r = 2 => y \in Byte
  OBVIOUS
<1> HIDE DEF tail
<1>6. one = Sextets(x, 0, 0) /\ two = Sextets(y, x, 0)
  OBVIOUS
<1> HIDE DEF x, y
<1>7. r # 0 => one \in Seq(Char) /\ Len(one) = 4
  BY ONLY <1>2, <1>4, <1>6, SextetTypes
<1>8. r = 2 => two \in Seq(Char) /\ Len(two) = 4
  BY ONLY <1>2, <1>4, <1>5, <1>6, SextetTypes
<1>9. Pad \in Char
  BY DEF Pad, Char
<1>10. CASE r = 0
  <2>1. tail = <<>>
    BY <1>3, <1>10
  <2>2. <<>> \in Seq(Char) /\ Len(<<>>) = 0
    OBVIOUS
  <2> QED BY <1>10, <2>1, <2>2 DEF tail
<1>11. CASE r = 1
  <2>1. tail = <<one[1], one[2], Pad, Pad>> /\ tail \in Seq(Char)
    <3>1. tail = SubSeq(one, 1, 2) \o <<Pad, Pad>>
      BY ONLY <1>3, <1>11
    <3>2. one \in Seq(Char) /\ Len(one) = 4
      BY <1>7, <1>11
    <3> QED BY ONLY <1>9, <3>1, <3>2, PaddedFacts, Zenon
  <2> QED BY ONLY <1>11, <2>1 DEF tail
<1>12. CASE r = 2
  <2>1. tail = <<two[1], two[2], two[3], Pad>> /\ tail \in Seq(Char)
    <3>1. tail = SubSeq(two, 1, 3) \o <<Pad>>
      BY ONLY <1>3, <1>12
    <3>2. two \in Seq(Char) /\ Len(two) = 4
      BY <1>8, <1>12
    <3> QED BY ONLY <1>9, <3>1, <3>2, PaddedFacts, Zenon
  <2> QED BY ONLY <1>12, <2>1 DEF tail
<1> QED BY <1>10, <1>11, <1>12

\* q groups of three bytes and r more, in characters.
Encodes(chars, data, q, r) ==
  /\ chars \in Seq(Char) /\ Len(chars) = 4 * q + (IF r = 0 THEN 0 ELSE 4)
  /\ \A k \in 1..q : \A j \in 1..4 :
       chars[4 * (k - 1) + j] = Sextets(data[3 * k - 2], data[3 * k - 1], data[3 * k])[j]
  /\ r # 0 => \A j \in 1..4 : chars[4 * q + j] = Base64Tail(data)[j]

\* The characters of base64_encode, group by group.
LEMMA EncodedFacts ==
  ASSUME NEW data \in Seq(Byte), NEW q \in Nat, NEW r \in 0..2, Len(data) = 3 * q + r
  PROVE  Encodes(base64_encode(data), data, q, r)
<1> DEFINE sextets(k) == Sextets(data[3 * k - 2], data[3 * k - 1], data[3 * k])
           body == [k \in 1..q |-> sextets(k)]
           front == FlattenSeq(body)
           tail == Base64Tail(data)
<1>1. Len(data) \div 3 = q
  <2>1. r \in 0..(3 - 1)
    OBVIOUS
  <2> QED BY <2>1, DivModUnique
<1>2. base64_encode(data) = front \o tail
  BY <1>1 DEF base64_encode
<1>3. tail \in Seq(Char) /\ Len(tail) = IF r = 0 THEN 0 ELSE 4
  BY TailFacts
<1>4. ASSUME NEW k \in 1..q
      PROVE  /\ sextets(k) \in Seq(Char) /\ Len(sextets(k)) = 4
  <2>1. 3 * k - 2 \in 1..Len(data) /\ 3 * k - 1 \in 1..Len(data) /\ 3 * k \in 1..Len(data)
    OBVIOUS
  <2>2. data[3 * k - 2] \in Byte /\ data[3 * k - 1] \in Byte /\ data[3 * k] \in Byte
    BY <2>1
  <2> DEFINE x == data[3 * k - 2]
             y == data[3 * k - 1]
             z == data[3 * k]
  <2>3. sextets(k) = Sextets(x, y, z)
    OBVIOUS
  <2>4. x \in Byte /\ y \in Byte /\ z \in Byte
    BY <2>2
  <2> HIDE DEF x, y, z, sextets
  <2>5. Sextets(x, y, z) \in Seq(Char) /\ Len(Sextets(x, y, z)) = 4
    BY ONLY <2>4, SextetTypes
  <2> QED BY <2>3, <2>5
<1>5. /\ front \in Seq(Char) /\ Len(front) = 4 * q
      /\ \A k \in 1..q : \A j \in 1..4 : front[4 * (k - 1) + j] = sextets(k)[j]
  <2> HIDE DEF sextets
  <2>1. body \in [1..q -> Seq(Char)] /\ \A k \in 1..q : body[k] = sextets(k)
    BY <1>4
  <2>2. \A k \in 1..q : Len(body[k]) = 4
    BY <1>4
  <2> HIDE DEF body
  <2>3. EqualBlocks(body, q, 4, Char)
    BY <2>1, <2>2 DEF EqualBlocks
  <2>4. JoinedEqual(FlattenSeq(body), body, q, 4, Char)
    BY ONLY <2>3, FlattenEqual
  <2>5. /\ FlattenSeq(body) \in Seq(Char) /\ Len(FlattenSeq(body)) = 4 * q
        /\ \A k \in 1..q : \A j \in 1..4 : FlattenSeq(body)[4 * (k - 1) + j] = body[k][j]
    BY <2>4 DEF JoinedEqual
  <2> HIDE DEF front
  <2>6. front = FlattenSeq(body)
    BY DEF front
  <2> QED BY <2>1, <2>5, <2>6
<1> HIDE DEF front, tail, sextets
<1> DEFINE chars == front \o tail
<1>6. /\ chars \in Seq(Char) /\ Len(chars) = Len(front) + Len(tail)
      /\ \A j \in 1..Len(front) : chars[j] = front[j]
      /\ \A j \in 1..Len(tail) : chars[Len(front) + j] = tail[j]
  <2>1. front \in Seq(Char) /\ tail \in Seq(Char)
    BY <1>3, <1>5
  <2> QED BY ONLY <2>1
<1> HIDE DEF chars
<1>7. \A k \in 1..q : \A j \in 1..4 : chars[4 * (k - 1) + j] = sextets(k)[j]
  <2> SUFFICES ASSUME NEW k \in 1..q, NEW j \in 1..4
               PROVE  chars[4 * (k - 1) + j] = sextets(k)[j]
    OBVIOUS
  <2>1. 4 * (k - 1) + j \in 1..(4 * q)
    OBVIOUS
  <2>2. chars[4 * (k - 1) + j] = front[4 * (k - 1) + j]
    BY <1>5, <1>6, <2>1
  <2> QED BY <1>5, <2>2
<1>8. r # 0 => \A j \in 1..4 : chars[4 * q + j] = tail[j]
  BY <1>3, <1>5, <1>6
<1>9. chars \in Seq(Char) /\ Len(chars) = 4 * q + (IF r = 0 THEN 0 ELSE 4)
  BY <1>3, <1>5, <1>6
<1>10. base64_encode(data) = chars
  BY <1>2 DEF chars
<1> QED BY ONLY <1>7, <1>8, <1>9, <1>10 DEF tail, sextets, Encodes

\* A group of four characters, cut out and decoded.
LEMMA CutFacts ==
  ASSUME NEW chars \in Seq(Char), NEW k \in Nat \ {0}, 4 * k <= Len(chars),
         NEW g, g = SubSeq(chars, 4 * k - 3, 4 * k)
  PROVE  \A j \in 1..4 : g[j] = chars[4 * (k - 1) + j]
<1>1. 4 * k - 3 \in Nat /\ 4 * k \in Nat /\ 1 <= 4 * k - 3 /\ 4 * k - 3 <= 4 * k
  OBVIOUS
<1> DEFINE a == 4 * k - 3
           b == 4 * k
<1>2. a \in Nat /\ b \in Nat /\ 1 <= a /\ a <= b /\ b <= Len(chars) /\ b - a + 1 = 4
  BY <1>1
<1>3. \A j \in 1..4 : 4 * (k - 1) + j = a + j - 1
  OBVIOUS
<1> HIDE DEF a, b
<1>4. \A j \in 1..(b - a + 1) : SubSeq(chars, a, b)[j] = chars[a + j - 1]
  BY <1>2
<1> QED BY <1>2, <1>3, <1>4 DEF a, b

\* base64 loses nothing: the decoder gets the data back, whatever their length.
LEMMA Base64RoundTrip ==
  ASSUME NEW data \in Seq(Byte)
  PROVE  /\ base64_encode(data) \in Seq(Char)
         /\ Len(base64_encode(data)) % 4 = 0
         /\ Decoded(base64_encode(data)) = data
<1> DEFINE q == Len(data) \div 3
           r == Len(data) % 3
           chars == base64_encode(data)
           m == q + (IF r = 0 THEN 0 ELSE 1)
           cut(k) == SubSeq(chars, 4 * k - 3, 4 * k)
           groups == [k \in 1..m |-> Group(cut(k))]
<1>1. q \in Nat /\ r \in 0..2 /\ Len(data) = 3 * q + r
  <2>1. Len(data) \in Nat /\ 3 \in Nat \ {0}
    OBVIOUS
  <2>2. q \in Nat /\ r \in 0..(3 - 1) /\ Len(data) = 3 * q + r
    BY <2>1, DivMod
  <2> QED BY <2>2
<1> HIDE DEF q, r
<1>2. Encodes(chars, data, q, r)
  BY <1>1, EncodedFacts
<1> HIDE DEF chars
<1>3. chars \in Seq(Char) /\ Len(chars) = 4 * m
  BY <1>1, <1>2 DEF Encodes
<1>4. m \in Nat
  BY <1>1
<1>5. Len(chars) \div 4 = m /\ Len(chars) % 4 = 0
  <2>1. 0 \in 0..(4 - 1) /\ 4 \in Nat \ {0}
    OBVIOUS
  <2> HIDE DEF m
  <2>2. (4 * m + 0) \div 4 = m /\ (4 * m + 0) % 4 = 0
    BY <1>4, <2>1, DivModUnique
  <2>3. Len(chars) = 4 * m + 0
    BY <1>3, <1>4
  <2> QED BY <2>2, <2>3
<1>6. ASSUME NEW k \in 1..m
      PROVE  \A j \in 1..4 : cut(k)[j] = chars[4 * (k - 1) + j]
  <2> DEFINE g == cut(k)
  <2>1. k \in Nat \ {0} /\ 4 * k <= Len(chars)
    BY <1>3, <1>4
  <2>2. g = SubSeq(chars, 4 * k - 3, 4 * k)
    OBVIOUS
  <2> HIDE DEF g
  <2>3. \A j \in 1..4 : g[j] = chars[4 * (k - 1) + j]
    BY <1>3, <2>1, <2>2, CutFacts
  <2> QED BY <2>3 DEF g
<1> HIDE DEF cut
<1>7. ASSUME NEW k \in 1..q
      PROVE  Group(cut(k)) = <<data[3 * k - 2], data[3 * k - 1], data[3 * k]>>
  <2> DEFINE x == data[3 * k - 2]
             y == data[3 * k - 1]
             z == data[3 * k]
             g == cut(k)
             s == Sextets(x, y, z)
  <2>1. 3 * k - 2 \in 1..Len(data) /\ 3 * k - 1 \in 1..Len(data) /\ 3 * k \in 1..Len(data)
    BY <1>1
  <2>2. x \in Byte /\ y \in Byte /\ z \in Byte
    BY <2>1
  <2>3. k \in 1..m
    BY <1>1
  <2>4. \A j \in 1..4 : g[j] = s[j]
    BY <1>2, <1>6, <2>3 DEF Encodes
  <2> HIDE DEF x, y, z, g
  <2>5. g[1] = s[1] /\ g[2] = s[2] /\ g[3] = s[3] /\ g[4] = s[4]
    BY <2>4
  <2>6. Group(g) = <<x, y, z>>
    BY ONLY <2>2, <2>5, GroupFacts
  <2> QED BY <2>6 DEF x, y, z, g
<1>8. ASSUME r = 1 PROVE Group(cut(m)) = <<data[Len(data)]>>
  <2> DEFINE x == data[Len(data)]
             g == cut(m)
             s == Sextets(x, 0, 0)
             two == Sextets(data[Len(data) - 1], data[Len(data)], 0)
             tail == Base64Tail(data)
  <2>1. x \in Byte /\ 0 \in Byte
    <3>1. Len(data) \in 1..Len(data)
      BY <1>1, <1>8
    <3>2. 0 \in Byte
      BY DEF Byte
    <3> QED BY <3>1, <3>2
  <2>2. m = q + 1 /\ m \in 1..m /\ 4 * (m - 1) = 4 * q
    BY <1>1, <1>8
  <2>3. \A j \in 1..4 : g[j] = tail[j]
    BY <1>2, <1>6, <1>8, <2>2 DEF Encodes
  <2>4. tail = <<s[1], s[2], Pad, Pad>>
    BY <1>1, <1>8, TailFacts
  <2> HIDE DEF x, g, tail
  <2>5. g[1] = s[1] /\ g[2] = s[2] /\ g[3] = Pad /\ g[4] = Pad
    BY <2>3, <2>4
  <2>6. Group(g) = <<x>>
    BY ONLY <2>1, <2>5, GroupFacts
  <2> QED BY <2>6 DEF x, g
<1>9. ASSUME r = 2 PROVE Group(cut(m)) = <<data[Len(data) - 1], data[Len(data)]>>
  <2> DEFINE x == data[Len(data) - 1]
             y == data[Len(data)]
             g == cut(m)
             s == Sextets(x, y, 0)
             tail == Base64Tail(data)
  <2>1. x \in Byte /\ y \in Byte /\ 0 \in Byte
    <3>1. Len(data) \in 1..Len(data) /\ Len(data) - 1 \in 1..Len(data)
      BY <1>1, <1>9
    <3>2. 0 \in Byte
      BY DEF Byte
    <3> QED BY <3>1, <3>2
  <2>2. m = q + 1 /\ m \in 1..m /\ 4 * (m - 1) = 4 * q
    BY <1>1, <1>9
  <2>3. \A j \in 1..4 : g[j] = tail[j]
    BY <1>2, <1>6, <1>9, <2>2 DEF Encodes
  <2>4. tail = <<s[1], s[2], s[3], Pad>>
    BY <1>1, <1>9, TailFacts
  <2> HIDE DEF x, y, g, tail
  <2>5. g[1] = s[1] /\ g[2] = s[2] /\ g[3] = s[3] /\ g[4] = Pad
    BY <2>3, <2>4
  <2>6. Group(g) = <<x, y>>
    BY ONLY <2>1, <2>5, GroupFacts
  <2> QED BY <2>6 DEF x, y, g
<1>10. Decoded(chars) = FlattenSeq(groups)
  BY <1>5 DEF Decoded, cut
<1>11. CASE m = 0
  <2>1. data = <<>>
    BY <1>1, <1>11
  <2>2. groups = <<>>
    BY <1>11
  <2>3. FlattenSeq(groups) = <<>>
    BY <2>2 DEF FlattenSeq
  <2> QED BY ONLY <1>3, <1>5, <1>10, <2>1, <2>3 DEF chars
<1>12. CASE m # 0
  <2>1. ASSUME NEW k \in 1..m
        PROVE  /\ groups[k] \in Seq(Byte)
               /\ Len(groups[k]) = IF k <= q THEN 3 ELSE r
               /\ \A j \in 1..Len(groups[k]) : groups[k][j] = data[3 * (k - 1) + j]
    <3>1. groups[k] = Group(cut(k))
      OBVIOUS
    <3> HIDE DEF groups
    <3>2. CASE k <= q
      <4>1. k \in 1..q
        BY <3>2
      <4>2. data[3 * k - 2] \in Byte /\ data[3 * k - 1] \in Byte /\ data[3 * k] \in Byte
        BY <1>1, <4>1
      <4>3. 3 * k - 2 = 3 * (k - 1) + 1 /\ 3 * k - 1 = 3 * (k - 1) + 2 /\ 3 * k = 3 * (k - 1) + 3
        BY <4>1
      <4> DEFINE x == data[3 * k - 2]
                 y == data[3 * k - 1]
                 z == data[3 * k]
      <4>4. groups[k] = <<x, y, z>>
        BY <1>7, <3>1, <4>1
      <4>5. /\ x \in Byte /\ y \in Byte /\ z \in Byte
            /\ x = data[3 * (k - 1) + 1] /\ y = data[3 * (k - 1) + 2] /\ z = data[3 * (k - 1) + 3]
        BY <4>2, <4>3
      <4> HIDE DEF x, y, z
      <4>6. /\ groups[k] \in Seq(Byte) /\ Len(groups[k]) = 3
            /\ groups[k][1] = x /\ groups[k][2] = y /\ groups[k][3] = z
        BY <4>4, <4>5
      <4> QED BY <3>2, <4>5, <4>6
    <3>3. CASE ~(k <= q)
      <4>1. k = m /\ k = q + 1 /\ r # 0
        BY <1>1, <3>3
      <4>2. CASE r = 1
        <5> DEFINE x == data[Len(data)]
        <5>1. groups[k] = <<x>>
          BY <1>8, <3>1, <4>1, <4>2
        <5>2. x \in Byte /\ x = data[3 * (k - 1) + 1]
          BY <1>1, <4>1, <4>2
        <5> HIDE DEF x
        <5>3. groups[k] \in Seq(Byte) /\ Len(groups[k]) = 1 /\ groups[k][1] = x
          BY <5>1, <5>2
        <5> QED BY <3>3, <4>2, <5>2, <5>3
      <4>3. CASE r = 2
        <5> DEFINE x == data[Len(data) - 1]
                   y == data[Len(data)]
        <5>1. groups[k] = <<x, y>>
          BY <1>9, <3>1, <4>1, <4>3
        <5>2. /\ x \in Byte /\ x = data[3 * (k - 1) + 1]
              /\ y \in Byte /\ y = data[3 * (k - 1) + 2]
          BY <1>1, <4>1, <4>3
        <5> HIDE DEF x, y
        <5>3. /\ groups[k] \in Seq(Byte) /\ Len(groups[k]) = 2
              /\ groups[k][1] = x /\ groups[k][2] = y
          BY <5>1, <5>2
        <5> QED BY <3>3, <4>3, <5>2, <5>3
      <4> QED BY <1>1, <4>1, <4>2, <4>3
    <3> QED BY <3>2, <3>3
  <2>2. groups \in [1..m -> Seq(Byte)]
    BY <2>1
  <2> HIDE DEF groups
  <2>3. \A k \in 1..(m - 1) : Len(groups[k]) = 3
    <3> SUFFICES ASSUME NEW k \in 1..(m - 1) PROVE Len(groups[k]) = 3
      OBVIOUS
    <3>1. k \in 1..m /\ k <= q
      BY <1>1
    <3> QED BY <2>1, <3>1
  <2>4. m \in 1..m /\ Len(groups[m]) = (IF r = 0 THEN 3 ELSE r)
    <3>1. m \in 1..m /\ (m <= q <=> r = 0)
      BY <1>1, <1>12
    <3> QED BY <2>1, <3>1
  <2>5. Blocks(groups, m, 3, Byte)
    BY <1>1, <1>4, <1>12, <2>2, <2>3, <2>4 DEF Blocks
  <2>6. Len(data) = 3 * (m - 1) + Len(groups[m])
    BY <1>1, <2>4
  <2>7. \A k \in 1..m : \A j \in 1..Len(groups[k]) : groups[k][j] = data[3 * (k - 1) + j]
    BY <2>1
  <2> HIDE DEF m
  <2>8. CutInto(data, groups, m, 3, Byte)
    BY <2>6, <2>7 DEF CutInto
  <2>9. FlattenSeq(groups) = data
    BY ONLY <2>5, <2>8, FlattenRejoins
  <2> QED BY ONLY <1>3, <1>5, <1>10, <2>9 DEF chars
<1> QED BY <1>11, <1>12

------------------------------------------------------------------------------
(* The first parameter sets of the stream                                  *)

\* FirstOf finds the first NAL unit of the type, if there is one.
LEMMA FirstOfFacts ==
  ASSUME NEW n \in Nat, NEW type
  PROVE  \/ /\ \A i \in 1..n : nal_type_of(stream[i]) # type
            /\ FirstOf(type, n) = <<>>
         \/ \E f \in 1..n : /\ nal_type_of(stream[f]) = type
                            /\ \A i \in 1..n : nal_type_of(stream[i]) = type => f <= i
                            /\ FirstOf(type, n) = stream[f]
<1> DEFINE found == {i \in 1..n : nal_type_of(stream[i]) = type}
<1>1. FirstOf(type, n) = LET f == IF found # {} THEN Min(found) ELSE 0
                         IN IF f = 0 THEN <<>> ELSE stream[f]
  BY DEF FirstOf, SelectInSubSeq
<1>2. CASE found = {}
  BY <1>1, <1>2
<1>3. CASE found # {}
  <2>1. \E f \in found : \A i \in found : f <= i
    <3>1. found \subseteq Nat
      OBVIOUS
    <3> HIDE DEF found
    <3>2. PICK f \in found : \A i \in found : ~(<<i, f>> \in OpToRel(<, Nat))
      BY <1>3, <3>1, NatLessThanWellFounded, WFMin
    <3>3. \A i \in found : ~(i < f)
      BY <3>1, <3>2 DEF OpToRel
    <3> QED BY <3>1, <3>3
  <2>2. Min(found) \in found /\ \A i \in found : Min(found) <= i
    BY <2>1 DEF Min
  <2>3. FirstOf(type, n) = stream[Min(found)]
    BY <1>1, <1>3, <2>2
  <2> QED BY <2>2, <2>3
<1> QED BY <1>2, <1>3

\* One NAL unit more: FirstOf changes as the cache does.
LEMMA FirstOfNext ==
  ASSUME NEW n \in Nat, NEW type, \A i \in 1..(n + 1) : stream[i] # <<>>
  PROVE  FirstOf(type, n + 1) = Cached(FirstOf(type, n), type, stream[n + 1])
<1> DEFINE nal == stream[n + 1]
           Is(i) == nal_type_of(stream[i]) = type
<1> HIDE DEF Is
<1>1. \/ (\A i \in 1..n : ~Is(i)) /\ FirstOf(type, n) = <<>>
      \/ \E f \in 1..n : Is(f) /\ (\A i \in 1..n : Is(i) => f <= i) /\ FirstOf(type, n) = stream[f]
  BY FirstOfFacts DEF Is
<1>2. \/ (\A i \in 1..(n + 1) : ~Is(i)) /\ FirstOf(type, n + 1) = <<>>
      \/ \E f \in 1..(n + 1) : /\ Is(f) /\ (\A i \in 1..(n + 1) : Is(i) => f <= i)
                               /\ FirstOf(type, n + 1) = stream[f]
  <2>1. n + 1 \in Nat
    OBVIOUS
  <2> QED BY <2>1, FirstOfFacts DEF Is
<1>3. Cached(FirstOf(type, n), type, nal) =
        IF Is(n + 1) /\ FirstOf(type, n) = <<>> THEN nal ELSE FirstOf(type, n)
  BY DEF Cached, Is
<1>4. CASE (\A i \in 1..n : ~Is(i)) /\ FirstOf(type, n) = <<>>
  <2>1. CASE Is(n + 1)
    <3>1. FirstOf(type, n + 1) = nal
      BY <1>2, <1>4, <2>1
    <3> QED BY <1>3, <1>4, <2>1, <3>1
  <2>2. CASE ~Is(n + 1)
    <3>1. \A i \in 1..(n + 1) : ~Is(i)
      BY <1>4, <2>2
    <3>2. FirstOf(type, n + 1) = <<>>
      BY <1>2, <3>1
    <3> QED BY <1>3, <1>4, <2>2, <3>2
  <2> QED BY <2>1, <2>2
<1>5. CASE \E f \in 1..n : Is(f) /\ (\A i \in 1..n : Is(i) => f <= i) /\ FirstOf(type, n) = stream[f]
  <2>1. PICK f \in 1..n : Is(f) /\ (\A i \in 1..n : Is(i) => f <= i) /\ FirstOf(type, n) = stream[f]
    BY <1>5
  <2>2. PICK e \in 1..(n + 1) : /\ Is(e) /\ (\A i \in 1..(n + 1) : Is(i) => e <= i)
                                /\ FirstOf(type, n + 1) = stream[e]
    BY <1>2, <2>1
  <2>3. e = f
    BY <2>1, <2>2
  <2>4. FirstOf(type, n) # <<>>
    BY <2>1
  <2> QED BY <1>3, <2>1, <2>2, <2>3, <2>4
<1> QED BY <1>1, <1>4, <1>5

\* None of the type among the first n.
LEMMA NoneFound ==
  ASSUME NEW n \in Nat, NEW type, \A i \in 1..n : stream[i] # <<>>,
         FirstOf(type, n) = <<>>
  PROVE  \A i \in 1..n : nal_type_of(stream[i]) # type
BY FirstOfFacts

\* What is found stays the first.
LEMMA FirstStays ==
  ASSUME NEW m \in Nat, NEW n \in Nat, m <= n, NEW type,
         \A i \in 1..n : stream[i] # <<>>, FirstOf(type, m) # <<>>
  PROVE  FirstOf(type, n) = FirstOf(type, m)
<1> DEFINE Is(i) == nal_type_of(stream[i]) = type
<1> HIDE DEF Is
<1>1. PICK f \in 1..m : Is(f) /\ (\A i \in 1..m : Is(i) => f <= i) /\ FirstOf(type, m) = stream[f]
  BY FirstOfFacts DEF Is
<1>2. PICK e \in 1..n : Is(e) /\ (\A i \in 1..n : Is(i) => e <= i) /\ FirstOf(type, n) = stream[e]
  <2>1. f \in 1..n /\ Is(f)
    BY <1>1
  <2> QED BY <2>1, FirstOfFacts DEF Is
<1>3. e = f
  BY <1>1, <1>2
<1> QED BY <1>1, <1>2, <1>3

------------------------------------------------------------------------------
(* FU-A                                                                    *)

\* The bits of the NAL header, in the FU indicator and in the FU header.
LEMMA IndicatorFacts ==
  ASSUME NEW x \in Byte, NEW ind, ind = (x \div 32) * 32 + 28
  PROVE  /\ ind \in Byte /\ ind % 32 = 28
         /\ (ind \div 32) * 32 + (x % 32) = x
<1>1. x \in Nat /\ x <= 255
  BY DEF Byte
<1>2. ind \in Nat /\ ind <= 255
  BY <1>1, Z3
<1>3. ind % 32 = 28
  BY <1>1, Z3
<1>4. ind \div 32 = x \div 32
  BY <1>1, Z3
<1>5. (x \div 32) * 32 + (x % 32) = x
  BY <1>1, Z3
<1> QED BY <1>2, <1>3, <1>4, <1>5 DEF Byte

LEMMA HeaderFacts ==
  ASSUME NEW nal, nal[1] \in Byte, NEW first \in BOOLEAN, NEW last \in BOOLEAN,
         NEW h, h = FuHeader(nal, first, last)
  PROVE  /\ h \in Byte /\ h % 32 = nal[1] % 32
         /\ (h >= 128) <=> first
         /\ ((h \div 64) % 2 = 1) <=> last
<1> DEFINE t == nal[1] % 32
<1>1. t \in Nat /\ t < 32 /\ t % 32 = t
  <2>1. nal[1] \in Nat
    BY DEF Byte
  <2> QED BY <2>1, Z3
<1>2. h = t + (IF first THEN 128 ELSE 0) + (IF last THEN 64 ELSE 0)
  BY DEF FuHeader, nal_type_of
<1> HIDE DEF t
<1>3. CASE first /\ last
  <2>1. h = t + 192 /\ h \in 0..255 /\ h >= 128
    BY <1>1, <1>2, <1>3
  <2>2. (t + 192) % 32 = t /\ ((t + 192) \div 64) % 2 = 1
    BY <1>1, Z3
  <2> QED BY <1>3, <2>1, <2>2 DEF Byte, t
<1>4. CASE first /\ ~last
  <2>1. h = t + 128 /\ h \in 0..255 /\ h >= 128
    BY <1>1, <1>2, <1>4
  <2>2. (t + 128) % 32 = t
    BY <1>1, Z3
  <2>3. ((t + 128) \div 64) % 2 = 0
    BY <1>1, Z3
  <2>4. h % 32 = t /\ ~((h \div 64) % 2 = 1)
    BY <2>1, <2>2, <2>3
  <2>5. h \in Byte
    BY <2>1 DEF Byte
  <2> QED BY <1>4, <2>1, <2>4, <2>5 DEF t
<1>5. CASE ~first /\ last
  <2>1. h = t + 64 /\ h \in 0..255 /\ ~(h >= 128)
    BY <1>1, <1>2, <1>5
  <2>2. (t + 64) % 32 = t /\ ((t + 64) \div 64) % 2 = 1
    BY <1>1, Z3
  <2> QED BY <1>5, <2>1, <2>2 DEF Byte, t
<1>6. CASE ~first /\ ~last
  <2>1. h = t /\ h \in 0..255 /\ ~(h >= 128)
    BY <1>1, <1>2, <1>6
  <2>2. (t \div 64) % 2 = 0
    BY <1>1, Z3
  <2> QED BY <1>1, <1>6, <2>1, <2>2 DEF Byte, t
<1> QED BY <1>3, <1>4, <1>5, <1>6

\* The fragments of a NAL unit: each fits, and RFC 6184 rebuilds the NAL unit.
FragmentsOf(frs, nal) ==
  /\ frs \in Seq(Seq(Byte)) /\ Len(frs) # 0
  /\ \A k \in 1..Len(frs) : Len(frs[k]) \in 1..Mtu
  /\ Rebuilt(frs) = nal

\* A NAL unit that fits.
LEMMA ShortFragments ==
  ASSUME NEW nal \in Seq(Byte), nal # <<>>, nal[1] % 32 # 28, Len(nal) <= Mtu, Mtu \in Nat
  PROVE  FragmentsOf(fragment_nal(nal), nal)
<1>1. fragment_nal(nal) = <<nal>>
  BY DEF fragment_nal
<1> DEFINE frs == <<nal>>
<1>2. frs \in Seq(Seq(Byte)) /\ Len(frs) = 1 /\ frs[1] = nal
  OBVIOUS
<1>3. Len(nal) \in 1..Mtu
  OBVIOUS
<1> HIDE DEF frs
<1>4. Rebuilt(frs) = nal
  BY <1>2 DEF Rebuilt
<1> QED BY <1>1, <1>2, <1>3, <1>4 DEF FragmentsOf, frs

\* A longer one.
LEMMA LongFragments ==
  ASSUME NEW nal \in Seq(Byte), Mtu \in Nat, Mtu >= 3, Len(nal) > Mtu
  PROVE  FragmentsOf(fragment_nal(nal), nal)
<1> DEFINE c == Mtu - 2
           L == Len(nal)
           q == (L - 2) \div c
           r == (L - 2) % c
           count == q + 1
           last == r + 1
<1>1. c \in Nat \ {0} /\ L \in Nat /\ L > c + 2 /\ L - 2 \in Nat /\ Mtu = c + 2
  OBVIOUS
<1>2. q \in Nat /\ r \in 0..(c - 1) /\ L - 2 = c * q + r
  BY <1>1, DivMod
<1>3. nal[1] \in Byte
  BY <1>1
<1> HIDE DEF c, L
<1>4. (L - 1 + c - 1) \div c = count
  <2>1. c * (q + 1) = c * q + c /\ c * q \in Nat /\ c * (q + 1) \in Nat
    BY <1>1, <1>2, Products
  <2>2. L - 1 + c - 1 = c * (q + 1) + r
    BY <1>1, <1>2, <2>1
  <2>3. q + 1 \in Nat
    BY <1>2
  <2> HIDE DEF q, r
  <2>4. (c * (q + 1) + r) \div c = q + 1
    BY <1>1, <1>2, <2>3, DivModUnique
  <2> QED BY <2>2, <2>4
<1>5. q # 0
  BY <1>1, <1>2
<1> HIDE DEF q, r
<1>6. count \in Nat \ {0} /\ count >= 2 /\ last \in 1..c /\ L - 1 = c * (count - 1) + last
  BY <1>1, <1>2, <1>5
<1> DEFINE ind == FuIndicator(nal)
           hdr(k) == FuHeader(nal, k = 1, k = count)
           piece(k) == SubSeq(nal, 2 + (k - 1) * c, IF k = count THEN L ELSE 1 + k * c)
           frag(k) == <<ind, hdr(k)>> \o piece(k)
           size(k) == IF k = count THEN last ELSE c
           frs == [k \in 1..count |-> frag(k)]
           pieces == [k \in 1..count |-> piece(k)]
           rest == SubSeq(nal, 2, L)
<1>7. fragment_nal(nal) = frs
  <2> DEFINE n == (Len(nal) - 1 + (Mtu - 2) - 1) \div (Mtu - 2)
             cut(m) == [k \in 1..m |->
                          <<FuIndicator(nal), FuHeader(nal, k = 1, k = m)>>
                            \o SubSeq(nal, 2 + (k - 1) * (Mtu - 2),
                                      IF k = m THEN Len(nal) ELSE 1 + k * (Mtu - 2))]
  <2>1. ~(Len(nal) <= Mtu)
    OBVIOUS
  <2>2. fragment_nal(nal) = cut(n)
    BY ONLY <2>1 DEF fragment_nal, max_payload_per_fragment
  <2>3. n = count
    BY ONLY <1>4 DEF c, L
  <2>4. frs = cut(count)
    BY DEF c, L
  <2> HIDE DEF cut, n, frs
  <2> QED BY ONLY <2>2, <2>3, <2>4
<1>8. /\ ind \in Byte /\ ind % 32 = 28
      /\ (ind \div 32) * 32 + (nal[1] % 32) = nal[1]
  <2>1. ind = (nal[1] \div 32) * 32 + 28
    BY DEF FuIndicator
  <2> DEFINE x == nal[1]
  <2> HIDE DEF ind, x
  <2>2. x \in Byte /\ ind = (x \div 32) * 32 + 28
    BY <1>3, <2>1 DEF x
  <2>3. ind \in Byte /\ ind % 32 = 28 /\ (ind \div 32) * 32 + (x % 32) = x
    BY ONLY <2>2, IndicatorFacts
  <2> QED BY <2>3 DEF x
<1>9. ASSUME NEW k \in 1..count
      PROVE  /\ hdr(k) \in Byte /\ hdr(k) % 32 = nal[1] % 32
             /\ (hdr(k) >= 128) <=> (k = 1)
             /\ ((hdr(k) \div 64) % 2 = 1) <=> (k = count)
  <2> DEFINE h == hdr(k)
             isFirst == k = 1
             isLast == k = count
  <2>1. isFirst \in BOOLEAN /\ isLast \in BOOLEAN /\ h = FuHeader(nal, isFirst, isLast)
    OBVIOUS
  <2> HIDE DEF h, isFirst, isLast
  <2>2. /\ h \in Byte /\ h % 32 = nal[1] % 32
        /\ (h >= 128) <=> isFirst
        /\ ((h \div 64) % 2 = 1) <=> isLast
    BY ONLY <1>3, <2>1, HeaderFacts
  <2> QED BY <2>2 DEF h, isFirst, isLast
<1>10. ASSUME NEW k \in 1..count
       PROVE  /\ piece(k) \in Seq(Byte) /\ Len(piece(k)) = size(k) /\ size(k) \in 1..c
              /\ \A j \in 1..size(k) : piece(k)[j] = nal[1 + (c * (k - 1) + j)]
  <2> DEFINE a == 2 + (k - 1) * c
             b == IF k = count THEN L ELSE 1 + k * c
             x == c * (k - 1)
  <2>1. x \in Nat /\ (k - 1) * c = x /\ k * c = x + c
    <3>1. k - 1 \in Nat /\ (k - 1) + 1 = k
      OBVIOUS
    <3>2. c * (k - 1) \in Nat /\ c * ((k - 1) + 1) = c * (k - 1) + c
      BY <1>1, <3>1, Products
    <3>3. (k - 1) * c = c * (k - 1) /\ k * c = c * k
      BY <1>1, <3>1
    <3> QED BY <3>1, <3>2, <3>3
  <2>2. k # count => x + c <= L - 2
    <3>1. k # count => k <= q
      BY <1>2
    <3>2. k # count => c * k <= c * q
      BY <1>1, <1>2, <3>1, Products
    <3>3. c * k = k * c /\ c * q \in Nat /\ c * k \in Nat
      BY <1>1, <1>2, Products
    <3> QED BY <1>1, <1>2, <2>1, <3>2, <3>3
  <2>3. k = count => x + last = L - 1
    BY <1>6
  <2> HIDE DEF x
  <2>4. /\ a \in Nat /\ b \in Nat /\ 1 <= a /\ a <= b /\ b <= L
        /\ b - a + 1 = size(k) /\ size(k) \in 1..c /\ a = x + 2
    BY <1>1, <1>6, <2>1, <2>2, <2>3, SMTT(20)
  <2>5. piece(k) = SubSeq(nal, a, b) /\ L = Len(nal)
    BY DEF L
  <2> HIDE DEF a, b, piece, size
  <2>6. /\ SubSeq(nal, a, b) \in Seq(Byte) /\ Len(SubSeq(nal, a, b)) = b - a + 1
        /\ \A j \in 1..(b - a + 1) : SubSeq(nal, a, b)[j] = nal[a + j - 1]
    BY ONLY nal \in Seq(Byte), <2>4, <2>5, SubSeqFacts, SMTT(20)
  <2>7. \A j \in 1..size(k) : a + j - 1 = 1 + (x + j)
    BY <2>1, <2>4
  <2> QED BY <2>4, <2>5, <2>6, <2>7 DEF x
<1> HIDE DEF ind, hdr, piece, size
<1>11. ASSUME NEW k \in 1..count
       PROVE  /\ frag(k) \in Seq(Byte) /\ Len(frag(k)) = 2 + size(k)
              /\ frag(k)[1] = ind /\ frag(k)[2] = hdr(k)
              /\ SubSeq(frag(k), 3, Len(frag(k))) = piece(k)
  <2> DEFINE front == <<ind, hdr(k)>>
             back == piece(k)
             n == size(k)
  <2>1. front \in Seq(Byte) /\ Len(front) = 2 /\ front[1] = ind /\ front[2] = hdr(k)
    BY <1>8, <1>9
  <2>2. back \in Seq(Byte) /\ Len(back) = n /\ n \in Nat /\ n >= 1
    BY <1>1, <1>10
  <2> HIDE DEF front, back
  <2> DEFINE whole == front \o back
  <2>3. frag(k) = whole
    BY DEF front, back
  <2>4. /\ whole \in Seq(Byte) /\ Len(whole) = Len(front) + Len(back)
        /\ \A j \in 1..Len(front) : whole[j] = front[j]
        /\ \A j \in 1..Len(back) : whole[Len(front) + j] = back[j]
    <3>1. front \in Seq(Byte) /\ back \in Seq(Byte)
      BY <2>1, <2>2
    <3> QED BY ONLY <3>1
  <2> HIDE DEF whole, n
  <2>5. /\ whole \in Seq(Byte) /\ Len(whole) = 2 + n /\ whole[1] = ind /\ whole[2] = hdr(k)
        /\ \A j \in 1..n : whole[2 + j] = back[j]
    BY <2>1, <2>2, <2>4
  <2> DEFINE tail == SubSeq(whole, 3, Len(whole))
  <2>6. tail \in Seq(Byte) /\ Len(tail) = n /\ \A j \in 1..n : tail[j] = whole[2 + j]
    BY <2>2, <2>5
  <2> HIDE DEF tail
  <2>7. tail = back
    BY <2>2, <2>5, <2>6, SeqEqual
  <2> QED BY <2>3, <2>5, <2>7 DEF tail, back, n
<1>12. rest \in Seq(Byte) /\ Len(rest) = L - 1 /\ \A j \in 1..(L - 1) : rest[j] = nal[1 + j]
  <2>1. 2 \in Nat /\ L \in Nat /\ 1 <= 2 /\ 2 <= L /\ L <= Len(nal)
    BY <1>1 DEF L
  <2> QED BY <2>1
<1> HIDE DEF rest, frag
<1>13. Blocks(pieces, count, c, Byte)
  <2>1. \A k \in 1..count : pieces[k] = piece(k)
    OBVIOUS
  <2>2. pieces \in [1..count -> Seq(Byte)]
    BY <1>10
  <2> HIDE DEF pieces
  <2>3. \A k \in 1..(count - 1) : Len(pieces[k]) = c
    <3> SUFFICES ASSUME NEW k \in 1..(count - 1) PROVE Len(pieces[k]) = c
      OBVIOUS
    <3>1. k \in 1..count /\ k # count
      BY <1>6
    <3> QED BY <1>10, <2>1, <3>1 DEF size
  <2>4. count \in 1..count
    BY <1>6
  <2>5. Len(pieces[count]) <= c
    BY <1>1, <1>6, <1>10, <2>1, <2>4 DEF size
  <2> QED BY <1>1, <1>6, <2>2, <2>3, <2>5 DEF Blocks
<1>14. CutInto(rest, pieces, count, c, Byte)
  <2>1. \A k \in 1..count : pieces[k] = piece(k)
    OBVIOUS
  <2> HIDE DEF pieces
  <2>2. count \in 1..count
    BY <1>6
  <2>3. Len(rest) = c * (count - 1) + Len(pieces[count])
    BY <1>6, <1>10, <1>12, <2>1, <2>2 DEF size
  <2>4. ASSUME NEW k \in 1..count, NEW j \in 1..Len(pieces[k])
        PROVE  pieces[k][j] = rest[c * (k - 1) + j]
    <3>1. /\ j \in 1..size(k) /\ size(k) \in 1..c
          /\ pieces[k][j] = nal[1 + (c * (k - 1) + j)]
      BY <1>10, <2>1, <2>4
    <3>2. c * (k - 1) + j \in 1..(L - 1)
      <4> DEFINE x == c * (k - 1)
      <4>1. k - 1 \in Nat /\ x \in Nat
        BY <1>1, Products
      <4>2. k = count => x + last = L - 1
        BY <1>6
      <4>3. k # count => x + c <= L - 1
        <5>1. k # count => k <= count - 1 /\ count - 1 \in Nat
          BY <1>6
        <5>2. k # count => c * k <= c * (count - 1)
          BY <1>1, <5>1, Products
        <5>3. (k - 1) + 1 = k
          OBVIOUS
        <5>4. c * ((k - 1) + 1) = x + c /\ c * (count - 1) \in Nat /\ count - 1 \in Nat
          BY <1>1, <1>6, <4>1, Products
        <5> QED BY <1>1, <1>6, <4>1, <5>2, <5>3, <5>4
      <4> HIDE DEF x
      <4>4. j \in Nat /\ j >= 1 /\ (IF k = count THEN j <= last ELSE j <= c)
        BY <1>1, <1>6, <3>1 DEF size
      <4>5. x + j \in 1..(L - 1)
        BY <1>1, <1>6, <4>1, <4>2, <4>3, <4>4
      <4> QED BY <4>5 DEF x
    <3> QED BY <1>12, <3>1, <3>2
  <2> QED BY <1>12, <2>3, <2>4 DEF CutInto
<1>15. FlattenSeq(pieces) = rest
  BY ONLY <1>13, <1>14, FlattenRejoins
<1>16. <<nal[1]>> \o rest = nal
  <2> DEFINE front == <<nal[1]>>
             whole == front \o rest
  <2>1. front \in Seq(Byte) /\ Len(front) = 1 /\ front[1] = nal[1]
    BY <1>3
  <2> HIDE DEF front
  <2>2. /\ whole \in Seq(Byte) /\ Len(whole) = Len(front) + Len(rest)
        /\ \A j \in 1..Len(front) : whole[j] = front[j]
        /\ \A j \in 1..Len(rest) : whole[Len(front) + j] = rest[j]
    <3>1. front \in Seq(Byte) /\ rest \in Seq(Byte)
      BY <1>12, <2>1
    <3> QED BY ONLY <3>1
  <2> HIDE DEF whole
  <2>3. Len(whole) = L /\ whole[1] = nal[1] /\ \A j \in 1..(L - 1) : whole[1 + j] = nal[1 + j]
    <3>1. Len(whole) = L
      BY <1>1, <1>12, <2>1, <2>2
    <3>2. whole[1] = nal[1]
      BY <2>1, <2>2
    <3>3. \A j \in 1..(L - 1) : whole[1 + j] = rest[j]
      BY <1>12, <2>1, <2>2
    <3> QED BY <1>12, <3>1, <3>2, <3>3
  <2>4. \A m \in 1..L : whole[m] = nal[m]
    <3> SUFFICES ASSUME NEW m \in 1..L, m # 1 PROVE whole[m] = nal[m]
      BY <2>3
    <3>1. m - 1 \in 1..(L - 1) /\ 1 + (m - 1) = m
      BY <1>1
    <3> QED BY <2>3, <3>1
  <2>5. whole = nal
    BY <2>2, <2>3, <2>4, SeqEqual DEF L
  <2> QED BY <2>5 DEF whole, front
<1>17. frs \in Seq(Seq(Byte)) /\ Len(frs) = count /\ \A k \in 1..count : frs[k] = frag(k)
  <2>1. frs \in [1..count -> Seq(Byte)] /\ \A k \in 1..count : frs[k] = frag(k)
    BY <1>11
  <2>2. count \in Nat
    BY <1>6
  <2> HIDE DEF frs, count
  <2> QED BY ONLY <2>1, <2>2
<1> HIDE DEF frs
<1>18. \A k \in 1..count : Len(frs[k]) \in 1..Mtu
  BY <1>1, <1>10, <1>11, <1>17
<1>19. /\ frs[1][1] = ind
       /\ \A k \in 1..count : frs[k][1] = frs[1][1] /\ frs[k][1] % 32 = 28
       /\ \A k \in 1..count : frs[k][2] >= 128 <=> k = 1
       /\ \A k \in 1..count : (frs[k][2] \div 64) % 2 = 1 <=> k = count
       /\ frs[1][2] % 32 = nal[1] % 32
  <2>1. 1 \in 1..count
    BY <1>6
  <2>2. \A k \in 1..count : frs[k][1] = ind /\ frs[k][2] = hdr(k)
    BY <1>11, <1>17
  <2>3. frs[1][1] = ind /\ frs[1][2] = hdr(1)
    BY <2>1, <2>2
  <2>4. \A k \in 1..count : frs[k][1] = frs[1][1] /\ frs[k][1] % 32 = 28
    BY <1>8, <2>2, <2>3
  <2>5. \A k \in 1..count : frs[k][2] >= 128 <=> k = 1
    BY <1>9, <2>2
  <2>6. \A k \in 1..count : (frs[k][2] \div 64) % 2 = 1 <=> k = count
    BY <1>9, <2>2
  <2>7. hdr(1) % 32 = nal[1] % 32
    BY <1>9, <2>1
  <2> QED BY <2>3, <2>4, <2>5, <2>6, <2>7
<1>20. [k \in 1..count |-> SubSeq(frs[k], 3, Len(frs[k]))] = pieces
  BY <1>11, <1>17
<1> HIDE DEF pieces
<1>21. Rebuilt(frs) = <<(frs[1][1] \div 32) * 32 + (frs[1][2] % 32)>> \o FlattenSeq(pieces)
  <2>1. Len(frs) = count /\ count # 1
    BY <1>6, <1>17
  <2>2. \A k \in 1..count : /\ frs[k][1] = frs[1][1] /\ frs[k][1] % 32 = 28
                            /\ frs[k][2] >= 128 <=> k = 1
                            /\ (frs[k][2] \div 64) % 2 = 1 <=> k = count
    BY <1>19
  <2> HIDE DEF count
  <2> QED BY ONLY <1>20, <2>1, <2>2 DEF Rebuilt
<1>22. (frs[1][1] \div 32) * 32 + (frs[1][2] % 32) = nal[1]
  BY <1>8, <1>19
<1>23. Rebuilt(frs) = nal
  BY <1>15, <1>16, <1>21, <1>22
<1> QED BY <1>6, <1>7, <1>17, <1>18, <1>23 DEF FragmentsOf

LEMMA FragmentFacts ==
  ASSUME NEW nal \in Seq(Byte), nal # <<>>, nal[1] % 32 # 28
  PROVE  FragmentsOf(fragment_nal(nal), nal)
<1>1. Mtu \in Nat /\ Mtu >= 3
  BY WireAssumption
<1>2. Len(nal) <= Mtu \/ Len(nal) > Mtu
  BY <1>1
<1> QED BY <1>1, <1>2, ShortFragments, LongFragments

------------------------------------------------------------------------------
(* RTP                                                                     *)

\* u is s and t behind one another.
IsConcat(u, s, t, S) ==
  /\ u \in Seq(S) /\ Len(u) = Len(s) + Len(t)
  /\ \A j \in 1..Len(s) : u[j] = s[j]
  /\ \A j \in 1..Len(t) : u[Len(s) + j] = t[j]

LEMMA ConcatIs ==
  ASSUME NEW S, NEW s \in Seq(S), NEW t \in Seq(S)
  PROVE  IsConcat(s \o t, s, t, S)
BY DEF IsConcat

LEMMA Uint16Is == \A n : n \in Uint16 <=> n \in Nat /\ n < 65536
<1> DEFINE m == 65535
<1>1. Uint16 = 0..m
  BY DEF Uint16
<1>2. m \in Nat /\ m + 1 = 65536
  OBVIOUS
<1> HIDE DEF m
<1>3. \A n : n \in 0..m <=> n \in Nat /\ n < m + 1
  BY <1>2
<1> QED BY <1>1, <1>2, <1>3

\* Two bytes, big-endian.
LEMMA Bytes16Facts ==
  ASSUME NEW n \in Uint16
  PROVE  LET b == Bytes16(n) IN
         /\ b \in Seq(Byte) /\ Len(b) = 2
         /\ 256 * b[1] + b[2] = n
<1>1. n \in Nat /\ n < 65536
  BY Uint16Is
<1> DEFINE h == n \div 256
           l == n % 256
<1>2. h \in Nat /\ h < 256
  BY <1>1, Z3
<1>3. l \in Nat /\ l < 256
  BY <1>1, Z3
<1>4. 256 * h + l = n
  BY <1>1, Z3
<1>5. Bytes16(n) = <<h, l>>
  BY DEF Bytes16
<1> HIDE DEF h, l
<1>6. h \in Byte /\ l \in Byte
  BY <1>2, <1>3 DEF Byte
<1>7. <<h, l>> \in Seq(Byte) /\ Len(<<h, l>>) = 2
  BY <1>6
<1> QED BY <1>4, <1>5, <1>7

\* Four.
LEMMA Bytes32Facts ==
  ASSUME NEW n, Fits32(n)
  PROVE  LET b == Bytes32(n) IN
         /\ b \in Seq(Byte) /\ Len(b) = 4
         /\ 65536 * (256 * b[1] + b[2]) + (256 * b[3] + b[4]) = n
<1> DEFINE h == n \div 65536
           l == n % 65536
           front == Bytes16(h)
           back == Bytes16(l)
           b == front \o back
<1>1. n \in Nat /\ h < 65536
  BY DEF Fits32
<1>2. h \in Nat
  <2>1. n \in Nat
    BY <1>1
  <2> QED BY <2>1, Z3
<1>3. l \in Nat /\ l < 65536
  <2>1. n \in Nat
    BY <1>1
  <2> QED BY <2>1, Z3
<1>4. 65536 * h + l = n
  <2>1. n \in Nat
    BY <1>1
  <2> QED BY <2>1, Z3
<1>5. Bytes32(n) = b
  BY DEF Bytes32
<1> HIDE DEF h, l
<1>6. h \in Uint16 /\ l \in Uint16
  BY <1>1, <1>2, <1>3, Uint16Is
<1>7. /\ front \in Seq(Byte) /\ Len(front) = 2 /\ 256 * front[1] + front[2] = h
      /\ back \in Seq(Byte) /\ Len(back) = 2 /\ 256 * back[1] + back[2] = l
  BY <1>6, Bytes16Facts
<1> HIDE DEF front, back
<1>8. IsConcat(b, front, back, Byte)
  BY <1>7, ConcatIs
<1> HIDE DEF b
<1>9. /\ b \in Seq(Byte) /\ Len(b) = 4
      /\ b[1] = front[1] /\ b[2] = front[2] /\ b[3] = back[1] /\ b[4] = back[2]
  BY <1>7, <1>8 DEF IsConcat
<1> QED BY <1>4, <1>5, <1>7, <1>9

\* A receiver reads out of a packet what build_packet was given.
Carries(p, seq, t, ssrc, k, n, f) ==
  /\ p \in Seq(Byte) /\ Len(p) = 12 + Len(f)
  /\ LET got == ReadPacket(p) IN
     /\ got.version = 2 /\ got.flags = 0 /\ got.payload_type = 96
     /\ got.sequence = seq /\ got.timestamp = t /\ got.ssrc = ssrc
     /\ got.marker <=> k = n
     /\ got.payload = f

LEMMA PacketFacts ==
  ASSUME NEW seq \in Uint16, NEW t, Fits32(t), NEW ssrc, Fits32(ssrc),
         NEW k, NEW n, NEW f \in Seq(Byte), NEW p,
         p = build_packet([payload_type |-> 96, sequence |-> seq, timestamp |-> t,
                           ssrc |-> ssrc, marker |-> k = n], f)
  PROVE  Carries(p, seq, t, ssrc, k, n, f)
<1> DEFINE m == IF k = n THEN 224 ELSE 96
           b1 == <<128, m>>
           b2 == Bytes16(seq)
           b3 == Bytes32(t)
           b4 == Bytes32(ssrc)
           b12 == b1 \o b2
           b123 == b12 \o b3
           header == b123 \o b4
           whole == header \o f
<1>1. p = whole
  <2>1. (IF k = n THEN 128 ELSE 0) + (96 % 128) = m
    <3>1. 96 % 128 = 96
      BY Z3
    <3> QED BY <3>1
  <2> HIDE DEF m
  <2> QED BY <2>1 DEF build_packet, write_header
<1>2. m \in Byte /\ 128 \in Byte
  BY DEF Byte
<1>3. (m >= 128) <=> k = n
  OBVIOUS
<1>4. m % 128 = 96
  BY Z3
<1> HIDE DEF m
<1>5. b1 \in Seq(Byte) /\ Len(b1) = 2 /\ b1[1] = 128 /\ b1[2] = m
  BY <1>2
<1>6. b2 \in Seq(Byte) /\ Len(b2) = 2 /\ 256 * b2[1] + b2[2] = seq
  BY Bytes16Facts
<1>7. /\ b3 \in Seq(Byte) /\ Len(b3) = 4
      /\ 65536 * (256 * b3[1] + b3[2]) + (256 * b3[3] + b3[4]) = t
  BY Bytes32Facts
<1>8. /\ b4 \in Seq(Byte) /\ Len(b4) = 4
      /\ 65536 * (256 * b4[1] + b4[2]) + (256 * b4[3] + b4[4]) = ssrc
  BY Bytes32Facts
<1> HIDE DEF b1, b2, b3, b4
<1>9. IsConcat(b12, b1, b2, Byte)
  BY <1>5, <1>6, ConcatIs
<1> HIDE DEF b12
<1>10. /\ b12 \in Seq(Byte) /\ Len(b12) = 4
       /\ b12[1] = 128 /\ b12[2] = m /\ b12[3] = b2[1] /\ b12[4] = b2[2]
  BY <1>5, <1>6, <1>9 DEF IsConcat
<1>11. IsConcat(b123, b12, b3, Byte)
  BY <1>7, <1>10, ConcatIs
<1> HIDE DEF b123
<1>12. /\ b123 \in Seq(Byte) /\ Len(b123) = 8
       /\ b123[1] = 128 /\ b123[2] = m /\ b123[3] = b2[1] /\ b123[4] = b2[2]
       /\ b123[5] = b3[1] /\ b123[6] = b3[2] /\ b123[7] = b3[3] /\ b123[8] = b3[4]
  BY <1>7, <1>10, <1>11 DEF IsConcat
<1>13. IsConcat(header, b123, b4, Byte)
  BY <1>8, <1>12, ConcatIs
<1> HIDE DEF header
<1>14. /\ header \in Seq(Byte) /\ Len(header) = 12
       /\ header[1] = 128 /\ header[2] = m /\ header[3] = b2[1] /\ header[4] = b2[2]
       /\ header[5] = b3[1] /\ header[6] = b3[2] /\ header[7] = b3[3] /\ header[8] = b3[4]
       /\ header[9] = b4[1] /\ header[10] = b4[2] /\ header[11] = b4[3] /\ header[12] = b4[4]
  BY <1>8, <1>12, <1>13 DEF IsConcat
<1>15. IsConcat(whole, header, f, Byte)
  BY <1>14, ConcatIs
<1> HIDE DEF whole
<1>16. /\ whole \in Seq(Byte) /\ Len(whole) = 12 + Len(f)
       /\ \A j \in 1..12 : whole[j] = header[j]
       /\ \A j \in 1..Len(f) : whole[12 + j] = f[j]
  BY <1>14, <1>15 DEF IsConcat
<1>17. whole[1] = 128 /\ whole[2] = m
  BY <1>14, <1>16
<1>18. Value16(whole, 3) = seq
  <2>1. whole[3] = b2[1] /\ whole[4] = b2[2]
    BY <1>14, <1>16
  <2> QED BY <1>6, <2>1 DEF Value16
<1>19. Value32(whole, 5) = t
  <2>1. whole[5] = b3[1] /\ whole[6] = b3[2] /\ whole[7] = b3[3] /\ whole[8] = b3[4]
    BY <1>14, <1>16
  <2> QED BY <1>7, <2>1 DEF Value16, Value32
<1>20. Value32(whole, 9) = ssrc
  <2>1. whole[9] = b4[1] /\ whole[10] = b4[2] /\ whole[11] = b4[3] /\ whole[12] = b4[4]
    BY <1>14, <1>16
  <2> QED BY <1>8, <2>1 DEF Value16, Value32
<1>21. SubSeq(whole, 13, Len(whole)) = f
  <2> DEFINE tail == SubSeq(whole, 13, Len(whole))
  <2>1. Len(f) \in Nat
    OBVIOUS
  <2>2. tail \in Seq(Byte) /\ Len(tail) = Len(f) /\ \A j \in 1..Len(f) : tail[j] = whole[12 + j]
    BY <1>16, <2>1, SMTT(20)
  <2> HIDE DEF tail
  <2>3. tail = f
    BY <1>16, <2>2, SeqEqual
  <2> QED BY <2>3 DEF tail
<1>22. 128 \div 64 = 2 /\ 128 % 64 = 0
  BY Z3
<1> DEFINE got == ReadPacket(whole)
<1>23. /\ got.version = whole[1] \div 64 /\ got.flags = whole[1] % 64
       /\ got.marker = (whole[2] >= 128) /\ got.payload_type = whole[2] % 128
       /\ got.sequence = Value16(whole, 3) /\ got.timestamp = Value32(whole, 5)
       /\ got.ssrc = Value32(whole, 9) /\ got.payload = SubSeq(whole, 13, Len(whole))
  BY DEF ReadPacket
<1> HIDE DEF got
<1>24. /\ got.version = 2 /\ got.flags = 0 /\ got.payload_type = 96
       /\ got.sequence = seq /\ got.timestamp = t /\ got.ssrc = ssrc
       /\ got.payload = f
  BY <1>4, <1>17, <1>18, <1>19, <1>20, <1>21, <1>22, <1>23
<1>25. got.marker <=> k = n
  BY <1>3, <1>17, <1>23
<1> QED BY <1>1, <1>16, <1>24, <1>25 DEF Carries, got

------------------------------------------------------------------------------
(* The inductive invariant                                                 *)

\* How far the prescan of a file can get.
Scannable == IF kMaxNals < Len(stream) THEN kMaxNals ELSE Len(stream)

\* The NAL units that went through the cache.
Seen == IF pos < scanned THEN scanned ELSE pos

StreamInv ==
  /\ stream \in Seq(NalUnits) /\ Len(stream) <= MaxNals
  /\ ssrc_ \in Ssrcs

CountInv ==
  /\ pc \in {"prescan", "serve"}
  /\ scanned \in 0..Scannable /\ pos \in 0..Len(stream)
  /\ pc = "prescan" => pos = 0 /\ sdp = None

\* The cache holds the first sets of what was seen.
CacheInv == sps_ = FirstOf(7, Seen) /\ pps_ = FirstOf(8, Seen)

\* A prescan that could open its file ends at its bound or with both sets.
PrescanInv == pc = "serve" /\ opened => scanned = Scannable \/ ~Missing

\* The last answer has both sets, in base64, or none, and it has them if the
\* prescan found them.
SdpInv ==
  sdp # None =>
    \E sprop \in {<<>>, <<base64_encode(FirstOf(7, Len(stream))),
                          base64_encode(FirstOf(8, Len(stream)))>>} :
      /\ sdp = build(96, 90000, sprop)
      /\ sprop # <<>> => FirstOf(7, Len(stream)) # <<>> /\ FirstOf(8, Len(stream)) # <<>>
      /\ opened /\ FirstOf(7, Scannable) # <<>> /\ FirstOf(8, Scannable) # <<>>
           => sprop # <<>>

\* The clock has advanced once per NAL unit at most.
ClockInv ==
  /\ sequence_ \in Uint16
  /\ \E t \in Timestamps : timestamp_ \in t..(t + pos * ts_increment_)

\* What send_nal makes of a NAL unit.
Sent(nal, sequence, timestamp, ssrc) ==
  LET fragments == fragment_nal(nal) IN
  [k \in DOMAIN fragments |->
     build_packet([payload_type |-> 96, sequence |-> (sequence + k - 1) % 65536,
                   timestamp |-> timestamp, ssrc |-> ssrc,
                   marker |-> k = Len(fragments)],
                  fragments[k])]

Advance(nal) == IF nal_type_of(nal) \in {1, 5} THEN ts_increment_ ELSE 0

\* The datagrams are those of the last NAL unit handed over.
SentInv ==
  packets # <<>> =>
    /\ pos # 0
    /\ \E s \in Uint16, t \in Nat :
         /\ Fits32(t)
         /\ packets = Sent(stream[pos], s, t, ssrc_)
         /\ sequence_ = (s + Len(packets)) % 65536
         /\ timestamp_ = t + Advance(stream[pos])

WireInv ==
  StreamInv /\ CountInv /\ CacheInv /\ PrescanInv /\ SdpInv /\ ClockInv /\ SentInv

------------------------------------------------------------------------------
(* What send_nal sends                                                     *)

LEMMA NalFacts ==
  ASSUME NEW nal \in NalUnits
  PROVE  nal \in Seq(Byte) /\ nal # <<>> /\ nal[1] \in Byte /\ nal[1] % 32 # 28
<1>1. nal \in Seq(Byte) /\ nal # <<>> /\ nal[1] % 32 # 28
  BY WireAssumption
<1> QED BY <1>1

LEMMA IncrementFacts == ts_increment_ \in Nat
<1>1. (IF Fps > 0 THEN Fps ELSE 30) \in Nat \ {0}
  BY WireAssumption
<1> DEFINE fps == IF Fps > 0 THEN Fps ELSE 30
<1> HIDE DEF fps
<1>2. 90000 \div fps \in Nat
  BY <1>1, Z3 DEF fps
<1> QED BY <1>2 DEF ts_increment_, fps

\* The packets carry the fragments, with consecutive sequence numbers and the
\* marker on the last.
SentAs(ps, frs, s, t, ssrc) ==
  /\ DOMAIN ps = 1..Len(frs) /\ Len(ps) = Len(frs)
  /\ \A k \in 1..Len(frs) :
       Carries(ps[k], (s + k - 1) % 65536, t, ssrc, k, Len(frs), frs[k])

LEMMA SentFacts ==
  ASSUME NEW nal \in NalUnits, NEW s \in Uint16, NEW t, Fits32(t), NEW ssrc, Fits32(ssrc)
  PROVE  /\ FragmentsOf(fragment_nal(nal), nal)
         /\ SentAs(Sent(nal, s, t, ssrc), fragment_nal(nal), s, t, ssrc)
<1> DEFINE frs == fragment_nal(nal)
           ps == Sent(nal, s, t, ssrc)
           packet(k) == build_packet([payload_type |-> 96, sequence |-> (s + k - 1) % 65536,
                                      timestamp |-> t, ssrc |-> ssrc,
                                      marker |-> k = Len(frs)], frs[k])
<1>1. FragmentsOf(frs, nal)
  BY NalFacts, FragmentFacts
<1>2. ps = [k \in DOMAIN frs |-> packet(k)]
  BY DEF Sent
<1> HIDE DEF frs, ps
<1>3. frs \in Seq(Seq(Byte)) /\ DOMAIN frs = 1..Len(frs) /\ Len(frs) \in Nat
  BY <1>1 DEF FragmentsOf
<1>4. ASSUME NEW k \in 1..Len(frs)
      PROVE  Carries(packet(k), (s + k - 1) % 65536, t, ssrc, k, Len(frs), frs[k])
  <2> DEFINE seq == (s + k - 1) % 65536
             f == frs[k]
             n == Len(frs)
  <2>1. seq \in Uint16
    <3>1. s + k - 1 \in Nat
      BY Uint16Is
    <3> DEFINE x == s + k - 1
    <3> HIDE DEF x
    <3>2. x % 65536 \in Nat /\ x % 65536 < 65536
      <4>1. x \in Nat
        BY <3>1 DEF x
      <4> QED BY <4>1, Z3
    <3> QED BY <3>2, Uint16Is DEF x
  <2>2. f \in Seq(Byte)
    BY <1>3
  <2>3. packet(k) = build_packet([payload_type |-> 96, sequence |-> seq, timestamp |-> t,
                                  ssrc |-> ssrc, marker |-> k = n], f)
    OBVIOUS
  <2> HIDE DEF seq, f, n, packet
  <2>4. Carries(packet(k), seq, t, ssrc, k, n, f)
    BY <2>1, <2>2, <2>3, PacketFacts
  <2> QED BY <2>4 DEF seq, f, n
<1> HIDE DEF packet
<1>5. DOMAIN ps = 1..Len(frs) /\ Len(ps) = Len(frs) /\ \A k \in 1..Len(frs) : ps[k] = packet(k)
  <2> DEFINE n == Len(frs)
  <2>1. n \in Nat /\ DOMAIN frs = 1..n
    BY <1>3
  <2>2. \A k \in 1..n : packet(k) \in Seq(Byte)
    <3> SUFFICES ASSUME NEW k \in 1..n PROVE packet(k) \in Seq(Byte)
      OBVIOUS
    <3>1. Carries(packet(k), (s + k - 1) % 65536, t, ssrc, k, Len(frs), frs[k])
      BY <1>4
    <3> QED BY <3>1 DEF Carries
  <2> HIDE DEF n
  <2>3. ps \in [1..n -> Seq(Byte)] /\ \A k \in 1..n : ps[k] = packet(k)
    BY ONLY <1>2, <2>1, <2>2
  <2>4. DOMAIN ps = 1..n /\ Len(ps) = n
    BY ONLY <2>1, <2>3
  <2> QED BY ONLY <2>3, <2>4 DEF n
<1>6. ASSUME NEW k \in 1..Len(frs)
      PROVE  Carries(ps[k], (s + k - 1) % 65536, t, ssrc, k, Len(frs), frs[k])
  <2> DEFINE seq == (s + k - 1) % 65536
             f == frs[k]
             n == Len(frs)
             p == ps[k]
  <2>1. Carries(packet(k), seq, t, ssrc, k, n, f)
    BY <1>4
  <2>2. p = packet(k)
    BY <1>5
  <2> HIDE DEF seq, f, n, p
  <2>3. Carries(p, seq, t, ssrc, k, n, f)
    BY ONLY <2>1, <2>2
  <2> QED BY <2>3 DEF seq, f, n, p
<1>7. SentAs(ps, frs, s, t, ssrc)
  BY ONLY <1>5, <1>6 DEF SentAs
<1> QED BY ONLY <1>1, <1>7 DEF frs, ps

\* send_nal in a state.
LEMMA SendIsSent ==
  ASSUME NEW nal
  PROVE  send_nal(nal) = Sent(nal, sequence_, timestamp_, ssrc_)
BY DEF send_nal, Sent

\* The sequence number k packets before the next one.
LEMMA SequenceSum ==
  ASSUME NEW s \in Nat, NEW n \in Nat, NEW k \in 1..n
  PROVE  (((s + k - 1) % 65536) + n - k + 1) % 65536 = (s + n) % 65536
<1> DEFINE x == s + k - 1
           y == n - k + 1
           q == x \div 65536
           r == x % 65536
<1>1. x \in Nat /\ y \in Nat /\ x + y = s + n
  OBVIOUS
<1>2. r + n - k + 1 = r + y
  <2>1. r \in Nat
    BY <1>1, Z3
  <2> HIDE DEF r
  <2> QED BY <2>1
<1> HIDE DEF x, y
<1>3. q \in Nat /\ r \in Nat /\ x = 65536 * q + r
  <2>1. x \in Nat
    BY <1>1
  <2> QED BY <2>1, Z3
<1> HIDE DEF q, r
<1>4. (65536 * q + r + y) % 65536 = (r + y) % 65536
  <2>1. r + y \in Nat
    BY <1>1, <1>3
  <2> DEFINE z == r + y
  <2>2. z \in Nat /\ 65536 * q + r + y = 65536 * q + z
    BY <1>1, <1>3
  <2> HIDE DEF z
  <2>3. (65536 * q + z) % 65536 = z % 65536
    BY ONLY <1>3, <2>2, Z3
  <2> QED BY <2>2, <2>3 DEF z
<1>5. s + n = 65536 * q + r + y
  BY <1>1, <1>3
<1> QED BY <1>2, <1>4, <1>5 DEF r, x

------------------------------------------------------------------------------
(* The invariant holds                                                     *)

\* The elements of the stream, and the counters as numbers.
LEMMA StreamFacts ==
  ASSUME WireInv
  PROVE  /\ Len(stream) \in Nat /\ scanned \in Nat /\ pos \in Nat /\ Scannable \in Nat
         /\ Scannable <= Len(stream) /\ Scannable <= kMaxNals /\ scanned <= Scannable
         /\ pos <= Len(stream) /\ Seen \in Nat /\ Seen <= Len(stream)
         /\ \A i \in 1..Len(stream) : stream[i] \in NalUnits /\ stream[i] # <<>>
<1>1. stream \in Seq(NalUnits) /\ kMaxNals \in Nat
  BY WireAssumption DEF WireInv, StreamInv
<1>2. Len(stream) \in Nat /\ \A i \in 1..Len(stream) : stream[i] \in NalUnits
  BY <1>1
<1>3. \A i \in 1..Len(stream) : stream[i] # <<>>
  BY <1>2, NalFacts
<1>4. Scannable \in Nat /\ Scannable <= Len(stream) /\ Scannable <= kMaxNals
  BY <1>1, <1>2 DEF Scannable
<1>5. scanned \in 0..Scannable /\ pos \in 0..Len(stream)
  BY DEF WireInv, CountInv
<1>6. Seen \in Nat /\ Seen <= Len(stream)
  BY <1>2, <1>4, <1>5 DEF Seen
<1> QED BY <1>2, <1>3, <1>4, <1>5, <1>6

\* The stream does not change, and what is found in it neither.
LEMMA FirstOfPrimed ==
  ASSUME stream' = stream, NEW type, NEW n
  PROVE  FirstOf(type, n)' = FirstOf(type, n)
BY DEF FirstOf, SelectInSubSeq

LEMMA ClockFits ==
  ASSUME WireInv
  PROVE  /\ Fits32(timestamp_) /\ Fits32(ssrc_)
         /\ \E t \in Timestamps : t \in Nat /\ timestamp_ \in t..(t + pos * ts_increment_)
<1>1. PICK t \in Timestamps : timestamp_ \in t..(t + pos * ts_increment_)
  BY DEF WireInv, ClockInv
<1>2. t \in Nat /\ Fits32(t + MaxNals * ts_increment_) /\ MaxNals \in Nat
  BY WireAssumption DEF ts_increment_
<1>3. pos \in Nat /\ pos <= MaxNals
  BY <1>2, StreamFacts DEF WireInv, StreamInv
<1> DEFINE a == pos * ts_increment_
           b == MaxNals * ts_increment_
<1>4. a \in Nat /\ b \in Nat /\ a <= b
  <2> DEFINE inc == ts_increment_
  <2>1. inc \in Nat
    BY IncrementFacts
  <2> HIDE DEF inc
  <2>2. inc * pos \in Nat /\ inc * MaxNals \in Nat /\ inc * pos <= inc * MaxNals
    BY <1>2, <1>3, <2>1, Products
  <2>3. inc * pos = pos * inc /\ inc * MaxNals = MaxNals * inc
    BY <1>2, <1>3, <2>1
  <2> QED BY <2>2, <2>3 DEF inc
<1> HIDE DEF a, b
<1>5. timestamp_ \in Nat /\ timestamp_ <= t + b
  BY <1>1, <1>2, <1>4 DEF a
<1>6. t + b \in Nat /\ (t + b) \div 65536 < 65536
  BY <1>2 DEF Fits32, b
<1>7. timestamp_ \div 65536 < 65536
  <2> DEFINE x == timestamp_
             y == t + b
  <2>1. x \in Nat /\ y \in Nat /\ x <= y /\ y \div 65536 < 65536
    BY <1>2, <1>4, <1>5, <1>6
  <2> HIDE DEF x, y
  <2>2. x \div 65536 < 65536
    BY <2>1, Z3
  <2> QED BY <2>2 DEF x
<1>8. Fits32(ssrc_)
  BY WireAssumption DEF WireInv, StreamInv
<1> QED BY <1>1, <1>2, <1>5, <1>7, <1>8 DEF Fits32

LEMMA InitInv ==
  ASSUME Init
  PROVE  WireInv
<1>1. PICK n \in 0..MaxNals : stream \in [1..n -> NalUnits]
  BY DEF Init
<1>2. MaxNals \in Nat /\ kMaxNals \in Nat /\ FirstSequences \subseteq Uint16
      /\ \A t \in Timestamps : t \in Nat
  BY WireAssumption
<1>3. stream \in Seq(NalUnits) /\ Len(stream) = n /\ n \in Nat /\ n <= MaxNals
  BY <1>1, <1>2
<1>4. StreamInv
  BY <1>3 DEF StreamInv, Init
<1>5. CountInv
  BY <1>2, <1>3 DEF CountInv, Scannable, Init
<1>6. CacheInv
  <2>1. Seen = 0
    BY DEF Seen, Init
  <2>2. FirstOf(7, 0) = <<>> /\ FirstOf(8, 0) = <<>>
    BY FirstOfFacts
  <2> QED BY <2>1, <2>2 DEF CacheInv, Init
<1>7. PrescanInv
  BY DEF PrescanInv, Init
<1>8. SdpInv
  BY DEF SdpInv, Init
<1>9. ClockInv
  <2>1. sequence_ \in Uint16
    BY <1>2 DEF Init
  <2>2. timestamp_ \in Timestamps /\ timestamp_ \in Nat /\ pos = 0
    BY <1>2 DEF Init
  <2>3. 0 * ts_increment_ = 0
    BY IncrementFacts
  <2>4. timestamp_ \in timestamp_..(timestamp_ + pos * ts_increment_)
    BY <2>2, <2>3
  <2> QED BY <2>1, <2>2, <2>4 DEF ClockInv
<1>10. SentInv
  BY DEF SentInv, Init
<1> QED BY <1>4, <1>5, <1>6, <1>7, <1>8, <1>9, <1>10 DEF WireInv

\* What a step that leaves the streamer alone keeps.
LEMMA StreamerKept ==
  ASSUME WireInv, UNCHANGED hubVars, UNCHANGED streamerVars
  PROVE  StreamInv' /\ ClockInv' /\ SentInv'
<1>1. StreamInv /\ ClockInv /\ SentInv
  BY DEF WireInv
<1>2. /\ camera' = camera /\ stream' = stream /\ ssrc_' = ssrc_ /\ pos' = pos
      /\ sequence_' = sequence_ /\ timestamp_' = timestamp_ /\ packets' = packets
  BY DEF hubVars, streamerVars
<1>3. StreamInv'
  BY <1>1, <1>2 DEF StreamInv
<1>4. ClockInv'
  BY <1>1, <1>2 DEF ClockInv, ts_increment_
<1>5. SentInv'
  BY <1>1, <1>2 DEF SentInv, Advance, ts_increment_
<1> QED BY <1>3, <1>4, <1>5

LEMMA PrescanNalInv ==
  ASSUME WireInv, PrescanNal
  PROVE  WireInv'
<1>1. StreamInv' /\ ClockInv' /\ SentInv'
  BY StreamerKept DEF PrescanNal
<1>2. /\ stream' = stream /\ pos' = pos /\ pc' = pc /\ sdp' = sdp /\ scanned' = scanned + 1
      /\ pc = "prescan" /\ scanned < kMaxNals /\ scanned < Len(stream)
      /\ sps_' = Cached(sps_, 7, stream[scanned + 1])
      /\ pps_' = Cached(pps_, 8, stream[scanned + 1])
  BY DEF PrescanNal, hubVars, streamerVars, PrescanWants, Cache
<1>3. pos = 0 /\ sdp = None
  BY <1>2 DEF WireInv, CountInv
<1>4. kMaxNals \in Nat
  BY WireAssumption
<1>5. CountInv'
  <2>1. Scannable' = Scannable /\ scanned + 1 \in 0..Scannable
    BY <1>2, <1>4, StreamFacts DEF Scannable
  <2> QED BY <1>2, <1>3, <2>1 DEF CountInv, WireInv
<1>6. CacheInv'
  <2>1. Seen = scanned /\ Seen' = scanned + 1
    BY <1>2, <1>3, StreamFacts DEF Seen
  <2>2. \A i \in 1..(scanned + 1) : stream[i] # <<>>
    BY <1>2, StreamFacts
  <2>3. /\ sps_' = FirstOf(7, scanned + 1)
        /\ pps_' = FirstOf(8, scanned + 1)
    <3>1. sps_ = FirstOf(7, scanned) /\ pps_ = FirstOf(8, scanned)
      BY <2>1 DEF WireInv, CacheInv
    <3> QED BY <1>2, <2>2, <3>1, FirstOfNext, StreamFacts
  <2>4. PICK n : n = scanned + 1
    OBVIOUS
  <2>5. FirstOf(7, n)' = FirstOf(7, n) /\ FirstOf(8, n)' = FirstOf(8, n)
    BY <1>2, FirstOfPrimed
  <2>6. sps_' = FirstOf(7, n)' /\ pps_' = FirstOf(8, n)' /\ Seen' = n
    BY <2>1, <2>3, <2>4, <2>5
  <2> QED BY <2>6 DEF CacheInv, FirstOf
<1>7. PrescanInv'
  BY <1>2 DEF PrescanInv
<1>8. SdpInv'
  BY <1>2, <1>3 DEF SdpInv
<1> QED BY <1>1, <1>5, <1>6, <1>7, <1>8 DEF WireInv

\* What a step that changes neither the cache nor the counters keeps.
LEMMA CacheKept ==
  ASSUME WireInv, UNCHANGED <<stream, scanned, pos, sps_, pps_>>
  PROVE  CacheInv'
<1>1. Seen' = Seen
  BY DEF Seen
<1>2. PICK n : n = Seen
  OBVIOUS
<1>3. FirstOf(7, n)' = FirstOf(7, n) /\ FirstOf(8, n)' = FirstOf(8, n)
  BY FirstOfPrimed
<1>4. sps_' = FirstOf(7, n)' /\ pps_' = FirstOf(8, n)' /\ Seen' = n
  BY <1>1, <1>2, <1>3 DEF WireInv, CacheInv
<1> QED BY <1>4 DEF CacheInv, FirstOf

LEMMA PrescanEndsInv ==
  ASSUME WireInv, PrescanEnds \/ PrescanFails
  PROVE  WireInv'
<1>1. StreamInv' /\ ClockInv' /\ SentInv'
  BY StreamerKept DEF PrescanEnds, PrescanFails
<1>2. /\ stream' = stream /\ pos' = pos /\ sdp' = sdp /\ scanned' = scanned
      /\ sps_' = sps_ /\ pps_' = pps_ /\ pc' = "serve" /\ pc = "prescan"
  BY DEF PrescanEnds, PrescanFails, hubVars, streamerVars
<1>3. pos = 0 /\ sdp = None
  BY <1>2 DEF WireInv, CountInv
<1>4. CountInv'
  BY <1>2 DEF WireInv, CountInv, Scannable
<1>5. CacheInv'
  BY <1>2, CacheKept
<1>6. PrescanInv'
  <2>1. CASE PrescanEnds
    <3>1. ~(scanned < kMaxNals) \/ ~Missing \/ ~(scanned < Len(stream))
      BY <2>1 DEF PrescanEnds, PrescanWants
    <3>2. kMaxNals \in Nat
      BY WireAssumption
    <3>3. scanned = Scannable \/ ~Missing
      BY <3>1, <3>2, StreamFacts DEF Scannable
    <3> QED BY <1>2, <3>3 DEF PrescanInv, Scannable, Missing
  <2>2. CASE PrescanFails
    <3>1. ~opened'
      BY <2>2 DEF PrescanFails
    <3> QED BY <3>1 DEF PrescanInv
  <2> QED BY <2>1, <2>2
<1>7. SdpInv'
  BY <1>2, <1>3 DEF SdpInv
<1> QED BY <1>1, <1>4, <1>5, <1>6, <1>7 DEF WireInv

\* What a step that does not answer keeps.
LEMMA SdpKept ==
  ASSUME WireInv, stream' = stream, opened' = opened, sdp' = sdp
  PROVE  SdpInv'
<1>1. SUFFICES ASSUME sdp # None PROVE SdpInv'
  BY DEF SdpInv
<1>2. PICK n, m : n = Len(stream) /\ m = Scannable
  OBVIOUS
<1>3. PICK p \in {<<>>, <<base64_encode(FirstOf(7, n)), base64_encode(FirstOf(8, n))>>} :
        /\ sdp = build(96, 90000, p)
        /\ p # <<>> => FirstOf(7, n) # <<>> /\ FirstOf(8, n) # <<>>
        /\ opened /\ FirstOf(7, m) # <<>> /\ FirstOf(8, m) # <<>> => p # <<>>
  BY <1>1, <1>2 DEF WireInv, SdpInv
<1>4. /\ FirstOf(7, n)' = FirstOf(7, n) /\ FirstOf(8, n)' = FirstOf(8, n)
      /\ FirstOf(7, m)' = FirstOf(7, m) /\ FirstOf(8, m)' = FirstOf(8, m)
  BY FirstOfPrimed
<1>5. /\ p \in {<<>>, <<base64_encode(FirstOf(7, n)'), base64_encode(FirstOf(8, n)')>>}
      /\ p # <<>> => FirstOf(7, n)' # <<>> /\ FirstOf(8, n)' # <<>>
      /\ opened' /\ FirstOf(7, m)' # <<>> /\ FirstOf(8, m)' # <<>> => p # <<>>
      /\ sdp' = build(96, 90000, p)
  BY <1>3, <1>4
<1>6. Len(stream)' = n /\ Scannable' = m
  BY <1>2 DEF Scannable
<1> QED BY ONLY <1>5, <1>6 DEF SdpInv, FirstOf

LEMMA DescribeInv ==
  ASSUME WireInv, Describe
  PROVE  WireInv'
<1>1. StreamInv' /\ ClockInv' /\ SentInv'
  BY StreamerKept DEF Describe
<1>2. /\ stream' = stream /\ pos' = pos /\ scanned' = scanned /\ opened' = opened
      /\ sps_' = sps_ /\ pps_' = pps_ /\ pc' = pc /\ pc = "serve"
      /\ sdp' = build(96, 90000, sprop_parameter_sets)
  BY DEF Describe, hubVars, streamerVars
<1>3. CountInv'
  BY <1>2 DEF WireInv, CountInv, Scannable
<1>4. CacheInv'
  BY <1>2, CacheKept
<1>5. PrescanInv'
  BY <1>2 DEF WireInv, PrescanInv, Scannable, Missing
<1>6. SdpInv'
  <2> DEFINE first(type) == FirstOf(type, Len(stream))
             both == <<base64_encode(first(7)), base64_encode(first(8))>>
             sprop == sprop_parameter_sets
  <2>1. sps_ = FirstOf(7, Seen) /\ pps_ = FirstOf(8, Seen)
    BY DEF WireInv, CacheInv
  <2>2. ~Missing => first(7) = sps_ /\ first(8) = pps_
    <3>1. ~Missing => FirstOf(7, Seen) # <<>> /\ FirstOf(8, Seen) # <<>>
      BY <2>1 DEF Missing
    <3> QED BY <2>1, <3>1, StreamFacts, FirstStays
  <2>3. /\ Missing => sprop = <<>>
        /\ ~Missing => sprop = both /\ first(7) # <<>> /\ first(8) # <<>>
    BY <2>2 DEF sprop_parameter_sets, Missing
  <2>4. both # <<>>
    OBVIOUS
  <2>5. opened /\ FirstOf(7, Scannable) # <<>> /\ FirstOf(8, Scannable) # <<>> => ~Missing
    <3> SUFFICES ASSUME opened, FirstOf(7, Scannable) # <<>>, FirstOf(8, Scannable) # <<>>,
                        Missing
                 PROVE  FALSE
      OBVIOUS
    <3>1. scanned = Scannable
      BY <1>2 DEF WireInv, PrescanInv
    <3>2. Scannable <= Seen
      BY <3>1, StreamFacts DEF Seen
    <3>3. \A i \in 1..Seen : stream[i] # <<>>
      BY StreamFacts
    <3>4. FirstOf(7, Seen) # <<>> /\ FirstOf(8, Seen) # <<>>
      BY <3>2, <3>3, StreamFacts, FirstStays
    <3> QED BY <2>1, <3>4 DEF Missing
  <2>6. /\ sprop \in {<<>>, both}
        /\ sprop # <<>> => first(7) # <<>> /\ first(8) # <<>>
        /\ opened /\ FirstOf(7, Scannable) # <<>> /\ FirstOf(8, Scannable) # <<>>
             => sprop # <<>>
    BY <2>3, <2>4, <2>5
  <2>7. PICK n, m, p : n = Len(stream) /\ m = Scannable /\ p = sprop
    OBVIOUS
  <2>8. /\ FirstOf(7, n)' = FirstOf(7, n) /\ FirstOf(8, n)' = FirstOf(8, n)
        /\ FirstOf(7, m)' = FirstOf(7, m) /\ FirstOf(8, m)' = FirstOf(8, m)
    BY <1>2, FirstOfPrimed
  <2>9. /\ p \in {<<>>, <<base64_encode(FirstOf(7, n)'), base64_encode(FirstOf(8, n)')>>}
        /\ p # <<>> => FirstOf(7, n)' # <<>> /\ FirstOf(8, n)' # <<>>
        /\ opened' /\ FirstOf(7, m)' # <<>> /\ FirstOf(8, m)' # <<>> => p # <<>>
        /\ sdp' = build(96, 90000, p)
    BY <1>2, <2>6, <2>7, <2>8
  <2>10. Len(stream)' = n /\ Scannable' = m
    BY <1>2, <2>7 DEF Scannable
  <2> HIDE DEF first, both, sprop
  <2> QED BY ONLY <2>9, <2>10 DEF SdpInv, FirstOf
<1> QED BY <1>1, <1>3, <1>4, <1>5, <1>6 DEF WireInv

\* The cache, whether the prescan has seen the NAL unit before or not.
LEMMA CacheNext ==
  ASSUME WireInv, pos < Len(stream), NEW type, NEW set, set = FirstOf(type, Seen),
         NEW n, n = IF pos + 1 < scanned THEN scanned ELSE pos + 1
  PROVE  Cached(set, type, stream[pos + 1]) = FirstOf(type, n)
<1> DEFINE i == pos + 1
<1>1. i \in 1..Len(stream) /\ i \in Nat
  BY StreamFacts
<1>2. CASE pos < scanned
  <2>1. n = scanned /\ Seen = scanned /\ i \in 1..scanned
    BY <1>2, StreamFacts DEF Seen
  <2>2. \A k \in 1..scanned : stream[k] # <<>>
    BY StreamFacts
  <2>3. set = <<>> => nal_type_of(stream[i]) # type
    BY <2>1, <2>2, NoneFound, StreamFacts
  <2> QED BY <2>1, <2>3 DEF Cached
<1>3. CASE ~(pos < scanned)
  <2>1. n = pos + 1 /\ Seen = pos
    BY <1>3, StreamFacts DEF Seen
  <2>2. \A k \in 1..(pos + 1) : stream[k] # <<>>
    BY StreamFacts
  <2> QED BY <2>1, <2>2, FirstOfNext, StreamFacts
<1> QED BY <1>2, <1>3

LEMMA OnNalInv ==
  ASSUME WireInv, OnNal
  PROVE  WireInv'
<1> DEFINE nal == stream[pos + 1]
<1>1. /\ stream' = stream /\ ssrc_' = ssrc_ /\ pc' = pc /\ opened' = opened
      /\ scanned' = scanned /\ sdp' = sdp /\ pos' = pos + 1
      /\ pc = "serve" /\ pos < Len(stream)
      /\ sps_' = Cached(sps_, 7, nal) /\ pps_' = Cached(pps_, 8, nal)
      /\ packets' = send_nal(nal)
      /\ sequence_' = (sequence_ + Len(packets')) % 65536
      /\ timestamp_' =
           IF nal_type_of(nal) \in {1, 5} THEN timestamp_ + ts_increment_ ELSE timestamp_
  BY DEF OnNal, hubVars, Cache
<1>2. nal \in NalUnits
  BY <1>1, StreamFacts
<1>3. sequence_ \in Uint16 /\ sequence_ \in Nat /\ Fits32(timestamp_) /\ Fits32(ssrc_)
  BY ClockFits, Uint16Is DEF WireInv, ClockInv
<1>4. packets' = Sent(nal, sequence_, timestamp_, ssrc_)
  BY <1>1, SendIsSent
<1>5. Len(packets') \in Nat
  <2> DEFINE ps == Sent(nal, sequence_, timestamp_, ssrc_)
             frs == fragment_nal(nal)
  <2>1. FragmentsOf(frs, nal) /\ SentAs(ps, frs, sequence_, timestamp_, ssrc_)
    BY <1>2, <1>3, SentFacts
  <2> HIDE DEF ps, frs
  <2>2. Len(ps) \in Nat
    BY <2>1 DEF FragmentsOf, SentAs
  <2> QED BY <1>4, <2>2 DEF ps
<1>6. timestamp_' = timestamp_ + Advance(nal)
  <2>1. timestamp_ \in Nat
    BY <1>2, <1>3 DEF Fits32
  <2> QED BY <1>1, <2>1 DEF Advance
<1>7. StreamInv'
  BY <1>1 DEF WireInv, StreamInv
<1>8. CountInv'
  <2>1. pos + 1 \in 0..Len(stream)
    BY <1>1, StreamFacts
  <2> QED BY <1>1, <2>1 DEF WireInv, CountInv, Scannable
<1>9. CacheInv'
  <2>1. PICK n : n = IF pos + 1 < scanned THEN scanned ELSE pos + 1
    OBVIOUS
  <2>2. sps_ = FirstOf(7, Seen) /\ pps_ = FirstOf(8, Seen)
    BY DEF WireInv, CacheInv
  <2>3. sps_' = FirstOf(7, n) /\ pps_' = FirstOf(8, n)
    BY <1>1, <2>1, <2>2, CacheNext
  <2>4. FirstOf(7, n)' = FirstOf(7, n) /\ FirstOf(8, n)' = FirstOf(8, n)
    BY <1>1, FirstOfPrimed
  <2>5. Seen' = n
    BY <1>1, <2>1 DEF Seen
  <2>6. sps_' = FirstOf(7, n)' /\ pps_' = FirstOf(8, n)'
    BY <2>3, <2>4
  <2> QED BY ONLY <2>5, <2>6 DEF CacheInv, FirstOf
<1>10. PrescanInv'
  <2>1. ~Missing => ~Missing'
    BY <1>1 DEF Missing, Cached
  <2> QED BY <1>1, <2>1 DEF WireInv, PrescanInv, Scannable
<1>11. SdpInv'
  BY <1>1, SdpKept
<1>12. ClockInv'
  <2>1. sequence_' \in Uint16
    <3> DEFINE x == sequence_ + Len(packets')
    <3>1. x \in Nat /\ sequence_' = x % 65536
      BY <1>1, <1>3, <1>5
    <3> HIDE DEF x
    <3>2. x % 65536 \in Nat /\ x % 65536 < 65536
      BY <3>1, Z3
    <3> QED BY <3>1, <3>2, Uint16Is
  <2>2. PICK t \in Timestamps : t \in Nat /\ timestamp_ \in t..(t + pos * ts_increment_)
    BY ClockFits
  <2> DEFINE inc == ts_increment_
             y == pos * inc
  <2>3. inc \in Nat /\ Advance(nal) \in 0..inc
    BY IncrementFacts DEF Advance
  <2>4. y \in Nat /\ (pos + 1) * inc = y + inc
    <3>1. pos \in Nat /\ pos + 1 \in Nat
      BY StreamFacts
    <3> HIDE DEF inc
    <3>2. inc * pos \in Nat /\ inc * (pos + 1) = inc * pos + inc
      BY <2>3, <3>1, Products
    <3>3. inc * pos = pos * inc /\ inc * (pos + 1) = (pos + 1) * inc
      BY <2>3, <3>1
    <3> QED BY <3>2, <3>3
  <2>5. timestamp_ + Advance(nal) \in t..(t + (pos + 1) * inc)
    <3> DEFINE z == (pos + 1) * inc
               a == Advance(nal)
    <3>1. /\ timestamp_ \in t..(t + y) /\ a \in 0..inc /\ z = y + inc
          /\ t \in Nat /\ y \in Nat /\ inc \in Nat
      BY <2>2, <2>3, <2>4
    <3> HIDE DEF z, a, y, inc
    <3>2. timestamp_ + a \in t..(t + z)
      BY <3>1
    <3> QED BY <3>2 DEF z, a
  <2>6. timestamp_' \in t..(t + pos' * ts_increment_)
    BY <1>1, <1>6, <2>5
  <2> QED BY <2>1, <2>6 DEF ClockInv, ts_increment_
<1>13. SentInv'
  <2>1. pos' # 0
    BY <1>1, StreamFacts
  <2>2. PICK s \in Uint16, t \in Nat, n \in NalUnits : s = sequence_ /\ t = timestamp_ /\ n = nal
    BY <1>2, <1>3 DEF Fits32
  <2>3. /\ Fits32(t) /\ packets' = Sent(n, s, t, ssrc_') /\ stream'[pos'] = n
        /\ sequence_' = (s + Len(packets')) % 65536
        /\ timestamp_' = t + Advance(n)
    BY <1>1, <1>3, <1>4, <1>6, <2>2
  <2> QED BY <2>1, <2>3 DEF SentInv, Advance, ts_increment_
<1> QED BY <1>7, <1>8, <1>9, <1>10, <1>11, <1>12, <1>13 DEF WireInv

\* The invariant, for every stream, MTU and content of the NAL units.
THEOREM WireInvariant == Spec => []WireInv
<1>1. Init => WireInv
  BY InitInv
<1>2. WireInv /\ [Next]_vars => WireInv'
  <2> SUFFICES ASSUME WireInv, [Next]_vars PROVE WireInv'
    OBVIOUS
  <2>1. CASE PrescanNal
    BY <2>1, PrescanNalInv
  <2>2. CASE PrescanEnds \/ PrescanFails
    BY <2>2, PrescanEndsInv
  <2>3. CASE Describe
    BY <2>3, DescribeInv
  <2>4. CASE OnNal
    BY <2>4, OnNalInv
  <2>5. CASE UNCHANGED vars
    <3>1. /\ UNCHANGED hubVars /\ UNCHANGED streamerVars
          /\ UNCHANGED <<stream, scanned, pos, sps_, pps_>>
          /\ pc' = pc /\ opened' = opened /\ sdp' = sdp /\ stream' = stream
      BY <2>5 DEF vars, hubVars, streamerVars
    <3>2. StreamInv' /\ ClockInv' /\ SentInv' /\ CacheInv'
      BY <3>1, StreamerKept, CacheKept
    <3>3. CountInv'
      BY <3>1 DEF WireInv, CountInv, Scannable
    <3>4. PrescanInv'
      <4>1. PrescanInv /\ Scannable' = Scannable /\ (Missing <=> Missing')
        BY <3>1 DEF WireInv, Scannable, Missing
      <4> QED BY <3>1, <4>1 DEF PrescanInv
    <3>5. SdpInv'
      BY <3>1, SdpKept
    <3> QED BY <3>2, <3>3, <3>4, <3>5 DEF WireInv
  <2> QED BY <2>1, <2>2, <2>3, <2>4, <2>5 DEF Next
<1> QED BY <1>1, <1>2, PTL DEF Spec

------------------------------------------------------------------------------
(* The properties                                                          *)

\* What SdpInv says of the answer's fields.
LEMMA AnswerFacts ==
  ASSUME WireInv, sdp # None
  PROVE  /\ PayloadType = 96 /\ PacketizationMode = 1
         /\ Sprop \in {<<>>, <<base64_encode(FirstOf(7, Len(stream))),
                               base64_encode(FirstOf(8, Len(stream)))>>}
         /\ Sprop # <<>> => FirstOf(7, Len(stream)) # <<>> /\ FirstOf(8, Len(stream)) # <<>>
         /\ opened /\ FirstOf(7, Scannable) # <<>> /\ FirstOf(8, Scannable) # <<>>
              => Sprop # <<>>
<1>1. PICK p \in {<<>>, <<base64_encode(FirstOf(7, Len(stream))),
                          base64_encode(FirstOf(8, Len(stream)))>>} :
        /\ sdp = build(96, 90000, p)
        /\ p # <<>> => FirstOf(7, Len(stream)) # <<>> /\ FirstOf(8, Len(stream)) # <<>>
        /\ opened /\ FirstOf(7, Scannable) # <<>> /\ FirstOf(8, Scannable) # <<>> => p # <<>>
  BY DEF WireInv, SdpInv
<1>2. PayloadType = 96 /\ PacketizationMode = 1 /\ Sprop = p
  <2>1. /\ build(96, 90000, p)[3].value[1] = 96
        /\ build(96, 90000, p)[4].value[2] = 1 /\ build(96, 90000, p)[4].value[3] = p
    BY DEF build
  <2> QED BY <1>1, <2>1 DEF PayloadType, PacketizationMode, Sprop
<1> QED BY <1>1, <1>2

\* What is advertised are NAL units.
LEMMA FirstOfType ==
  ASSUME WireInv, NEW n \in Nat, n <= Len(stream), NEW type
  PROVE  FirstOf(type, n) \in NalUnits \union {<<>>}
<1>1. \A i \in 1..n : stream[i] \in NalUnits
  BY StreamFacts
<1> QED BY <1>1, FirstOfFacts

LEMMA RoundTripOfFirst ==
  ASSUME WireInv, NEW type
  PROVE  LET set == FirstOf(type, Len(stream)) IN
         /\ base64_encode(set) \in Seq(Char) /\ Len(base64_encode(set)) % 4 = 0
         /\ Decoded(base64_encode(set)) = set
<1> DEFINE set == FirstOf(type, Len(stream))
<1>1. set \in NalUnits \union {<<>>}
  BY StreamFacts, FirstOfType
<1> HIDE DEF set
<1>2. set \in Seq(Byte)
  <2>1. CASE set = <<>>
    BY <2>1
  <2>2. CASE set \in NalUnits
    BY <2>2, NalFacts
  <2> QED BY <1>1, <2>1, <2>2
<1>3. /\ base64_encode(set) \in Seq(Char) /\ Len(base64_encode(set)) % 4 = 0
      /\ Decoded(base64_encode(set)) = set
  BY <1>2, Base64RoundTrip
<1> QED BY <1>3 DEF set

\* The datagrams in a state that has some.
LEMMA PacketsFacts ==
  ASSUME WireInv, packets # <<>>
  PROVE  \E s \in Uint16, t \in Nat, frs \in Seq(Seq(Byte)) :
           /\ FragmentsOf(frs, stream[pos])
           /\ SentAs(packets, frs, s, t, ssrc_)
           /\ sequence_ = (s + Len(packets)) % 65536
           /\ timestamp_ = t + Advance(stream[pos])
<1>1. PICK s \in Uint16, t \in Nat :
        /\ Fits32(t) /\ packets = Sent(stream[pos], s, t, ssrc_)
        /\ sequence_ = (s + Len(packets)) % 65536
        /\ timestamp_ = t + Advance(stream[pos])
  BY DEF WireInv, SentInv
<1>2. stream[pos] \in NalUnits /\ Fits32(ssrc_)
  <2>1. pos # 0
    BY DEF WireInv, SentInv
  <2>2. pos \in 1..Len(stream)
    BY <2>1, StreamFacts
  <2> QED BY <2>2, StreamFacts, ClockFits
<1> DEFINE nal == stream[pos]
           frs == fragment_nal(nal)
           ps == Sent(nal, s, t, ssrc_)
<1>3. FragmentsOf(frs, nal) /\ SentAs(ps, frs, s, t, ssrc_)
  BY <1>1, <1>2, SentFacts
<1>4. packets = ps
  BY <1>1
<1> HIDE DEF frs, ps
<1>5. frs \in Seq(Seq(Byte)) /\ SentAs(packets, frs, s, t, ssrc_)
  BY <1>3, <1>4 DEF FragmentsOf
<1> QED BY <1>1, <1>3, <1>5

LEMMA InvTypes ==
  ASSUME WireInv
  PROVE  TypeOK
<1>1. /\ pc \in {"prescan", "serve"} /\ sequence_ \in Uint16
      /\ scanned \in 0..Len(stream) /\ pos \in 0..Len(stream)
  BY StreamFacts DEF WireInv, CountInv, ClockInv
<1>2. {sps_, pps_} \subseteq NalUnits \union {<<>>}
  BY StreamFacts, FirstOfType DEF WireInv, CacheInv
<1>3. \A p \in Range(packets) : Len(p) \in 13..(12 + Mtu) /\ Range(p) \subseteq Byte
  <2>1. CASE packets = <<>>
    BY <2>1 DEF Range
  <2>2. CASE packets # <<>>
    <3>1. PICK s \in Uint16, t \in Nat, frs \in Seq(Seq(Byte)) :
            FragmentsOf(frs, stream[pos]) /\ SentAs(packets, frs, s, t, ssrc_)
      BY <2>2, PacketsFacts
    <3>2. SUFFICES ASSUME NEW k \in DOMAIN packets
                   PROVE  Len(packets[k]) \in 13..(12 + Mtu) /\ Range(packets[k]) \subseteq Byte
      BY DEF Range
    <3>3. k \in 1..Len(frs)
      BY <3>1 DEF SentAs
    <3>4. Len(frs[k]) \in 1..Mtu
      BY <3>1, <3>3 DEF FragmentsOf
    <3> DEFINE p == packets[k]
               x == (s + k - 1) % 65536
               f == frs[k]
               n == Len(frs)
    <3>5. Carries(p, x, t, ssrc_, k, n, f)
      BY <3>1, <3>3 DEF SentAs
    <3> HIDE DEF p, x, f, n
    <3>6. p \in Seq(Byte) /\ Len(p) = 12 + Len(f)
      BY <3>5 DEF Carries
    <3>7. Mtu \in Nat
      BY WireAssumption
    <3>8. Range(p) \subseteq Byte
      BY <3>6 DEF Range
    <3>9. Len(p) \in 13..(12 + Mtu)
      BY <3>4, <3>6, <3>7 DEF f
    <3> QED BY <3>8, <3>9 DEF p
  <2> QED BY <2>1, <2>2
<1>4. sdp # None => \A s \in Range(Sprop) : Len(s) % 4 = 0 /\ Range(s) \subseteq 0..64
  <2> SUFFICES ASSUME sdp # None, NEW i \in DOMAIN Sprop
               PROVE  Len(Sprop[i]) % 4 = 0 /\ Range(Sprop[i]) \subseteq Char
    BY DEF Range, Char
  <2> DEFINE b7 == base64_encode(FirstOf(7, Len(stream)))
             b8 == base64_encode(FirstOf(8, Len(stream)))
             sp == Sprop
  <2>1. sp \in {<<>>, <<b7, b8>>}
    BY AnswerFacts
  <2>2. /\ b7 \in Seq(Char) /\ Len(b7) % 4 = 0
        /\ b8 \in Seq(Char) /\ Len(b8) % 4 = 0
    BY RoundTripOfFirst
  <2> HIDE DEF b7, b8, sp
  <2>3. i \in DOMAIN sp
    BY DEF sp
  <2>4. sp[i] = b7 \/ sp[i] = b8
    BY <2>1, <2>3
  <2>5. sp[i] \in Seq(Char) /\ Len(sp[i]) % 4 = 0
    BY <2>2, <2>4
  <2>6. Range(sp[i]) \subseteq Char
    BY <2>5 DEF Range
  <2> QED BY <2>5, <2>6 DEF sp
<1> QED BY <1>1, <1>2, <1>3, <1>4 DEF TypeOK

\* Everything that is sent is bytes and characters, and no datagram is longer
\* than a header and Mtu bytes.
THEOREM TypeCorrect == Spec => []TypeOK
BY WireInvariant, InvTypes, PTL

\* An SDP that has parameter sets has the first SPS and the first PPS of the
\* whole stream, whether prescan or on_nal came across them, and a client that
\* decodes the base64 gets them byte for byte.
THEOREM SpropExact == Spec => []SpropIsFirstSets
<1>1. WireInv => SpropIsFirstSets
  <2> SUFFICES ASSUME WireInv, sdp # None, Sprop # <<>>
               PROVE  /\ Decoded(Sprop[1]) = FirstOf(7, Len(stream))
                      /\ Decoded(Sprop[2]) = FirstOf(8, Len(stream))
    BY DEF SpropIsFirstSets
  <2> DEFINE b7 == base64_encode(FirstOf(7, Len(stream)))
             b8 == base64_encode(FirstOf(8, Len(stream)))
             sp == Sprop
  <2>1. Decoded(b7) = FirstOf(7, Len(stream)) /\ Decoded(b8) = FirstOf(8, Len(stream))
    BY RoundTripOfFirst
  <2>2. sp = <<b7, b8>>
    BY AnswerFacts
  <2> HIDE DEF b7, b8, sp
  <2>3. sp[1] = b7 /\ sp[2] = b8
    BY <2>2
  <2>4. Decoded(sp[1]) = FirstOf(7, Len(stream)) /\ Decoded(sp[2]) = FirstOf(8, Len(stream))
    BY <2>1, <2>3
  <2> QED BY <2>4 DEF sp
<1> QED BY <1>1, WireInvariant, PTL

\* hub.hpp's promise of the prescan: of a file whose first kMaxNals NAL units
\* hold an SPS and a PPS already the first DESCRIBE advertises both.
THEOREM FirstDescribeHasSprop == Spec => []SpropFromFirstDescribe
<1>1. WireInv => SpropFromFirstDescribe
  BY AnswerFacts DEF SpropFromFirstDescribe, Scannable
<1> QED BY <1>1, WireInvariant, PTL

\* What on_nal sends is what a receiver after RFC 3550 and RFC 6184 puts together
\* again: the NAL unit byte for byte, from packets of one timestamp with
\* consecutive sequence numbers, modulo 2^16, in the announced mode.
THEOREM ReceiverRebuilds == Spec => []ReceiverRebuildsNal
<1>1. WireInv => ReceiverRebuildsNal
  <2> SUFFICES ASSUME WireInv, packets # <<>>
               PROVE  ReceiverRebuildsNal
    BY DEF ReceiverRebuildsNal
  <2> DEFINE got == [k \in DOMAIN packets |-> ReadPacket(packets[k])]
             nal == stream[pos]
             payloads == [k \in DOMAIN got |-> got[k].payload]
  <2>0. SUFFICES /\ Rebuilt(payloads) = nal
                 /\ sdp # None /\ Len(got) > 1 => PacketizationMode = 1
                 /\ \A k \in DOMAIN got :
                      /\ got[k].version = 2 /\ got[k].flags = 0
                      /\ got[k].ssrc = ssrc_
                      /\ sdp # None => got[k].payload_type = PayloadType
                      /\ got[k].timestamp
                           = timestamp_ - (IF nal_type_of(nal) \in {1, 5} THEN ts_increment_ ELSE 0)
                      /\ (got[k].sequence + Len(got) - k + 1) % 65536 = sequence_
    BY DEF ReceiverRebuildsNal
  <2>1. PICK s \in Uint16, t \in Nat, frs \in Seq(Seq(Byte)) :
          /\ FragmentsOf(frs, nal)
          /\ SentAs(packets, frs, s, t, ssrc_)
          /\ sequence_ = (s + Len(packets)) % 65536
          /\ timestamp_ = t + Advance(nal)
    BY PacketsFacts
  <2> DEFINE n == Len(frs)
  <2>2. /\ n \in Nat /\ DOMAIN frs = 1..n /\ DOMAIN packets = 1..n /\ Len(packets) = n
        /\ DOMAIN got = 1..n /\ \A k \in 1..n : got[k] = ReadPacket(packets[k])
    BY <2>1 DEF SentAs
  <2>3. Len(got) = n
    BY <2>2
  <2>4. ASSUME NEW k \in 1..n
        PROVE  /\ got[k].version = 2 /\ got[k].flags = 0 /\ got[k].payload_type = 96
               /\ got[k].sequence = (s + k - 1) % 65536
               /\ got[k].timestamp = t /\ got[k].ssrc = ssrc_
               /\ got[k].payload = frs[k]
    <3> DEFINE p == packets[k]
               x == (s + k - 1) % 65536
               f == frs[k]
    <3>1. Carries(p, x, t, ssrc_, k, n, f)
      BY <2>1 DEF SentAs
    <3>2. got[k] = ReadPacket(p)
      BY <2>2
    <3> HIDE DEF p, x, f, n, got
    <3> QED BY <3>1, <3>2 DEF Carries, x, f
  <2>5. payloads = frs
    <3>1. frs = [k \in 1..n |-> frs[k]]
      BY <2>2
    <3> HIDE DEF got, n
    <3>2. payloads = [k \in 1..n |-> frs[k]]
      BY <2>2, <2>4
    <3> HIDE DEF payloads
    <3> QED BY ONLY <3>1, <3>2
  <2>6. Rebuilt(payloads) = nal
    <3>1. Rebuilt(frs) = nal
      BY <2>1 DEF FragmentsOf
    <3> HIDE DEF payloads, nal
    <3> QED BY ONLY <2>5, <3>1
  <2>7. ASSUME NEW k \in 1..n
        PROVE  (got[k].sequence + n - k + 1) % 65536 = sequence_
    <3>1. s \in Nat
      BY Uint16Is
    <3>2. (((s + k - 1) % 65536) + n - k + 1) % 65536 = (s + n) % 65536
      BY <2>2, <3>1, SequenceSum
    <3> HIDE DEF got, n
    <3>3. got[k].sequence = (s + k - 1) % 65536
      BY <2>4
    <3>4. sequence_ = (s + n) % 65536
      BY <2>1, <2>2
    <3> QED BY ONLY <3>2, <3>3, <3>4
  <2>8. t = timestamp_ - (IF nal_type_of(nal) \in {1, 5} THEN ts_increment_ ELSE 0)
    <3>1. Advance(nal) \in Nat
      BY IncrementFacts DEF Advance
    <3> DEFINE a == Advance(nal)
    <3>2. a = IF nal_type_of(nal) \in {1, 5} THEN ts_increment_ ELSE 0
      BY DEF Advance
    <3> HIDE DEF a, nal
    <3>3. t = timestamp_ - a
      BY <2>1, <3>1 DEF a
    <3> QED BY <3>2, <3>3
  <2>9. sdp # None => PayloadType = 96 /\ PacketizationMode = 1
    BY AnswerFacts
  <2> HIDE DEF got, nal, n
  <2>10. \A k \in DOMAIN got :
           /\ got[k].version = 2 /\ got[k].flags = 0
           /\ got[k].ssrc = ssrc_
           /\ sdp # None => got[k].payload_type = PayloadType
           /\ got[k].timestamp
                = timestamp_ - (IF nal_type_of(nal) \in {1, 5} THEN ts_increment_ ELSE 0)
           /\ (got[k].sequence + Len(got) - k + 1) % 65536 = sequence_
    <3> SUFFICES ASSUME NEW k \in DOMAIN got
                 PROVE  /\ got[k].version = 2 /\ got[k].flags = 0
                        /\ got[k].ssrc = ssrc_
                        /\ sdp # None => got[k].payload_type = PayloadType
                        /\ got[k].timestamp
                             = timestamp_ - (IF nal_type_of(nal) \in {1, 5} THEN ts_increment_ ELSE 0)
                        /\ (got[k].sequence + Len(got) - k + 1) % 65536 = sequence_
      OBVIOUS
    <3>1. k \in 1..n
      BY <2>2
    <3>2. (got[k].sequence + Len(got) - k + 1) % 65536 = sequence_
      BY <2>3, <2>7, <3>1
    <3> QED BY <2>3, <2>4, <2>8, <2>9, <3>1, <3>2
  <2> QED BY ONLY <2>6, <2>9, <2>10
<1> QED BY <1>1, WireInvariant, PTL
==============================================================================
