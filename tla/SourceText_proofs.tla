--------------------------- MODULE SourceText_proofs ---------------------------
(***************************************************************************)
(* Proofs about SourceText and SemanticTokens, for texts of any length     *)
(* over any characters: the server has the editor's text, positions mean   *)
(* the same to both, the tree is told of the edit that happens, and every  *)
(* character gets the one colour meant for it.                             *)
(***************************************************************************)
EXTENDS SemanticTokens, Numbers_proofs, SequenceTheorems, FiniteSetTheorems, TLAPS

-----------------------------------------------------------------------------
(* Sums over a text: bytes, code units and line ends are weights of its     *)
(* characters.                                                              *)

Weight(w, t) == FoldLeft(LAMBDA n, c : n + w[c], 0, t)
Upto(w, t, i) == Weight(w, Before(t, i))

LEMMA MaxOfUpTo == \A n \in Nat \ {0} : Max(1..n) = n
<1>. SUFFICES ASSUME NEW n \in Nat \ {0} PROVE Max(1..n) = n
  OBVIOUS
<1>1. 1..n \subseteq 0..n /\ 1..n # {} /\ n \in 1..n
  OBVIOUS
<1>2. Max(1..n) \in 1..n /\ \A k \in 1..n : k <= Max(1..n)
  BY <1>1, MaxIsGreatest
<1>. QED BY <1>1, <1>2

\* The fold over a text is what its steps give, from the first character on.
LEMMA WeightUnfolds ==
  ASSUME NEW w \in [Chars -> Nat], NEW t \in Seq(Chars)
  PROVE  \E r : /\ r[0] = 0 /\ Weight(w, t) = r[Len(t)]
                /\ \A i \in 1..Len(t) : r[i] = r[i - 1] + w[t[i]]
<1>0. PICK n \in Nat : Len(t) = n /\ DOMAIN t = 1..n
  BY LenProperties
<1>. DEFINE step(f, s) == IF s = {} THEN 0
                          ELSE f[s \ {Max(s)}] + w[t[Max(s)]]
            upTo(k, f) == f = [s \in SUBSET (1..k) |-> step(f, s)]
            P == {k \in 0..n : \E f : upTo(k, f)}
<1>1. n \in P
  <2>1. 0 \in P
    <3>. DEFINE f == [s \in SUBSET (1..0) |-> 0]
    <3>1. \A s \in SUBSET (1..0) : s = {}
      OBVIOUS
    <3>2. f = [s \in SUBSET (1..0) |-> step(f, s)]
      BY <3>1
    <3>3. 0 \in 0..n /\ upTo(0, f)
      BY <3>2
    <3>. HIDE DEF upTo, f
    <3>. QED BY <3>3
  <2>2. ASSUME NEW m \in 1..n, m \notin P, m - 1 \in P
        PROVE  FALSE
    <3>1. PICK f : upTo(m - 1, f)
      BY <2>2
    <3>2. \A s \in SUBSET (1..(m - 1)) : f[s] = step(f, s)
      BY <3>1
    <3>. DEFINE g == [s \in SUBSET (1..m) |->
                        IF m \in s THEN step(f, s) ELSE f[s]]
    <3>3. ASSUME NEW s \in SUBSET (1..m) PROVE g[s] = step(g, s)
      <4>1. CASE s = {}
        <5>1. s \in SUBSET (1..(m - 1)) /\ m \notin s
          BY <4>1
        <5>. QED BY <3>2, <4>1, <5>1
      <4>2. CASE s # {}
        <5>1. Max(s) \in s /\ \A k \in s : k <= Max(s)
          <6>1. s \subseteq 0..m /\ m \in Nat
            OBVIOUS
          <6>. QED BY <4>2, <6>1, MaxIsGreatest
        <5>2. s \ {Max(s)} \in SUBSET (1..m) /\ m \notin s \ {Max(s)}
          <6>1. Max(s) \in 1..m /\ m \in Nat
            <7>1. s \subseteq 1..m /\ Max(s) \in s
              BY <5>1, Zenon
            <7>2. m \in Nat
              OBVIOUS
            <7>. QED BY <7>1, <7>2, Zenon
          <6>2. m \in s => Max(s) = m
            BY <5>1, <6>1
          <6>. QED BY <6>2
        <5>3. g[s \ {Max(s)}] = f[s \ {Max(s)}]
          BY <5>2
        <5>4. g[s] = step(f, s)
          <6>1. CASE m \in s
            BY <6>1
          <6>2. CASE m \notin s
            <7>1. s \in SUBSET (1..(m - 1))
              BY <6>2
            <7>. QED BY <3>2, <6>2, <7>1
          <6>. QED BY <6>1, <6>2
        <5>. QED BY <4>2, <5>3, <5>4
      <4>. QED BY <4>1, <4>2
    <3>. HIDE DEF step
    <3>4. g = [s \in SUBSET (1..m) |-> step(g, s)]
      BY <3>3
    <3>. HIDE DEF g
    <3>5. upTo(m, g) /\ m \in 0..n
      BY <3>4, <2>2
    <3>. QED BY <2>2, <3>5
  <2>. HIDE DEF P
  <2>. QED BY <2>1, <2>2, FirstFailure
<1>. DEFINE iter == CHOOSE f : upTo(n, f)
<1>2. upTo(n, iter)
  <2>1. \E f : upTo(n, f)
    BY <1>1
  <2>. HIDE DEF upTo
  <2>. QED BY <2>1
<1>3. Weight(w, t) = iter[1..n]
  BY <1>0 DEF Weight, FoldLeft, MapThenFoldSet
<1>. HIDE DEF iter
<1>4. \A s \in SUBSET (1..n) : iter[s] = step(iter, s)
  BY <1>2
<1>. DEFINE r == [i \in 0..n |-> iter[1..i]]
<1>5. r[0] = 0
  <2>1. 1..0 = {} /\ 1..0 \in SUBSET (1..n) /\ 0 \in 0..n
    OBVIOUS
  <2>2. iter[1..0] = 0
    BY <1>4, <2>1
  <2>. QED BY <2>1, <2>2
<1>6. ASSUME NEW i \in 1..n
      PROVE  r[i] = r[i - 1] + w[t[i]]
  <2>1. /\ 1..i \in SUBSET (1..n) /\ 1..i # {} /\ i \in 0..n /\ i - 1 \in 0..n
        /\ (1..i) \ {i} = 1..(i - 1)
    <3>1. /\ 1..i \in SUBSET (1..n) /\ i \in 1..i /\ i \in 0..n /\ i - 1 \in 0..n
      OBVIOUS
    <3>2. \A k : k \in (1..i) \ {i} <=> k \in 1..(i - 1)
      OBVIOUS
    <3>. QED BY <3>1, <3>2
  <2>2. Max(1..i) = i
    BY MaxOfUpTo
  <2>3. iter[1..i] = step(iter, 1..i)
    BY <1>4, <2>1
  <2>4. iter[1..i] = iter[1..(i - 1)] + w[t[i]]
    BY <2>1, <2>2, <2>3
  <2>. QED BY <2>1, <2>4
<1>7. Weight(w, t) = r[n]
  BY <1>3
<1>. HIDE DEF r
<1>. QED BY <1>0, <1>5, <1>6, <1>7
-----------------------------------------------------------------------------
(* Parts of a text. *)

LEMMA TextIsASeq ==
  \A t \in Seq(Chars) :
    /\ Len(t) \in Nat /\ DOMAIN t = 1..Len(t)
    /\ \A i \in 1..Len(t) : t[i] \in Chars
<1>. QED BY LenProperties

LEMMA Parts ==
  ASSUME NEW t \in Seq(Chars), NEW i \in 0..Len(t), NEW j \in i..Len(t)
  PROVE  /\ Between(t, i, j) \in Seq(Chars) /\ Len(Between(t, i, j)) = j - i
         /\ DOMAIN Between(t, i, j) = 1..(j - i)
         /\ \A k \in 1..(j - i) : Between(t, i, j)[k] = t[i + k]
<1>1. Len(t) \in Nat /\ i + 1 \in Int /\ j \in Int
  BY TextIsASeq
<1>2. \A k \in (i + 1)..j : t[k] \in Chars
  BY <1>1, TextIsASeq
<1>. DEFINE part == SubSeq(t, i + 1, j)
<1>3. /\ part \in Seq(Chars)
      /\ Len(part) = IF i + 1 <= j THEN j - (i + 1) + 1 ELSE 0
      /\ \A k \in 1..(j - (i + 1) + 1) : part[k] = t[i + 1 + k - 1]
  BY ONLY <1>1, <1>2, SubSeqProperties
<1>4. Len(part) = j - i
  BY <1>1, <1>3
<1>5. ASSUME NEW k \in 1..(j - i) PROVE part[k] = t[i + k]
  <2>1. k \in 1..(j - (i + 1) + 1) /\ i + 1 + k - 1 = i + k
    BY <1>1
  <2>2. part[k] = t[i + 1 + k - 1]
    BY <1>3, <2>1
  <2>. QED BY <2>1, <2>2
<1>6. DOMAIN part = 1..(j - i)
  BY <1>3, <1>4, LenProperties
<1>. QED BY <1>3, <1>4, <1>5, <1>6 DEF Between

LEMMA Beginnings ==
  ASSUME NEW t \in Seq(Chars), NEW i \in 0..Len(t)
  PROVE  /\ Before(t, i) = Between(t, 0, i)
         /\ Before(t, i) \in Seq(Chars) /\ Len(Before(t, i)) = i
         /\ DOMAIN Before(t, i) = 1..i
         /\ \A k \in 1..i : Before(t, i)[k] = t[k]
<1>1. 0 \in 0..Len(t) /\ i \in 0..Len(t) /\ i - 0 = i
  BY TextIsASeq
<1>2. Before(t, i) = Between(t, 0, i)
  BY DEF Before, Between
<1>3. /\ Between(t, 0, i) \in Seq(Chars) /\ Len(Between(t, 0, i)) = i - 0
      /\ DOMAIN Between(t, 0, i) = 1..(i - 0)
      /\ \A k \in 1..(i - 0) : Between(t, 0, i)[k] = t[0 + k]
  BY <1>1, Parts
<1>4. i - 0 = i /\ \A k \in 1..i : 0 + k = k
  BY <1>1
<1>. QED BY <1>2, <1>3, <1>4

-----------------------------------------------------------------------------
(* A weight up to a place grows by the character that follows. *)

LEMMA PrefixWeights ==
  ASSUME NEW w \in [Chars -> Nat], NEW t \in Seq(Chars)
  PROVE  /\ Upto(w, t, 0) = 0
         /\ \A i \in 1..Len(t) : Upto(w, t, i) = Upto(w, t, i - 1) + w[t[i]]
         /\ \A i \in 0..Len(t) : Upto(w, t, i) \in Nat
         /\ Weight(w, t) = Upto(w, t, Len(t))
<1>1. Len(t) \in Nat /\ DOMAIN t = 1..Len(t) /\ \A i \in 1..Len(t) : t[i] \in Chars
  BY TextIsASeq
<1>2. PICK r : /\ r[0] = 0 /\ Weight(w, t) = r[Len(t)]
               /\ \A i \in 1..Len(t) : r[i] = r[i - 1] + w[t[i]]
  BY <1>1, WeightUnfolds
<1>3. ASSUME NEW i \in 0..Len(t)
      PROVE  Upto(w, t, i) = r[i]
  <2>0. PICK u : u = Before(t, i)
    OBVIOUS
  <2>1. i \in Nat /\ DOMAIN u = 1..i /\ \A k \in 1..i : u[k] = t[k]
    <3>1. /\ DOMAIN Before(t, i) = 1..i
          /\ \A k \in 1..i : Before(t, i)[k] = t[k]
      BY Beginnings
    <3>. QED BY <1>1, <2>0, <3>1
  <2>2. PICK q : /\ q[0] = 0 /\ Weight(w, u) = q[i]
                 /\ \A k \in 1..i : q[k] = q[k - 1] + w[u[k]]
    <3>1. u \in Seq(Chars) /\ Len(u) = i
      BY <2>0, Beginnings
    <3>2. \E q : /\ q[0] = 0 /\ Weight(w, u) = q[Len(u)]
                 /\ \A k \in 1..Len(u) : q[k] = q[k - 1] + w[u[k]]
      BY ONLY <3>1, w \in [Chars -> Nat], WeightUnfolds
    <3>. QED BY <3>1, <3>2
  <2>. DEFINE P == {k \in 0..i : q[k] = r[k]}
  <2>3. i \in P
    <3>1. 0 \in P
      BY <1>2, <2>1, <2>2
    <3>2. ASSUME NEW m \in 1..i, m \notin P, m - 1 \in P
          PROVE  FALSE
      <4>1. q[m] = q[m - 1] + w[u[m]] /\ u[m] = t[m]
        BY <2>1, <2>2
      <4>2. r[m] = r[m - 1] + w[t[m]] /\ m \in 0..i
        BY <1>1, <1>2
      <4>. QED BY <3>2, <4>1, <4>2
    <3>. HIDE DEF P
    <3>. QED BY <2>1, <3>1, <3>2, FirstFailure
  <2>. QED BY <2>0, <2>2, <2>3 DEF Upto
<1>4. \A i \in 0..Len(t) : r[i] \in Nat
  <2>. SUFFICES ASSUME NEW i \in 0..Len(t), r[i] \notin Nat PROVE FALSE
    OBVIOUS
  <2>. DEFINE P == {k \in 0..i : r[k] \in Nat}
  <2>1. i \in Nat /\ 0 \in P /\ i \notin P
    BY <1>1, <1>2
  <2>2. PICK m \in 1..i : m \notin P /\ m - 1 \in P
    <3>. HIDE DEF P
    <3>. QED BY <2>1, FirstFailure
  <2>3. m \in 1..Len(t) /\ m \in 0..i
    BY <1>1
  <2>4. w[t[m]] \in Nat /\ r[m - 1] \in Nat /\ r[m] = r[m - 1] + w[t[m]]
    BY <1>1, <1>2, <2>2, <2>3
  <2>. QED BY <2>2, <2>3, <2>4
<1>5. 0 \in 0..Len(t) /\ Len(t) \in 0..Len(t) /\ \A i \in 1..Len(t) : i \in 0..Len(t) /\ i - 1 \in 0..Len(t)
  BY <1>1
<1>6. Upto(w, t, 0) = 0
  BY <1>2, <1>3, <1>5
<1>7. Weight(w, t) = Upto(w, t, Len(t))
  BY <1>2, <1>3, <1>5
<1>8. \A i \in 1..Len(t) : Upto(w, t, i) = Upto(w, t, i - 1) + w[t[i]]
  <2>. TAKE i \in 1..Len(t)
  <2>1. Upto(w, t, i) = r[i] /\ Upto(w, t, i - 1) = r[i - 1]
    BY <1>3, <1>5
  <2>. QED BY <1>2, <2>1
<1>. QED BY <1>3, <1>4, <1>6, <1>7, <1>8

LEMMA WeightsRise ==
  ASSUME NEW w \in [Chars -> Nat], NEW t \in Seq(Chars),
         NEW i \in 0..Len(t), NEW j \in i..Len(t)
  PROVE  Upto(w, t, i) <= Upto(w, t, j)
<1>. DEFINE P == {k \in 0..(j - i) : Upto(w, t, i) <= Upto(w, t, i + k)}
<1>1. Len(t) \in Nat /\ j - i \in Nat /\ i + (j - i) = j /\ i + 0 = i
  BY TextIsASeq
<1>2. \A k \in 0..Len(t) : Upto(w, t, k) \in Nat
  BY PrefixWeights
<1>3. j - i \in P
  <2>1. 0 \in P
    BY <1>1, <1>2
  <2>2. ASSUME NEW m \in 1..(j - i), m \notin P, m - 1 \in P
        PROVE  FALSE
    <3>1. i + m \in 1..Len(t) /\ i + m - 1 = i + (m - 1) /\ m \in 0..(j - i)
      BY <1>1
    <3>2. Upto(w, t, i + m) = Upto(w, t, i + m - 1) + w[t[i + m]]
      BY <3>1, PrefixWeights
    <3>3. w[t[i + m]] \in Nat
      BY <3>1, TextIsASeq
    <3>4. Upto(w, t, i) \in Nat /\ Upto(w, t, i + m - 1) \in Nat
      <4>1. i \in 0..Len(t) /\ i + m - 1 \in 0..Len(t)
        BY <1>1, <3>1
      <4>. QED BY <1>2, <4>1
    <3>5. Upto(w, t, i) <= Upto(w, t, i + (m - 1))
      BY <2>2
    <3>6. ~(Upto(w, t, i) <= Upto(w, t, i + m))
      BY <2>2, <3>1
    <3>. HIDE DEF P
    <3>. QED BY <3>1, <3>2, <3>3, <3>4, <3>5, <3>6
  <2>. HIDE DEF P
  <2>. QED BY <1>1, <2>1, <2>2, FirstFailure
<1>. QED BY <1>1, <1>3

LEMMA WeightsIncrease ==
  ASSUME NEW w \in [Chars -> Nat \ {0}], NEW t \in Seq(Chars),
         NEW i \in 0..Len(t), NEW j \in 0..Len(t)
  PROVE  Upto(w, t, i) < Upto(w, t, j) <=> i < j
<1>1. Len(t) \in Nat /\ w \in [Chars -> Nat]
  BY TextIsASeq
<1>2. \A k \in 0..Len(t) : Upto(w, t, k) \in Nat
  BY <1>1, PrefixWeights
<1>3. ASSUME NEW k \in 0..Len(t), NEW l \in 0..Len(t), k < l
      PROVE  Upto(w, t, k) < Upto(w, t, l)
  <2>1. l \in 1..Len(t) /\ l - 1 \in k..Len(t) /\ l - 1 \in 0..Len(t)
    BY <1>1, <1>3
  <2>2. Upto(w, t, l) = Upto(w, t, l - 1) + w[t[l]]
    BY <1>1, <2>1, PrefixWeights
  <2>3. w[t[l]] \in Nat \ {0}
    BY <2>1, TextIsASeq
  <2>4. Upto(w, t, k) <= Upto(w, t, l - 1)
    BY <1>1, <2>1, WeightsRise
  <2>5. Upto(w, t, k) \in Nat /\ Upto(w, t, l - 1) \in Nat
    BY <1>2, <2>1
  <2>. QED BY <2>2, <2>3, <2>4, <2>5
<1>4. i < j \/ i = j \/ j < i
  BY <1>1
<1>. QED BY <1>2, <1>3, <1>4

LEMMA WeightsShift ==
  ASSUME NEW w \in [Chars -> Nat], NEW t \in Seq(Chars), NEW u \in Seq(Chars),
         NEW n \in 0..Len(t), NEW m \in 0..Len(u), n + m <= Len(t),
         \A k \in 1..m : t[n + k] = u[k]
  PROVE  Upto(w, t, n + m) = Upto(w, t, n) + Upto(w, u, m)
<1>. DEFINE P == {k \in 0..m : Upto(w, t, n + k) = Upto(w, t, n) + Upto(w, u, k)}
<1>1. Len(t) \in Nat /\ Len(u) \in Nat /\ m \in Nat /\ n + 0 = n
  BY TextIsASeq
<1>2. /\ \A k \in 0..Len(t) : Upto(w, t, k) \in Nat
      /\ \A k \in 0..Len(u) : Upto(w, u, k) \in Nat
      /\ Upto(w, u, 0) = 0
  BY PrefixWeights
<1>3. m \in P
  <2>1. 0 \in P
    BY <1>1, <1>2
  <2>2. ASSUME NEW l \in 1..m, l \notin P, l - 1 \in P
        PROVE  FALSE
    <3>0. PICK p \in 1..Len(t) : p = n + l /\ p - 1 = n + (l - 1)
      <4>1. n \in Nat /\ l \in Nat \ {0} /\ l <= m
        BY <1>1
      <4>2. n + l \in 1..Len(t) /\ n + l - 1 = n + (l - 1)
        BY ONLY <1>1, <4>1, n + m <= Len(t)
      <4>. QED BY ONLY <4>2
    <3>1. l \in 0..m /\ l \in 1..Len(u) /\ l - 1 \in 0..Len(u)
      BY <1>1
    <3>2. Upto(w, t, p) = Upto(w, t, p - 1) + w[t[p]] /\ t[p] = u[l]
      BY <3>0, PrefixWeights
    <3>3. Upto(w, u, l) = Upto(w, u, l - 1) + w[u[l]]
      BY <3>1, PrefixWeights
    <3>4. w[u[l]] \in Nat
      BY <3>1, TextIsASeq
    <3>5. Upto(w, t, p - 1) = Upto(w, t, n) + Upto(w, u, l - 1)
      BY <2>2, <3>0
    <3>6. Upto(w, t, n) \in Nat /\ Upto(w, u, l - 1) \in Nat
      BY <1>2, <3>1
    <3>. HIDE DEF P
    <3>7. Upto(w, t, p) = Upto(w, t, n) + Upto(w, u, l)
      <4>1. PICK x \in Nat, y \in Nat, z \in Nat :
              x = w[u[l]] /\ y = Upto(w, u, l - 1) /\ z = Upto(w, t, n)
        BY ONLY <3>4, <3>6
      <4>2. Upto(w, t, p) = (z + y) + x
        BY ONLY <3>2, <3>5, <4>1
      <4>3. Upto(w, u, l) = y + x
        BY ONLY <3>3, <4>1
      <4>4. (z + y) + x = z + (y + x)
        OBVIOUS
      <4>. QED BY ONLY <4>1, <4>2, <4>3, <4>4
    <3>. QED BY <2>2, <3>0, <3>1, <3>7 DEF P
  <2>. HIDE DEF P
  <2>. QED BY <1>1, <2>1, <2>2, FirstFailure
<1>. QED BY <1>3

\* The weight of a part.
LEMMA PartWeights ==
  ASSUME NEW w \in [Chars -> Nat], NEW t \in Seq(Chars),
         NEW i \in 0..Len(t), NEW j \in i..Len(t)
  PROVE  /\ Upto(w, t, j) = Upto(w, t, i) + Weight(w, Between(t, i, j))
         /\ \A k \in 0..(j - i) :
              Upto(w, t, i + k) = Upto(w, t, i) + Upto(w, Between(t, i, j), k)
<1>. DEFINE u == Between(t, i, j)
<1>1. /\ u \in Seq(Chars) /\ Len(u) = j - i
      /\ \A k \in 1..(j - i) : u[k] = t[i + k]
  BY Parts
<1>. HIDE DEF u
<1>2. Len(t) \in Nat /\ j - i \in Nat /\ i + (j - i) = j
  BY TextIsASeq
<1>3. ASSUME NEW k \in 0..(j - i)
      PROVE  Upto(w, t, i + k) = Upto(w, t, i) + Upto(w, u, k)
  <2>1. k \in 0..Len(u) /\ i + k <= Len(t)
    BY <1>1, <1>2
  <2>2. \A l \in 1..k : l \in 1..(j - i)
    BY <1>2
  <2>3. \A l \in 1..k : t[i + l] = u[l]
    BY <1>1, <2>2
  <2>. QED BY <1>1, <2>1, <2>3, WeightsShift
<1>4. Weight(w, u) = Upto(w, u, j - i)
  BY <1>1, PrefixWeights
<1>5. j - i \in 0..(j - i)
  BY <1>2
<1>6. Upto(w, t, j) = Upto(w, t, i) + Weight(w, u)
  BY <1>2, <1>3, <1>4, <1>5
<1>. QED BY <1>3, <1>6 DEF u

-----------------------------------------------------------------------------
(* Line ends are a weight too. *)

LineEnds == [c \in Chars |-> IF c = LF THEN 1 ELSE 0]

LEMMA BreakSteps ==
  ASSUME NEW t \in Seq(Chars)
  PROVE  /\ Breaks(t, 0) = 0
         /\ \A i \in 1..Len(t) :
              Breaks(t, i) = Breaks(t, i - 1) + (IF t[i] = LF THEN 1 ELSE 0)
<1>1. Breaks(t, 0) = 0
  <2>1. {j \in 1..0 : t[j] = LF} = {}
    OBVIOUS
  <2>. QED BY <2>1, FS_EmptySet DEF Breaks
<1>2. ASSUME NEW i \in 1..Len(t)
      PROVE  Breaks(t, i) = Breaks(t, i - 1) + (IF t[i] = LF THEN 1 ELSE 0)
  <2>. DEFINE ends == {j \in 1..(i - 1) : t[j] = LF}
  <2>1. IsFiniteSet(ends)
    <3>1. ends \in SUBSET (1..(i - 1))
      OBVIOUS
    <3>2. IsFiniteSet(1..(i - 1))
      <4>1. 1 \in Int /\ i - 1 \in Int
        BY TextIsASeq
      <4>. QED BY ONLY <4>1, FS_Interval
    <3>. HIDE DEF ends
    <3>. QED BY ONLY <3>1, <3>2, FS_Subset
  <2>2. CASE t[i] = LF
    <3>1. {j \in 1..i : t[j] = LF} = ends \cup {i} /\ i \notin ends
      BY <2>2, TextIsASeq
    <3>. HIDE DEF ends
    <3>2. Cardinality(ends \cup {i}) = Cardinality(ends) + 1
      BY <2>1, <3>1, FS_AddElement
    <3>. QED BY <2>2, <3>1, <3>2 DEF Breaks, ends
  <2>3. CASE t[i] # LF
    <3>1. {j \in 1..i : t[j] = LF} = ends
      BY <2>3, TextIsASeq
    <3>2. Breaks(t, i) = Cardinality(ends) /\ Breaks(t, i - 1) = Cardinality(ends)
      BY <3>1 DEF Breaks
    <3>. HIDE DEF ends
    <3>3. Cardinality(ends) \in Nat
      BY <2>1, FS_CardinalityType
    <3>. QED BY <2>3, <3>2, <3>3
  <2>. QED BY <2>2, <2>3
<1>. QED BY <1>1, <1>2

LEMMA LineEndsAreWeights == LineEnds \in [Chars -> Nat]
BY DEF LineEnds

LEMMA BreaksAreWeights ==
  ASSUME NEW t \in Seq(Chars)
  PROVE  \A i \in 0..Len(t) : /\ Breaks(t, i) = Upto(LineEnds, t, i)
                              /\ Breaks(t, i) \in Nat
<1>. SUFFICES ASSUME NEW i \in 0..Len(t)
              PROVE  Breaks(t, i) = Upto(LineEnds, t, i)
  BY LineEndsAreWeights, PrefixWeights
<1>. DEFINE P == {k \in 0..i : Breaks(t, k) = Upto(LineEnds, t, k)}
<1>1. 0 \in P
  BY TextIsASeq, BreakSteps, LineEndsAreWeights, PrefixWeights
<1>2. ASSUME NEW m \in 1..i, m \notin P, m - 1 \in P
      PROVE  FALSE
  <2>1. m \in 1..Len(t) /\ m \in 0..i
    BY TextIsASeq
  <2>2. Breaks(t, m) = Breaks(t, m - 1) + (IF t[m] = LF THEN 1 ELSE 0)
    BY <2>1, BreakSteps
  <2>3. Upto(LineEnds, t, m) = Upto(LineEnds, t, m - 1) + LineEnds[t[m]]
    BY <2>1, LineEndsAreWeights, PrefixWeights
  <2>4. LineEnds[t[m]] = IF t[m] = LF THEN 1 ELSE 0
    BY <2>1, TextIsASeq DEF LineEnds
  <2>. QED BY <1>2, <2>1, <2>2, <2>3, <2>4
<1>3. i \in P
  <2>1. i \in Nat
    BY TextIsASeq
  <2>. HIDE DEF P
  <2>. QED BY <1>1, <1>2, <2>1, FirstFailure
<1>. QED BY <1>3

LEMMA BreaksRise ==
  ASSUME NEW t \in Seq(Chars), NEW i \in 0..Len(t), NEW j \in i..Len(t)
  PROVE  Breaks(t, i) <= Breaks(t, j)
<1>1. j \in 0..Len(t)
  BY TextIsASeq
<1>. QED BY <1>1, BreaksAreWeights, LineEndsAreWeights, WeightsRise

\* The line ends between two places.
LEMMA BreaksCount ==
  ASSUME NEW t \in Seq(Chars), NEW i \in 0..Len(t), NEW j \in i..Len(t)
  PROVE  Breaks(t, i) = Breaks(t, j) <=> \A k \in (i + 1)..j : t[k] # LF
<1>0. Len(t) \in Nat /\ j \in 0..Len(t)
  BY TextIsASeq
<1>1. ASSUME Breaks(t, i) = Breaks(t, j), NEW k \in (i + 1)..j, t[k] = LF
      PROVE  FALSE
  <2>1. k \in 1..Len(t) /\ k - 1 \in i..Len(t) /\ k - 1 \in 0..Len(t) /\ k \in 0..Len(t)
        /\ j \in k..Len(t)
    BY <1>0
  <2>2. Breaks(t, i) <= Breaks(t, k - 1) /\ Breaks(t, k) <= Breaks(t, j)
    BY <2>1, BreaksRise
  <2>3. Breaks(t, k) = Breaks(t, k - 1) + 1
    BY <1>1, <2>1, BreakSteps
  <2>4. Breaks(t, k - 1) \in Nat /\ Breaks(t, i) \in Nat
    BY <2>1, BreaksAreWeights
  <2>. QED BY <1>1, <2>2, <2>3, <2>4
<1>2. ASSUME \A k \in (i + 1)..j : t[k] # LF
      PROVE  Breaks(t, i) = Breaks(t, j)
  <2>. DEFINE P == {k \in 0..(j - i) : Breaks(t, i + k) = Breaks(t, i)}
  <2>1. j - i \in Nat /\ i + (j - i) = j /\ 0 \in P
    BY <1>0
  <2>2. ASSUME NEW m \in 1..(j - i), m \notin P, m - 1 \in P
        PROVE  FALSE
    <3>1. PICK p \in 1..Len(t) : p = i + m /\ p - 1 = i + (m - 1) /\ p \in (i + 1)..j
      <4>1. i + m \in 1..Len(t) /\ i + m - 1 = i + (m - 1) /\ i + m \in (i + 1)..j
        BY <1>0
      <4>. QED BY <4>1
    <3>2. Breaks(t, p) = Breaks(t, p - 1) + 0
      BY <1>2, <3>1, BreakSteps
    <3>3. Breaks(t, p - 1) \in Nat
      <4>1. p - 1 \in 0..Len(t)
        BY <1>0
      <4>. QED BY <4>1, BreaksAreWeights
    <3>4. m \in 0..(j - i)
      BY <1>0
    <3>. QED BY <2>2, <3>1, <3>2, <3>3, <3>4
  <2>3. j - i \in P
    <3>. HIDE DEF P
    <3>. QED BY <2>1, <2>2, FirstFailure
  <2>. QED BY <2>1, <2>3
<1>. QED BY <1>1, <1>2

-----------------------------------------------------------------------------
(* Lines. *)

\* A line starts at a place: at the beginning, or after a line end.
Starts(t, s) == s = 0 \/ t[s] = LF

LEMMA LineStartIs ==
  ASSUME NEW t \in Seq(Chars), NEW i \in 0..Len(t)
  PROVE  /\ LineStart(t, i) \in 0..i /\ Starts(t, LineStart(t, i))
         /\ \A k \in (LineStart(t, i) + 1)..i : t[k] # LF
         /\ Breaks(t, LineStart(t, i)) = Breaks(t, i)
<1>. DEFINE T == {0} \cup {j \in 1..i : t[j] = LF}
<1>0. Len(t) \in Nat /\ i \in Nat
  BY TextIsASeq
<1>1. T \subseteq 0..i /\ T # {}
  BY <1>0
<1>2. LineStart(t, i) = Max(T)
  BY DEF LineStart
<1>3. LineStart(t, i) \in T /\ \A k \in T : k <= LineStart(t, i)
  <2>. HIDE DEF T
  <2>. QED BY <1>0, <1>1, <1>2, MaxIsGreatest
<1>4. LineStart(t, i) \in 0..i /\ Starts(t, LineStart(t, i))
  BY <1>0, <1>3 DEF Starts
<1>5. ASSUME NEW k \in (LineStart(t, i) + 1)..i, t[k] = LF
      PROVE  FALSE
  <2>1. k \in 1..i /\ ~(k <= LineStart(t, i))
    BY <1>0, <1>4
  <2>. QED BY <1>3, <1>5, <2>1
<1>6. LineStart(t, i) \in 0..Len(t) /\ i \in LineStart(t, i)..Len(t)
  BY <1>0, <1>4
<1>7. Breaks(t, LineStart(t, i)) = Breaks(t, i)
  BY <1>5, <1>6, BreaksCount
<1>. QED BY <1>4, <1>5, <1>7

LEMMA LineStartOnly ==
  ASSUME NEW t \in Seq(Chars), NEW i \in 0..Len(t), NEW s \in 0..i,
         Starts(t, s), \A k \in (s + 1)..i : t[k] # LF
  PROVE  LineStart(t, i) = s
<1>. DEFINE l == LineStart(t, i)
<1>0. Len(t) \in Nat /\ i \in Nat
  BY TextIsASeq
<1>1. l \in 0..i /\ Starts(t, l) /\ \A k \in (l + 1)..i : t[k] # LF
  BY LineStartIs
<1>. HIDE DEF l
<1>2. ~(l < s)
  BY <1>0, <1>1 DEF Starts
<1>3. ~(s < l)
  BY <1>0, <1>1 DEF Starts
<1>. QED BY <1>0, <1>1, <1>2, <1>3 DEF l

\* Every line has a start.
LEMMA StartsExist ==
  ASSUME NEW t \in Seq(Chars), NEW k \in 1..(Breaks(t, Len(t)) + 1)
  PROVE  \E i \in 0..Len(t) : Breaks(t, i) = k - 1 /\ Starts(t, i)
<1>. DEFINE P == {i \in 0..Len(t) : Breaks(t, i) < k - 1}
<1>0. /\ Len(t) \in Nat /\ 0 \in 0..Len(t) /\ Len(t) \in 0..Len(t)
      /\ \A i \in 0..Len(t) : Breaks(t, i) \in Nat
  BY TextIsASeq, BreaksAreWeights
<1>1. CASE k = 1
  BY <1>0, <1>1, BreakSteps DEF Starts
<1>2. CASE k # 1
  <2>1. 0 \in P /\ Len(t) \notin P
    BY <1>0, <1>2, BreakSteps
  <2>2. PICK m \in 1..Len(t) : m \notin P /\ m - 1 \in P
    <3>. HIDE DEF P
    <3>. QED BY <1>0, <2>1, FirstFailure
  <2>3. m \in 0..Len(t) /\ m - 1 \in 0..Len(t)
    BY <1>0
  <2>4. Breaks(t, m) = Breaks(t, m - 1) + (IF t[m] = LF THEN 1 ELSE 0)
    BY BreakSteps
  <2>5. ~(Breaks(t, m) < k - 1) /\ Breaks(t, m - 1) < k - 1
    BY <2>2, <2>3
  <2>6. Breaks(t, m) \in Nat /\ Breaks(t, m - 1) \in Nat /\ k \in Nat
    BY <1>0, <2>3
  <2>7. t[m] = LF /\ Breaks(t, m) = k - 1
    BY <2>4, <2>5, <2>6
  <2>. QED BY <2>3, <2>7 DEF Starts
<1>. QED BY <1>1, <1>2

LEMMA StartIs ==
  ASSUME NEW t \in Seq(Chars), NEW k \in 1..(Breaks(t, Len(t)) + 1)
  PROVE  /\ StartOf(t, k) \in 0..Len(t) /\ Starts(t, StartOf(t, k))
         /\ Breaks(t, StartOf(t, k)) = k - 1
<1>1. \E i \in 0..Len(t) : Breaks(t, i) = k - 1 /\ (i = 0 \/ t[i] = LF)
  BY StartsExist DEF Starts
<1>. QED BY <1>1 DEF StartOf, Starts

\* A place is on the line of its number.
LEMMA PlaceOnLine ==
  ASSUME NEW t \in Seq(Chars), NEW i \in 0..Len(t)
  PROVE  /\ Breaks(t, i) + 1 \in 1..(Breaks(t, Len(t)) + 1)
         /\ StartOf(t, Breaks(t, i) + 1) = LineStart(t, i)
<1>0. Len(t) \in Nat /\ i \in Nat /\ Len(t) \in i..Len(t) /\ Len(t) \in 0..Len(t)
  BY TextIsASeq
<1>1. Breaks(t, i) \in Nat /\ Breaks(t, Len(t)) \in Nat
  BY <1>0, BreaksAreWeights
<1>2. Breaks(t, i) <= Breaks(t, Len(t))
  BY <1>0, BreaksRise
<1>3. Breaks(t, i) + 1 \in 1..(Breaks(t, Len(t)) + 1)
  BY <1>1, <1>2
<1>4. PICK s : s = StartOf(t, Breaks(t, i) + 1)
  OBVIOUS
<1>5. s \in 0..Len(t) /\ Starts(t, s) /\ Breaks(t, s) = Breaks(t, i)
  <2>1. Breaks(t, i) + 1 - 1 = Breaks(t, i)
    BY <1>1
  <2>2. PICK k \in 1..(Breaks(t, Len(t)) + 1) : k = Breaks(t, i) + 1
    BY <1>3
  <2>3. /\ StartOf(t, k) \in 0..Len(t) /\ Starts(t, StartOf(t, k))
        /\ Breaks(t, StartOf(t, k)) = k - 1
    BY StartIs
  <2>4. k - 1 = Breaks(t, i)
    BY <1>1, <2>2
  <2>5. StartOf(t, k) = s
    BY <1>4, <2>2, Zenon
  <2>. QED BY <2>3, <2>4, <2>5
<1>6. s \in 0..i
  <2>1. CASE i < s
    <3>1. s \in i..Len(t) /\ s \in (i + 1)..s /\ s # 0
      BY <1>0, <1>5, <2>1
    <3>. QED BY <1>5, <3>1, BreaksCount DEF Starts
  <2>. QED BY <1>0, <1>5, <2>1
<1>7. \A k \in (s + 1)..i : t[k] # LF
  <2>1. i \in s..Len(t)
    BY <1>0, <1>6
  <2>. QED BY <1>5, <2>1, BreaksCount
<1>8. LineStart(t, i) = s
  BY <1>5, <1>6, <1>7, LineStartOnly
<1>. QED BY <1>3, <1>4, <1>8

LEMMA FrontOfPart ==
  ASSUME NEW t \in Seq(Chars), NEW s \in 0..Len(t), NEW e \in s..Len(t)
  PROVE  /\ Between(t, s, e) = <<>> <=> s = e
         /\ s < e => /\ Last(Between(t, s, e)) = t[e]
                     /\ Front(Between(t, s, e)) = Between(t, s, e - 1)
<1>0. Len(t) \in Nat /\ e - s \in Nat
  BY TextIsASeq
<1>1. PICK u \in Seq(Chars) :
        /\ u = Between(t, s, e) /\ Len(u) = e - s
        /\ \A k \in 1..(e - s) : u[k] = t[s + k]
  BY Parts
<1>2. u = <<>> <=> s = e
  BY <1>0, <1>1, EmptySeq
<1>3. ASSUME s < e
      PROVE  Last(u) = t[e] /\ Front(u) = Between(t, s, e - 1)
  <2>1. e - 1 \in s..Len(t) /\ e - s \in 1..(e - s) /\ s + (e - s) = e
    BY <1>0, <1>3
  <2>2. Last(u) = t[e]
    BY <1>1, <2>1 DEF Last
  <2>3. PICK v \in Seq(Chars) :
          /\ v = Between(t, s, e - 1) /\ Len(v) = e - 1 - s
          /\ \A k \in 1..(e - 1 - s) : v[k] = t[s + k]
    BY <2>1, Parts
  <2>4. e - s - 1 \in 0..Len(u) /\ e - s - 1 = e - 1 - s
    BY <1>0, <1>1, <1>3
  <2>5. /\ Before(u, e - s - 1) \in Seq(Chars) /\ Len(Before(u, e - s - 1)) = e - s - 1
        /\ \A k \in 1..(e - s - 1) : Before(u, e - s - 1)[k] = u[k]
    BY <2>4, Beginnings
  <2>6. \A k \in 1..(e - s - 1) : k \in 1..(e - s) /\ k \in 1..(e - 1 - s)
    BY <1>0
  <2>7. Before(u, e - s - 1) = v
    BY <2>3, <2>4, <2>5, <2>6, <1>1, SeqEqual
  <2>8. Front(u) = Before(u, e - s - 1)
    BY <1>1 DEF Front, Before
  <2>. QED BY <2>2, <2>3, <2>7, <2>8
<1>. QED BY <1>1, <1>2, <1>3

\* Where the content of a line ends.
ContentEnd(t, s, e) ==
  LET end == IF s < e /\ t[e] = LF THEN e - 1 ELSE e
  IN  IF s < end /\ t[end] = CR THEN end - 1 ELSE end

LEMMA ContentOfPart ==
  ASSUME NEW t \in Seq(Chars), NEW s \in 0..Len(t), NEW e \in s..Len(t)
  PROVE  /\ ContentEnd(t, s, e) \in s..e
         /\ StripLineEnd(Between(t, s, e)) = Between(t, s, ContentEnd(t, s, e))
<1>0. Len(t) \in Nat
  BY TextIsASeq
<1>. DEFINE line == Between(t, s, e)
            content == IF line # <<>> /\ Last(line) = LF THEN Front(line) ELSE line
            end == IF s < e /\ t[e] = LF THEN e - 1 ELSE e
<1>1. /\ line = <<>> <=> s = e
      /\ s < e => Last(line) = t[e] /\ Front(line) = Between(t, s, e - 1)
  BY FrontOfPart
<1>2. end \in s..Len(t) /\ end \in s..e
  BY <1>0
<1>3. content = Between(t, s, end)
  BY <1>0, <1>1
<1>4. StripLineEnd(line) =
        IF content # <<>> /\ Last(content) = CR THEN Front(content) ELSE content
  BY DEF StripLineEnd
<1>5. ContentEnd(t, s, e) = IF s < end /\ t[end] = CR THEN end - 1 ELSE end
  BY DEF ContentEnd
<1>. HIDE DEF content, end, line
<1>6. /\ content = <<>> <=> s = end
      /\ s < end => Last(content) = t[end] /\ Front(content) = Between(t, s, end - 1)
  BY <1>2, <1>3, FrontOfPart
<1>7. ContentEnd(t, s, e) \in s..e
  BY <1>0, <1>2, <1>5
<1>8. StripLineEnd(line) = Between(t, s, ContentEnd(t, s, e))
  BY <1>0, <1>2, <1>3, <1>4, <1>5, <1>6
<1>. QED BY <1>7, <1>8 DEF line

-----------------------------------------------------------------------------
(* The line index knows the line of a place. *)

LEMMA LineOfPlace ==
  ASSUME NEW t \in Seq(Chars), EndsLines(t), NEW i \in 0..Len(t)
  PROVE  \E z \in LineStart(t, i)..Len(t) :
           /\ IndexOf(t)[Breaks(t, i) + 1].start = ByteOf(t, LineStart(t, i))
           /\ IndexOf(t)[Breaks(t, i) + 1].stop =
                ByteOf(t, LineStart(t, i)) + Bytes(Between(t, LineStart(t, i), z))
           /\ Inside(t, i) => z = i - 1
           /\ ~Inside(t, i) => i <= z /\ (AtLineEnd(t, i) => z = i)
<1>. DEFINE lines == Breaks(t, Len(t)) + 1
<1>0. Len(t) \in Nat /\ i \in Nat
  BY TextIsASeq
<1>1. PICK k \in 1..lines : k = Breaks(t, i) + 1 /\ StartOf(t, k) = LineStart(t, i)
  BY PlaceOnLine
<1>2. PICK s \in 0..i : /\ s = LineStart(t, i) /\ Starts(t, s)
                        /\ \A j \in (s + 1)..i : t[j] # LF
                        /\ Breaks(t, s) = Breaks(t, i)
  BY LineStartIs
<1>3. Breaks(t, i) \in Nat /\ Breaks(t, Len(t)) \in Nat
  <2>1. Len(t) \in 0..Len(t)
    BY <1>0
  <2>. QED BY <2>1, BreaksAreWeights
\* The next line starts behind the next LF, or there is none.
<1>4. PICK e \in i..Len(t) :
        /\ e = IF k = lines THEN Len(t) ELSE StartOf(t, k + 1)
        /\ \A j \in (i + 1)..(e - 1) : t[j] # LF
        /\ IF k = lines THEN e = Len(t) /\ \A j \in (i + 1)..e : t[j] # LF
                        ELSE i < e /\ t[e] = LF
  <2>1. CASE k = lines
    <3>1. Len(t) \in i..Len(t) /\ Breaks(t, Len(t)) = Breaks(t, i)
      BY <1>0, <1>1, <1>3, <2>1
    <3>2. \A j \in (i + 1)..Len(t) : t[j] # LF
      BY <3>1, BreaksCount
    <3>3. \A j \in (i + 1)..(Len(t) - 1) : j \in (i + 1)..Len(t)
      BY <1>0
    <3>. QED BY <2>1, <3>1, <3>2, <3>3
  <2>2. CASE k # lines
    <3>1. PICK l \in 1..lines : l = k + 1
      BY <1>3, <2>2
    <3>2. PICK e \in 0..Len(t) : e = StartOf(t, l)
      BY StartIs
    <3>3. Starts(t, e) /\ Breaks(t, e) = Breaks(t, i) + 1
      <4>1. l - 1 = Breaks(t, i) + 1
        BY <1>1, <1>3, <3>1
      <4>. QED BY <3>2, <4>1, StartIs
    <3>4. i < e
      <4>1. CASE e <= i
        <5>1. Breaks(t, e) <= Breaks(t, i)
          BY <1>0, <4>1, BreaksRise
        <5>. QED BY <1>3, <3>3, <5>1
      <4>. QED BY <1>0, <4>1
    <3>5. t[e] = LF
      BY <1>0, <3>3, <3>4 DEF Starts
    <3>6. Breaks(t, e - 1) = Breaks(t, i) /\ e - 1 \in i..Len(t)
      <4>1. e \in 1..Len(t) /\ e - 1 \in 0..Len(t) /\ e - 1 \in i..Len(t)
        BY <1>0, <3>4
      <4>2. Breaks(t, e) = Breaks(t, e - 1) + 1
        BY <3>5, <4>1, BreakSteps
      <4>3. Breaks(t, e - 1) \in Nat
        BY <4>1, BreaksAreWeights
      <4>. QED BY <1>3, <3>3, <4>1, <4>2, <4>3
    <3>7. \A j \in (i + 1)..(e - 1) : t[j] # LF
      BY <3>6, BreaksCount
    <3>8. e \in i..Len(t)
      BY <1>0, <3>4
    <3>. QED BY <2>2, <3>1, <3>2, <3>4, <3>5, <3>7, <3>8
  <2>. QED BY <2>1, <2>2
<1>5. PICK z \in s..e : /\ z = ContentEnd(t, s, e)
                        /\ StripLineEnd(Between(t, s, e)) = Between(t, s, z)
  <2>1. s \in 0..Len(t) /\ e \in s..Len(t)
    BY <1>0
  <2>. QED BY <2>1, ContentOfPart
<1>6. /\ IndexOf(t)[k].start = ByteOf(t, s)
      /\ IndexOf(t)[k].stop = ByteOf(t, s) + Bytes(Between(t, s, z))
  <2>1. IndexOf(t)[k] =
          [start |-> ByteOf(t, s),
           stop  |-> ByteOf(t, s) + Bytes(StripLineEnd(Between(t, s, e)))]
    BY <1>1, <1>2, <1>4 DEF IndexOf
  <2>. QED BY <1>5, <2>1
<1>7. s \in Nat /\ e \in Nat /\ s <= i /\ i <= e /\ e <= Len(t) /\ z \in s..Len(t)
  BY <1>0
<1>8. \A j \in (s + 1)..(e - 1) : t[j] # LF
  <2>. SUFFICES ASSUME NEW j \in (s + 1)..(e - 1) PROVE t[j] # LF
    OBVIOUS
  <2>1. CASE j <= i
    BY <1>2, <1>7, <2>1
  <2>2. CASE i < j
    BY <1>4, <1>7, <2>2
  <2>. QED BY <1>7, <2>1, <2>2
<1>9. ASSUME Inside(t, i) PROVE z = i - 1
  <2>1. i \in 1..(Len(t) - 1) /\ t[i] = CR /\ t[i + 1] = LF
    BY <1>9 DEF Inside
  <2>2. s < i
    BY <1>2, <1>7, <2>1, SourceTextAssumption DEF Starts
  <2>3. k # lines
    BY <1>4, <1>7, <2>1
  <2>4. e = i + 1
    BY <1>4, <1>7, <2>1, <2>3
  <2>5. e - 1 = i /\ s < e /\ s < e - 1 /\ t[e] = LF /\ t[e - 1] = CR
    BY <1>7, <2>1, <2>2, <2>4
  <2>6. ContentEnd(t, s, e) = e - 1 - 1
    BY <2>5 DEF ContentEnd
  <2>. QED BY <1>5, <1>7, <2>5, <2>6
<1>10. ASSUME ~Inside(t, i) PROVE i <= z
  <2>1. CASE k = lines
    <3>1. ~(s < e /\ t[e] = LF)
      BY <1>2, <1>4, <1>7, <2>1
    <3>2. ~(s < e /\ t[e] = CR)
      <4>1. PICK m \in Nat : m = Len(t) /\ e = m /\ DOMAIN t = 1..m
        BY <1>4, <1>7, <2>1, TextIsASeq
      <4>2. \A n \in 1..m : t[n] = CR => n < m
        BY <4>1 DEF EndsLines
      <4> QED BY <1>7, <4>1, <4>2
    <3>3. z = e
      BY <1>5, <3>1, <3>2 DEF ContentEnd
    <3>. QED BY <1>7, <3>3
  <2>2. CASE k # lines
    <3>1. i < e /\ t[e] = LF /\ s < e
      BY <1>4, <1>7, <2>2
    <3>2. z = IF s < e - 1 /\ t[e - 1] = CR THEN e - 1 - 1 ELSE e - 1
      BY <1>5, <3>1 DEF ContentEnd
    <3>3. CASE s < e - 1 /\ t[e - 1] = CR
      <4>1. i # e - 1
        <5>1. CASE i = e - 1
          <6>1. i \in 1..(Len(t) - 1) /\ t[i] = CR /\ t[i + 1] = LF
            BY <1>7, <3>1, <3>3, <5>1
          <6>. QED BY <1>10, <6>1 DEF Inside
        <5>. QED BY <5>1
      <4>. QED BY <1>7, <3>1, <3>2, <3>3, <4>1
    <3>4. CASE ~(s < e - 1 /\ t[e - 1] = CR)
      BY <1>7, <3>1, <3>2, <3>4
    <3>. QED BY <3>3, <3>4
  <2>. QED BY <2>1, <2>2
<1>11. ASSUME ~Inside(t, i), AtLineEnd(t, i) PROVE z = i
  <2>1. CASE i = Len(t)
    BY <1>7, <1>10, <1>11, <2>1
  <2>2. CASE i < Len(t) /\ t[i + 1] = LF
    <3>1. e = i + 1 /\ k # lines
      BY <1>4, <1>7, <2>2
    <3>2. z <= e - 1
      BY <1>5, <1>7, <2>2, <3>1 DEF ContentEnd
    <3>. QED BY <1>7, <1>10, <1>11, <3>1, <3>2
  <2>3. CASE i < Len(t) /\ t[i + 1] = CR
    <3>1. i + 1 \in DOMAIN t
      BY <1>7, <2>3, TextIsASeq
    <3>2. i + 1 < Len(t) /\ t[i + 1 + 1] = LF
      BY <2>3, <3>1 DEF EndsLines
    <3>3. t[i + 1] # LF
      BY <2>3, SourceTextAssumption
    <3>4. e = i + 1 + 1 /\ k # lines
      BY <1>4, <1>7, <3>2, <3>3
    <3>5. e - 1 = i + 1 /\ s < e /\ s < e - 1 /\ t[e] = LF /\ t[e - 1] = CR
      BY <1>7, <2>3, <3>2, <3>4
    <3>6. z = e - 1 - 1
      BY <1>5, <3>5 DEF ContentEnd
    <3>. QED BY <1>7, <3>5, <3>6
  <2>. QED BY <1>7, <1>11, <2>1, <2>2, <2>3 DEF AtLineEnd
<1>. QED BY <1>1, <1>2, <1>6, <1>7, <1>9, <1>10, <1>11

-----------------------------------------------------------------------------
(* Bytes of places. *)

LEMMA ByteWeights ==
  /\ Utf8 \in [Chars -> Nat \ {0}] /\ Utf8 \in [Chars -> Nat]
  /\ Utf16 \in [Chars -> Nat \ {0}] /\ Utf16 \in [Chars -> Nat]
  /\ \A t : Bytes(t) = Weight(Utf8, t) /\ Units(t) = Weight(Utf16, t)
  /\ \A t, i : ByteOf(t, i) = Upto(Utf8, t, i)
<1>1. /\ Utf8 \in [Chars -> Nat \ {0}] /\ Utf8 \in [Chars -> Nat]
      /\ Utf16 \in [Chars -> Nat \ {0}] /\ Utf16 \in [Chars -> Nat]
  BY SourceTextAssumption
<1>2. \A t : Bytes(t) = Weight(Utf8, t) /\ Units(t) = Weight(Utf16, t)
  BY DEF Bytes, Units, Weight, FoldLeft, MapThenFoldSet
<1>3. \A t, i : ByteOf(t, i) = Upto(Utf8, t, i)
  BY <1>2 DEF ByteOf, Upto
<1>. QED BY <1>1, <1>2, <1>3

LEMMA BytesOfPlaces ==
  ASSUME NEW t \in Seq(Chars)
  PROVE  /\ \A i \in 0..Len(t) : ByteOf(t, i) \in Nat
         /\ ByteOf(t, 0) = 0 /\ ByteOf(t, Len(t)) = Bytes(t)
         /\ \A i, j \in 0..Len(t) : ByteOf(t, i) < ByteOf(t, j) <=> i < j
         /\ \A i \in 0..Len(t) : \A j \in i..Len(t) :
              ByteOf(t, j) = ByteOf(t, i) + Bytes(Between(t, i, j))
<1>1. \A i \in 0..Len(t) : ByteOf(t, i) \in Nat
  BY ByteWeights, PrefixWeights
<1>2. ByteOf(t, 0) = 0 /\ ByteOf(t, Len(t)) = Bytes(t)
  BY ByteWeights, PrefixWeights
<1>3. \A i, j \in 0..Len(t) : ByteOf(t, i) < ByteOf(t, j) <=> i < j
  BY ByteWeights, WeightsIncrease
<1>4. \A i \in 0..Len(t) : \A j \in i..Len(t) :
        ByteOf(t, j) = ByteOf(t, i) + Bytes(Between(t, i, j))
  <2>. TAKE i \in 0..Len(t)
  <2>. TAKE j \in i..Len(t)
  <2>1. Upto(Utf8, t, j) = Upto(Utf8, t, i) + Weight(Utf8, Between(t, i, j))
    BY ByteWeights, PartWeights
  <2>. QED BY <2>1, ByteWeights
<1>. QED BY <1>1, <1>2, <1>3, <1>4

\* A byte belongs to the place before it.
LEMMA FloorOfByte ==
  ASSUME NEW t \in Seq(Chars), NEW i \in 0..Len(t), NEW byte \in Int,
         ByteOf(t, i) <= byte, i = Len(t) \/ byte < ByteOf(t, i + 1)
  PROVE  FloorChar(t, byte) = i
<1>. DEFINE T == {j \in 0..Len(t) : ByteOf(t, j) <= byte}
<1>0. Len(t) \in Nat /\ \A j \in 0..Len(t) : ByteOf(t, j) \in Nat
  BY TextIsASeq, BytesOfPlaces
<1>1. i \in T /\ T \subseteq 0..Len(t)
  OBVIOUS
<1>2. ASSUME NEW j \in T PROVE j <= i
  <2>1. CASE i = Len(t)
    BY <2>1, <1>0
  <2>2. CASE i # Len(t) /\ i < j
    <3>1. i + 1 \in 0..Len(t) /\ ~(j < i + 1)
      BY <1>0, <2>2
    <3>2. ~(ByteOf(t, j) < ByteOf(t, i + 1))
      BY <3>1, BytesOfPlaces
    <3>3. ByteOf(t, j) \in Nat /\ ByteOf(t, i + 1) \in Nat /\ ByteOf(t, j) <= byte
      BY <1>0, <3>1
    <3>. QED BY <2>2, <3>2, <3>3
  <2>. QED BY <1>0, <2>1, <2>2
<1>3. Max(T) \in T /\ \A j \in T : j <= Max(T)
  <2>. HIDE DEF T
  <2>. QED BY <1>0, <1>1, MaxIsGreatest
<1>4. Max(T) = i
  BY <1>0, <1>1, <1>2, <1>3
<1>. QED BY <1>4 DEF FloorChar

LEMMA FloorOfPlace ==
  ASSUME NEW t \in Seq(Chars), NEW i \in 0..Len(t)
  PROVE  FloorChar(t, ByteOf(t, i)) = i
<1>1. Len(t) \in Nat /\ \A j \in 0..Len(t) : ByteOf(t, j) \in Nat
  BY TextIsASeq, BytesOfPlaces
<1>2. ByteOf(t, i) \in Int /\ ByteOf(t, i) <= ByteOf(t, i)
  BY <1>1
<1>3. i = Len(t) \/ ByteOf(t, i) < ByteOf(t, i + 1)
  <2>1. i # Len(t) => i + 1 \in 0..Len(t) /\ i < i + 1
    BY <1>1
  <2>. QED BY <2>1, BytesOfPlaces
<1>. QED BY <1>2, <1>3, FloorOfByte

LEMMA SliceOfPlaces ==
  ASSUME NEW t \in Seq(Chars), NEW i \in 0..Len(t), NEW j \in 0..Len(t)
  PROVE  Slice(t, ByteOf(t, i), ByteOf(t, j)) = Between(t, i, j)
BY FloorOfPlace DEF Slice

-----------------------------------------------------------------------------
(* Positions of the server's text. *)

TextInv ==
  /\ text \in Seq(Chars) /\ EndsLines(text)
  /\ lineIndex = IndexOf(text)
  /\ text = buffer

LEMMA LineForPlace ==
  ASSUME TextInv, NEW i \in 0..Len(text)
  PROVE  /\ LineForByte(ByteOf(text, i)) = Breaks(text, i) + 1
         /\ Breaks(text, i) + 1 \in DOMAIN lineIndex
<1>0. text \in Seq(Chars) /\ EndsLines(text) /\ lineIndex = IndexOf(text)
  BY DEF TextInv
<1>1. /\ Len(text) \in Nat /\ \A j \in 0..Len(text) : Breaks(text, j) \in Nat
      /\ Len(text) \in 0..Len(text)
  BY <1>0, TextIsASeq, BreaksAreWeights
<1>2. PICK n \in Nat : n = Breaks(text, Len(text)) + 1 /\ DOMAIN lineIndex = 1..n
  <2>1. DOMAIN IndexOf(text) = 1..(Breaks(text, Len(text)) + 1)
    BY DEF IndexOf
  <2>. QED BY <1>0, <1>1, <2>1
<1>3. \A k \in 1..n : lineIndex[k].start = ByteOf(text, StartOf(text, k))
  BY <1>0, <1>2 DEF IndexOf
<1>4. PICK k \in 1..n : k = Breaks(text, i) + 1 /\ StartOf(text, k) = LineStart(text, i)
  BY <1>0, <1>2, PlaceOnLine
<1>5. LineStart(text, i) \in 0..i /\ LineStart(text, i) \in 0..Len(text)
  <2>1. LineStart(text, i) \in 0..i
    BY <1>0, LineStartIs
  <2>. QED BY <1>1, <2>1
<1>. DEFINE T == {l \in 1..n : lineIndex[l].start <= ByteOf(text, i)}
<1>6. k \in T
  <2>1. ~(i < LineStart(text, i))
    BY <1>1, <1>5
  <2>2. ~(ByteOf(text, i) < ByteOf(text, LineStart(text, i)))
    BY <1>0, <1>5, <2>1, BytesOfPlaces
  <2>3. ByteOf(text, i) \in Nat /\ ByteOf(text, LineStart(text, i)) \in Nat
    BY <1>0, <1>5, BytesOfPlaces
  <2>. QED BY <1>3, <1>4, <2>2, <2>3
<1>7. ASSUME NEW l \in T PROVE l <= k
  <2>1. l \in 1..n /\ lineIndex[l].start <= ByteOf(text, i)
    OBVIOUS
  <2>2. PICK s \in 0..Len(text) : s = StartOf(text, l) /\ Breaks(text, s) = l - 1
    <3>1. l \in 1..(Breaks(text, Len(text)) + 1)
      BY <1>2
    <3>. QED BY <1>0, <3>1, StartIs
  <2>3. ByteOf(text, s) <= ByteOf(text, i)
    BY <1>3, <2>1, <2>2
  <2>4. ByteOf(text, i) \in Nat /\ ByteOf(text, s) \in Nat
    BY <1>0, BytesOfPlaces
  <2>5. ~(i < s)
    BY <1>0, <2>3, <2>4, BytesOfPlaces
  <2>6. i \in s..Len(text)
    BY <1>1, <2>5
  <2>7. Breaks(text, s) <= Breaks(text, i)
    BY <1>0, <2>6, BreaksRise
  <2>8. Breaks(text, i) \in Nat /\ l \in Nat
    BY <1>1
  <2>. QED BY <1>4, <2>2, <2>7, <2>8
<1>8. Max(T) \in T /\ \A l \in T : l <= Max(T)
  <2>1. T \subseteq 0..n /\ T # {}
    BY <1>6
  <2>. HIDE DEF T
  <2>. QED BY <1>2, <2>1, MaxIsGreatest
<1>9. Max(T) = k
  <2>1. Max(T) \in Nat
    BY <1>8
  <2>. HIDE DEF T
  <2>. QED BY <1>6, <1>7, <1>8, <2>1
<1>. QED BY <1>2, <1>4, <1>9 DEF LineForByte

\* The line of a place, as the index has it.
LEMMA IndexedLine ==
  ASSUME TextInv, NEW i \in 0..Len(text)
  PROVE  \E s \in 0..i : \E z \in s..Len(text) :
           /\ s = LineStart(text, i) /\ s \in 0..Len(text) /\ z \in 0..Len(text)
           /\ LineForByte(ByteOf(text, i)) = Breaks(text, i) + 1
           /\ Breaks(text, i) + 1 \in DOMAIN lineIndex
           /\ lineIndex[Breaks(text, i) + 1].start = ByteOf(text, s)
           /\ lineIndex[Breaks(text, i) + 1].stop = ByteOf(text, z)
           /\ Inside(text, i) => z = i - 1 /\ s <= i - 1
           /\ ~Inside(text, i) => i <= z /\ (AtLineEnd(text, i) => z = i)
<1>0. text \in Seq(Chars) /\ EndsLines(text) /\ lineIndex = IndexOf(text)
  BY DEF TextInv
<1>1. Len(text) \in Nat
  BY <1>0, TextIsASeq
<1>2. PICK s \in 0..i : s = LineStart(text, i)
  BY <1>0, LineStartIs
<1>3. PICK z \in s..Len(text) :
        /\ lineIndex[Breaks(text, i) + 1].start = ByteOf(text, s)
        /\ lineIndex[Breaks(text, i) + 1].stop =
             ByteOf(text, s) + Bytes(Between(text, s, z))
        /\ Inside(text, i) => z = i - 1
        /\ ~Inside(text, i) => i <= z /\ (AtLineEnd(text, i) => z = i)
  BY <1>0, <1>2, LineOfPlace
<1>4. s \in 0..Len(text) /\ z \in 0..Len(text)
  BY <1>1
<1>5. lineIndex[Breaks(text, i) + 1].stop = ByteOf(text, z)
  BY <1>0, <1>3, <1>4, BytesOfPlaces
<1>6. Inside(text, i) => z = i - 1 /\ s <= i - 1
  BY <1>1, <1>3
<1>. QED BY <1>2, <1>3, <1>4, <1>5, <1>6, LineForPlace

LEMMA PositionOfByte ==
  ASSUME TextInv, NEW i \in 0..Len(text), NEW byte \in Int,
         ByteOf(text, i) <= byte, i = Len(text) \/ byte < ByteOf(text, i + 1)
  PROVE  PositionForByte(byte) =
           ClientPosition(text, IF Inside(text, i) THEN i - 1 ELSE i)
<1>0. text \in Seq(Chars) /\ Len(text) \in Nat
  BY TextIsASeq DEF TextInv
<1>1. FloorChar(text, byte) = i
  BY <1>0, FloorOfByte
<1>2. PICK s \in 0..i : \E z \in s..Len(text) :
        /\ s = LineStart(text, i) /\ s \in 0..Len(text) /\ z \in 0..Len(text)
        /\ LineForByte(ByteOf(text, i)) = Breaks(text, i) + 1
        /\ lineIndex[Breaks(text, i) + 1].start = ByteOf(text, s)
        /\ lineIndex[Breaks(text, i) + 1].stop = ByteOf(text, z)
        /\ Inside(text, i) => z = i - 1 /\ s <= i - 1
        /\ ~Inside(text, i) => i <= z /\ (AtLineEnd(text, i) => z = i)
  BY IndexedLine
<1>3. PICK z \in s..Len(text) :
        /\ s = LineStart(text, i) /\ s \in 0..Len(text) /\ z \in 0..Len(text)
        /\ LineForByte(ByteOf(text, i)) = Breaks(text, i) + 1
        /\ lineIndex[Breaks(text, i) + 1].start = ByteOf(text, s)
        /\ lineIndex[Breaks(text, i) + 1].stop = ByteOf(text, z)
        /\ Inside(text, i) => z = i - 1 /\ s <= i - 1
        /\ ~Inside(text, i) => i <= z /\ (AtLineEnd(text, i) => z = i)
  BY <1>2
<1>4. PICK p \in 0..Len(text) : p = IF Inside(text, i) THEN i - 1 ELSE i
  BY <1>0 DEF Inside
<1>5. Smaller(ByteOf(text, i), ByteOf(text, z)) = ByteOf(text, p)
  <2>1. ByteOf(text, i) \in Nat /\ ByteOf(text, z) \in Nat
    BY <1>0, <1>3, BytesOfPlaces
  <2>2. CASE Inside(text, i)
    <3>1. z = i - 1 /\ p = z /\ ~(i < z)
      BY <1>0, <1>3, <1>4, <2>2
    <3>2. ~(ByteOf(text, i) < ByteOf(text, z))
      BY <1>0, <1>3, <3>1, BytesOfPlaces
    <3>. QED BY <3>1, <3>2 DEF Smaller
  <2>3. CASE ~Inside(text, i)
    <3>1. p = i /\ (i < z \/ i = z)
      BY <1>0, <1>3, <1>4, <2>3
    <3>2. ByteOf(text, i) < ByteOf(text, z) \/ i = z
      BY <1>0, <1>3, <3>1, BytesOfPlaces
    <3>. QED BY <3>1, <3>2 DEF Smaller
  <2>. QED BY <2>2, <2>3
<1>6. Slice(text, ByteOf(text, s), ByteOf(text, p)) = Between(text, s, p)
  BY <1>0, <1>3, SliceOfPlaces
<1>7. Breaks(text, p) = Breaks(text, i) /\ LineStart(text, p) = s
  <2>1. CASE Inside(text, i)
    <3>1. p = i - 1 /\ s \in 0..p /\ i \in p..Len(text)
      BY <1>0, <1>3, <1>4, <2>1
    <3>2. \A k \in (s + 1)..i : text[k] # LF
      BY <1>0, <1>3, LineStartIs
    <3>3. (\A k \in (s + 1)..p : text[k] # LF) /\ \A k \in (p + 1)..i : text[k] # LF
      BY <1>0, <3>1, <3>2
    <3>4. Starts(text, s)
      BY <1>0, <1>3, LineStartIs
    <3>5. Breaks(text, p) = Breaks(text, i)
      BY <1>0, <3>1, <3>3, BreaksCount
    <3>6. LineStart(text, p) = s
      BY <1>0, <3>1, <3>3, <3>4, LineStartOnly
    <3>. QED BY <3>5, <3>6
  <2>2. CASE ~Inside(text, i)
    BY <1>3, <1>4, <2>2
  <2>. QED BY <2>1, <2>2
<1>8. PICK k : k = Breaks(text, i) + 1
  OBVIOUS
<1>9. PositionForByte(byte) =
        [line |-> Breaks(text, i),
         character |-> Units(Slice(text, ByteOf(text, s),
                                   Smaller(ByteOf(text, i), ByteOf(text, z))))]
  <2>1. /\ LineForByte(ByteOf(text, i)) = k
        /\ lineIndex[k].start = ByteOf(text, s) /\ lineIndex[k].stop = ByteOf(text, z)
    BY <1>3, <1>8, Zenon
  <2>2. PositionForByte(byte) =
          [line |-> k - 1,
           character |-> Units(Slice(text, ByteOf(text, s),
                                     Smaller(ByteOf(text, i), ByteOf(text, z))))]
    BY <1>1, <2>1, Zenon DEF PositionForByte
  <2>3. k - 1 = Breaks(text, i)
    BY <1>0, <1>8, BreaksAreWeights
  <2>. QED BY <2>2, <2>3
<1>10. ClientPosition(text, p) =
         [line |-> Breaks(text, i), character |-> Units(Between(text, s, p))]
  BY <1>7 DEF ClientPosition
<1>. QED BY <1>4, <1>5, <1>6, <1>9, <1>10

LEMMA PointOfPlace ==
  ASSUME TextInv, NEW i \in 0..Len(text)
  PROVE  PointForByte(ByteOf(text, i)) = PointOf(text, i)
<1>0. text \in Seq(Chars) /\ Len(text) \in Nat
  BY TextIsASeq DEF TextInv
<1>1. FloorChar(text, ByteOf(text, i)) = i
  BY <1>0, FloorOfPlace
<1>2. PICK s \in 0..i :
        /\ s = LineStart(text, i) /\ s \in 0..Len(text)
        /\ LineForByte(ByteOf(text, i)) = Breaks(text, i) + 1
        /\ lineIndex[Breaks(text, i) + 1].start = ByteOf(text, s)
  BY IndexedLine
<1>3. ByteOf(text, i) - ByteOf(text, s) = Bytes(Between(text, s, i))
  <2>1. i \in s..Len(text)
    BY <1>0
  <2>2. PICK between : between = Between(text, s, i)
    OBVIOUS
  <2>3. between \in Seq(Chars)
    BY <1>0, <1>2, <2>1, <2>2, Parts
  <2>4. Len(between) \in 0..Len(between)
    BY <2>3, TextIsASeq
  <2>5. Bytes(between) \in Nat
    BY <2>3, <2>4, BytesOfPlaces
  <2>6. ByteOf(text, i) = ByteOf(text, s) + Bytes(between)
    BY <1>0, <1>2, <2>1, <2>2, BytesOfPlaces
  <2>7. ByteOf(text, s) \in Nat
    BY <1>0, <1>2, BytesOfPlaces
  <2>. QED BY <2>2, <2>5, <2>6, <2>7
<1>4. PICK k : k = Breaks(text, i) + 1
  OBVIOUS
<1>5. PointForByte(ByteOf(text, i)) =
        [row |-> Breaks(text, i), column |-> ByteOf(text, i) - ByteOf(text, s)]
  <2>1. LineForByte(ByteOf(text, i)) = k /\ lineIndex[k].start = ByteOf(text, s)
    BY <1>2, <1>4, Zenon
  <2>2. PointForByte(ByteOf(text, i)) =
          [row |-> k - 1, column |-> ByteOf(text, i) - ByteOf(text, s)]
    BY <1>1, <2>1, Zenon DEF PointForByte
  <2>3. k - 1 = Breaks(text, i)
    BY <1>0, <1>4, BreaksAreWeights
  <2>. QED BY <2>2, <2>3
<1>. QED BY <1>2, <1>3, <1>5 DEF PointOf

-----------------------------------------------------------------------------
(* Positions of the editor. *)

LEMMA ColumnOfPlace ==
  ASSUME NEW t \in Seq(Chars), NEW i \in 0..Len(t), NEW column \in Nat,
         Upto(Utf16, t, i) <= column, i = Len(t) \/ Upto(Utf16, t, i) = column
  PROVE  ColumnToByte(t, column) = ByteOf(t, i)
<1>. DEFINE T == {k \in 0..Len(t) : Units(Before(t, k)) <= column}
<1>0. /\ Len(t) \in Nat
      /\ \A k \in 0..Len(t) : /\ Upto(Utf16, t, k) \in Nat
                              /\ Units(Before(t, k)) = Upto(Utf16, t, k)
  BY TextIsASeq, ByteWeights, PrefixWeights DEF Upto
<1>1. i \in T /\ T \subseteq 0..Len(t)
  BY <1>0
<1>2. ASSUME NEW k \in T PROVE k <= i
  <2>1. k \in 0..Len(t) /\ Upto(Utf16, t, k) <= column
    BY <1>0
  <2>2. CASE i = Len(t)
    BY <1>0, <2>1, <2>2
  <2>3. CASE Upto(Utf16, t, i) = column
    <3>1. ~(Upto(Utf16, t, i) < Upto(Utf16, t, k))
      BY <1>0, <2>1, <2>3
    <3>2. ~(i < k)
      BY <2>1, <3>1, ByteWeights, WeightsIncrease
    <3>. QED BY <1>0, <2>1, <3>2
  <2>. QED BY <2>2, <2>3
<1>3. Max(T) \in T /\ \A k \in T : k <= Max(T)
  <2>. HIDE DEF T
  <2>. QED BY <1>0, <1>1, MaxIsGreatest
<1>4. Max(T) = i
  BY <1>0, <1>1, <1>2, <1>3
<1>. QED BY <1>4 DEF ColumnToByte

\* A position that the editor sends has the byte of the place it means.
LEMMA ByteOfSent ==
  ASSUME TextInv, NEW i \in Places(text), NEW position \in Sent(text, i)
  PROVE  HasByte(position) /\ ByteForPosition(position) = ByteOf(text, i)
<1>0. /\ text \in Seq(Chars) /\ Len(text) \in Nat
      /\ i \in 0..Len(text) /\ ~Inside(text, i)
  BY TextIsASeq DEF TextInv, Places
<1>2. PICK s \in 0..i : \E z \in s..Len(text) :
        /\ s = LineStart(text, i) /\ s \in 0..Len(text) /\ z \in 0..Len(text)
        /\ Breaks(text, i) + 1 \in DOMAIN lineIndex
        /\ lineIndex[Breaks(text, i) + 1].start = ByteOf(text, s)
        /\ lineIndex[Breaks(text, i) + 1].stop = ByteOf(text, z)
        /\ i <= z /\ (AtLineEnd(text, i) => z = i)
  BY <1>0, IndexedLine
<1>3. PICK z \in s..Len(text) :
        /\ s = LineStart(text, i) /\ s \in 0..Len(text) /\ z \in 0..Len(text)
        /\ Breaks(text, i) + 1 \in DOMAIN lineIndex
        /\ lineIndex[Breaks(text, i) + 1].start = ByteOf(text, s)
        /\ lineIndex[Breaks(text, i) + 1].stop = ByteOf(text, z)
        /\ i <= z /\ (AtLineEnd(text, i) => z = i)
  BY <1>2
<1>4. PICK c \in Seq(Chars) : c = Between(text, s, z) /\ Len(c) = z - s
  BY <1>0, <1>3, Parts
<1>5. Slice(text, ByteOf(text, s), ByteOf(text, z)) = c
  BY <1>0, <1>3, <1>4, SliceOfPlaces
<1>6. i - s \in 0..Len(c) /\ s + (i - s) = i /\ i \in s..Len(text) /\ i - s \in 0..(z - s)
  BY <1>0, <1>3, <1>4
<1>7. Units(Between(text, s, i)) = Upto(Utf16, c, i - s)
  <2>1. Upto(Utf16, text, i) = Upto(Utf16, text, s) + Weight(Utf16, Between(text, s, i))
    BY <1>0, <1>3, <1>6, ByteWeights, PartWeights
  <2>2. Upto(Utf16, text, i) = Upto(Utf16, text, s) + Upto(Utf16, c, i - s)
    <3>1. \A k \in 0..(z - s) :
            Upto(Utf16, text, s + k) = Upto(Utf16, text, s) + Upto(Utf16, Between(text, s, z), k)
      BY <1>0, <1>3, ByteWeights, PartWeights
    <3>2. Upto(Utf16, text, s + (i - s)) = Upto(Utf16, text, s) + Upto(Utf16, c, i - s)
      BY <1>4, <1>6, <3>1
    <3>. QED BY <1>6, <3>2
  <2>3. Upto(Utf16, text, s) \in Nat /\ Upto(Utf16, c, i - s) \in Nat
    BY <1>0, <1>3, <1>6, ByteWeights, PrefixWeights
  <2>4. Weight(Utf16, Between(text, s, i)) \in Nat
    <3>1. PICK u \in Seq(Chars) : u = Between(text, s, i)
      BY <1>0, <1>3, <1>6, Parts
    <3>2. Len(u) \in 0..Len(u)
      BY TextIsASeq
    <3>. QED BY <3>1, <3>2, ByteWeights, PrefixWeights
  <2>5. Weight(Utf16, Between(text, s, i)) = Upto(Utf16, c, i - s)
    BY <2>1, <2>2, <2>3, <2>4
  <2>. QED BY <2>5, ByteWeights
<1>8. PICK column \in Nat :
        /\ position.line = Breaks(text, i) /\ position.character = column
        /\ \/ column = Upto(Utf16, c, i - s)
           \/ column = Upto(Utf16, c, i - s) + 1 /\ AtLineEnd(text, i)
  <2>1. ClientPosition(text, i) =
          [line |-> Breaks(text, i), character |-> Upto(Utf16, c, i - s)]
    BY <1>3, <1>7 DEF ClientPosition
  <2>2. Upto(Utf16, c, i - s) \in Nat
    BY <1>6, ByteWeights, PrefixWeights
  <2>. QED BY <2>1, <2>2 DEF Sent
<1>9. ColumnToByte(c, column) = ByteOf(c, i - s)
  <2>1. Upto(Utf16, c, i - s) \in Nat
    BY <1>6, ByteWeights, PrefixWeights
  <2>2. Upto(Utf16, c, i - s) <= column
    BY <1>8, <2>1
  <2>3. i - s = Len(c) \/ Upto(Utf16, c, i - s) = column
    BY <1>3, <1>4, <1>8
  <2>. QED BY <1>6, <2>2, <2>3, ColumnOfPlace
<1>10. ByteOf(text, s) + ByteOf(c, i - s) = ByteOf(text, i)
  <2>a. PICK w \in [Chars -> Nat] : w = Utf8
    BY ByteWeights
  <2>b. \A k \in 0..(z - s) :
          Upto(w, text, s + k) = Upto(w, text, s) + Upto(w, Between(text, s, z), k)
    BY <1>0, <1>3, PartWeights
  <2>1. \A k \in 0..(z - s) :
          Upto(Utf8, text, s + k) = Upto(Utf8, text, s) + Upto(Utf8, Between(text, s, z), k)
    BY <2>a, <2>b
  <2>2. Upto(Utf8, text, s + (i - s)) = Upto(Utf8, text, s) + Upto(Utf8, c, i - s)
    BY <1>4, <1>6, <2>1
  <2>. QED BY <1>6, <2>2, ByteWeights
<1>11. PICK k : k = Breaks(text, i) + 1
  OBVIOUS
<1>12. HasByte(position)
  BY <1>3, <1>8 DEF HasByte
<1>13. ByteForPosition(position) = ByteOf(text, s) + ColumnToByte(c, column)
  <2>1. lineIndex[k].start = ByteOf(text, s) /\ lineIndex[k].stop = ByteOf(text, z)
    BY <1>3, <1>11, Zenon
  <2>2. position.line + 1 = k
    BY <1>8, <1>11, Zenon
  <2>. QED BY <1>5, <1>8, <2>1, <2>2, Zenon DEF ByteForPosition
<1>. QED BY <1>9, <1>10, <1>12, <1>13

-----------------------------------------------------------------------------
(* Edits. *)

LEMMA EditIs ==
  ASSUME NEW t \in Seq(Chars), NEW e \in Edits(t)
  PROVE  /\ e.from \in Places(t) /\ e.to \in Places(t) /\ e.from <= e.to
         /\ e.from \in 0..Len(t) /\ e.to \in e.from..Len(t)
         /\ e.range.start \in Sent(t, e.from) /\ e.range.end \in Sent(t, e.to)
         /\ e.replacement \in Replacements
<1>1. PICK p \in Places(t) \X Places(t) :
        /\ p[1] <= p[2]
        /\ \E s \in Sent(t, p[1]), f \in Sent(t, p[2]), r \in Replacements :
             e = [from |-> p[1], to |-> p[2], range |-> [start |-> s, end |-> f],
                  replacement |-> r]
  BY DEF Edits
<1>2. e.from = p[1] /\ e.to = p[2] /\ p[1] \in Places(t) /\ p[2] \in Places(t)
  BY <1>1
<1>3. e.from \in 0..Len(t) /\ e.to \in 0..Len(t)
  BY <1>2 DEF Places
<1>4. e.to \in e.from..Len(t)
  BY <1>1, <1>2, <1>3, TextIsASeq
<1>. QED BY <1>1, <1>2, <1>3, <1>4

\* A text with another one in the place of a part.
Spliced(t, a, b, r) == Before(t, a) \o r \o After(t, b)

LEMMA SplicedText ==
  ASSUME NEW t \in Seq(Chars), NEW r \in Seq(Chars),
         NEW a \in 0..Len(t), NEW b \in a..Len(t)
  PROVE  /\ Spliced(t, a, b, r) \in Seq(Chars)
         /\ Len(Spliced(t, a, b, r)) = a + Len(r) + (Len(t) - b)
         /\ \A k \in 1..a : Spliced(t, a, b, r)[k] = t[k]
         /\ \A k \in 1..Len(r) : Spliced(t, a, b, r)[a + k] = r[k]
         /\ \A k \in 1..(Len(t) - b) : Spliced(t, a, b, r)[a + Len(r) + k] = t[b + k]
<1>0. Len(t) \in Nat /\ Len(r) \in Nat /\ b \in 0..Len(t) /\ Len(t) \in b..Len(t)
  BY TextIsASeq
<1>1. PICK u \in Seq(Chars) : /\ u = Before(t, a) /\ Len(u) = a
                              /\ \A k \in 1..a : u[k] = t[k]
  BY Beginnings
<1>2. PICK v \in Seq(Chars) : /\ v = After(t, b) /\ Len(v) = Len(t) - b
                              /\ \A k \in 1..(Len(t) - b) : v[k] = t[b + k]
  <2>1. After(t, b) = Between(t, b, Len(t))
    BY DEF After, Between
  <2>2. /\ Between(t, b, Len(t)) \in Seq(Chars) /\ Len(Between(t, b, Len(t))) = Len(t) - b
        /\ \A k \in 1..(Len(t) - b) : Between(t, b, Len(t))[k] = t[b + k]
    BY <1>0, Parts
  <2>. QED BY <2>1, <2>2
<1>3. PICK x \in Seq(Chars) :
        /\ x = u \o r /\ Len(x) = a + Len(r)
        /\ \A k \in 1..(a + Len(r)) : x[k] = IF k <= a THEN u[k] ELSE r[k - a]
  <2>1. /\ u \o r \in Seq(Chars) /\ Len(u \o r) = Len(u) + Len(r)
        /\ \A k \in 1..(Len(u) + Len(r)) :
             (u \o r)[k] = IF k <= Len(u) THEN u[k] ELSE r[k - Len(u)]
    BY ConcatProperties
  <2>2. /\ Len(u \o r) = a + Len(r)
        /\ \A k \in 1..(a + Len(r)) :
             (u \o r)[k] = IF k <= a THEN u[k] ELSE r[k - a]
    BY <1>1, <2>1
  <2>. QED BY <2>1, <2>2, Zenon
<1>4. PICK y \in Seq(Chars) :
        /\ y = x \o v /\ Len(y) = a + Len(r) + (Len(t) - b)
        /\ \A k \in 1..(a + Len(r) + (Len(t) - b)) :
             y[k] = IF k <= a + Len(r) THEN x[k] ELSE v[k - (a + Len(r))]
  <2>1. /\ x \o v \in Seq(Chars) /\ Len(x \o v) = Len(x) + Len(v)
        /\ \A k \in 1..(Len(x) + Len(v)) :
             (x \o v)[k] = IF k <= Len(x) THEN x[k] ELSE v[k - Len(x)]
    BY ConcatProperties
  <2>2. /\ Len(x \o v) = a + Len(r) + (Len(t) - b)
        /\ \A k \in 1..(a + Len(r) + (Len(t) - b)) :
             (x \o v)[k] = IF k <= a + Len(r) THEN x[k] ELSE v[k - (a + Len(r))]
    BY <1>2, <1>3, <2>1
  <2>. QED BY <2>1, <2>2, Zenon
<1>5. Spliced(t, a, b, r) = y
  BY <1>1, <1>2, <1>3, <1>4 DEF Spliced
<1>6. ASSUME NEW k \in 1..a PROVE y[k] = t[k]
  <2>1. k \in 1..(a + Len(r) + (Len(t) - b)) /\ k <= a + Len(r) /\ k \in 1..(a + Len(r))
        /\ k <= a
    BY <1>0
  <2>. QED BY <1>1, <1>3, <1>4, <2>1
<1>7. ASSUME NEW k \in 1..Len(r) PROVE y[a + k] = r[k]
  <2>1. PICK p \in 1..(a + Len(r)) : p = a + k /\ p - a = k /\ ~(p <= a)
    BY <1>0
  <2>2. p \in 1..(a + Len(r) + (Len(t) - b)) /\ p <= a + Len(r)
    BY <1>0
  <2>. QED BY <1>3, <1>4, <2>1, <2>2
<1>8. ASSUME NEW k \in 1..(Len(t) - b) PROVE y[a + Len(r) + k] = t[b + k]
  <2>1. PICK p \in 1..(a + Len(r) + (Len(t) - b)) :
          p = a + Len(r) + k /\ p - (a + Len(r)) = k /\ ~(p <= a + Len(r))
    <3>1. PICK n \in Nat : n = a + Len(r)
      BY <1>0
    <3>2. PICK d \in Nat : d = Len(t) - b
      <4>1. Len(t) - b \in Nat
        BY <1>0
      <4>. QED BY <4>1
    <3>3. n + k \in 1..(n + d) /\ n + k - n = k /\ ~(n + k <= n)
      BY <3>1, <3>2
    <3>. QED BY <3>1, <3>2, <3>3
  <2>. QED BY <1>2, <1>4, <2>1
<1>. QED BY <1>4, <1>5, <1>6, <1>7, <1>8

\* An edit that leaves CR LF together leaves every CR before its LF.
LEMMA SplicedEndsLines ==
  ASSUME NEW t \in Seq(Chars), NEW r \in Seq(Chars), EndsLines(t), EndsLines(r),
         NEW a \in 0..Len(t), NEW b \in a..Len(t), ~Inside(t, a)
  PROVE  EndsLines(Spliced(t, a, b, r))
<1>0. Len(t) \in Nat /\ Len(r) \in Nat /\ DOMAIN t = 1..Len(t) /\ DOMAIN r = 1..Len(r)
  BY TextIsASeq
<1>1. PICK y \in Seq(Chars) :
        /\ y = Spliced(t, a, b, r)
        /\ Len(y) = a + Len(r) + (Len(t) - b)
        /\ \A k \in 1..a : y[k] = t[k]
        /\ \A k \in 1..Len(r) : y[a + k] = r[k]
        /\ \A k \in 1..(Len(t) - b) : y[a + Len(r) + k] = t[b + k]
  BY SplicedText
<1>2. ASSUME NEW i \in DOMAIN y, y[i] = CR
      PROVE  i < Len(y) /\ y[i + 1] = LF
  <2>0. i \in 1..Len(y) /\ Len(y) \in Nat
    BY TextIsASeq
  <2>1. CASE i <= a
    <3>1. i \in 1..a /\ i \in 1..Len(t)
      BY <1>0, <2>0, <2>1
    <3>2. t[i] = CR /\ i < Len(t) /\ t[i + 1] = LF
      BY <1>0, <1>1, <1>2, <3>1 DEF EndsLines
    <3>3. i # a
      BY <1>0, <3>1, <3>2 DEF Inside
    <3>4. i + 1 \in 1..a /\ i < Len(y)
      BY <1>0, <1>1, <2>0, <3>1, <3>3
    <3>. QED BY <1>1, <3>2, <3>4
  <2>2. CASE a < i /\ i <= a + Len(r)
    <3>1. PICK k \in 1..Len(r) : i = a + k
      <4>1. i - a \in 1..Len(r) /\ i = a + (i - a)
        BY <1>0, <2>0, <2>2
      <4>. QED BY <4>1
    <3>2. r[k] = CR
      BY <1>1, <1>2, <3>1
    <3>3. k < Len(r) /\ r[k + 1] = LF
      BY <1>0, <3>2 DEF EndsLines
    <3>4. k + 1 \in 1..Len(r) /\ a + (k + 1) = i + 1
      BY <1>0, <3>1, <3>3
    <3>5. y[i + 1] = LF
      BY <1>1, <3>3, <3>4
    <3>6. i < Len(y)
      BY <1>0, <1>1, <3>1, <3>3
    <3>. QED BY <3>5, <3>6
  <2>3. CASE a + Len(r) < i
    <3>1. PICK k \in 1..(Len(t) - b) : i = a + Len(r) + k
      <4>1. PICK n \in Nat : n = a + Len(r)
        BY <1>0
      <4>2. PICK d \in Nat : d = Len(t) - b
        <5>1. Len(t) - b \in Nat
          BY <1>0
        <5>. QED BY <5>1
      <4>3. i - n \in 1..d /\ i = n + (i - n)
        <5>1. n < i
          BY <2>3, <4>1
        <5>2. i <= Len(y) /\ i \in Nat
          BY <2>0
        <5>3. Len(y) = n + d
          BY <1>1, <4>1, <4>2
        <5>4. i <= n + d
          BY <5>2, <5>3
        <5>. QED BY <5>1, <5>2, <5>4
      <4>. QED BY <4>1, <4>2, <4>3
    <3>2. b + k \in 1..Len(t) /\ t[b + k] = CR
      BY <1>0, <1>1, <1>2, <3>1
    <3>3. b + k < Len(t) /\ t[b + k + 1] = LF
      BY <1>0, <3>2 DEF EndsLines
    <3>4. k + 1 \in 1..(Len(t) - b) /\ b + (k + 1) = b + k + 1
          /\ a + Len(r) + (k + 1) = i + 1
      BY <1>0, <3>1, <3>3
    <3>5. y[i + 1] = LF
      BY <1>1, <3>3, <3>4
    <3>6. i < Len(y)
      BY <1>0, <1>1, <3>1, <3>4
    <3>. QED BY <3>5, <3>6
  <2>. QED BY <1>0, <2>0, <2>1, <2>2, <2>3
<1>. QED BY <1>1, <1>2 DEF EndsLines

\* The server makes the edit that the editor made.
LEMMA EditArrives ==
  ASSUME TextInv, NEW e \in Edits(text)
  PROVE  /\ ByteForPosition(e.range.start) = ByteOf(text, e.from)
         /\ ByteForPosition(e.range.end) = ByteOf(text, e.to)
         /\ EditedBuffer(e) = Spliced(text, e.from, e.to, e.replacement)
         /\ ApplyIncrementalChange(e.range, e.replacement) =>
              text' = EditedBuffer(e) /\ lineIndex' = IndexOf(text')
<1>0. /\ text \in Seq(Chars) /\ Len(text) \in Nat /\ buffer = text
      /\ e.from \in Places(text) /\ e.to \in Places(text)
      /\ e.from \in 0..Len(text) /\ e.to \in e.from..Len(text)
      /\ e.range.start \in Sent(text, e.from) /\ e.range.end \in Sent(text, e.to)
  BY TextIsASeq, EditIs DEF TextInv
<1>1. HasByte(e.range.start) /\ ByteForPosition(e.range.start) = ByteOf(text, e.from)
  BY <1>0, ByteOfSent
<1>2. HasByte(e.range.end) /\ ByteForPosition(e.range.end) = ByteOf(text, e.to)
  BY <1>0, ByteOfSent
<1>3. EditedBuffer(e) = Spliced(text, e.from, e.to, e.replacement)
  BY <1>0 DEF EditedBuffer, Spliced
<1>4. e.to \in 0..Len(text) /\ ~(e.to < e.from)
  BY <1>0
<1>5. ByteOf(text, e.from) <= ByteOf(text, e.to)
  BY <1>0, <1>4, BytesOfPlaces
<1>6. Resolves(e.range)
  BY <1>1, <1>2, <1>5 DEF Resolves
<1>7. /\ FloorChar(text, ByteOf(text, e.from)) = e.from
      /\ FloorChar(text, ByteOf(text, e.to)) = e.to
  BY <1>0, <1>4, FloorOfPlace
<1>8. ASSUME ApplyIncrementalChange(e.range, e.replacement)
      PROVE  text' = EditedBuffer(e) /\ lineIndex' = IndexOf(text')
  <2>1. SetText(Before(text, e.from) \o e.replacement \o After(text, e.to))
    BY <1>1, <1>2, <1>6, <1>7, <1>8 DEF ApplyIncrementalChange
  <2>2. text' = Spliced(text, e.from, e.to, e.replacement) /\ lineIndex' = IndexOf(text')
    BY <2>1 DEF SetText, Spliced
  <2>. QED BY <1>3, <2>2
<1>. QED BY <1>1, <1>2, <1>3, <1>8

LEMMA SentTexts ==
  \A t \in Replacements \cup Documents : t \in Seq(Chars) /\ EndsLines(t)
BY SourceTextAssumption

\* TextInv holds at all times.
THEOREM TextAlwaysInv == Spec => []TextInv
<1>1. Init => TextInv
  BY SentTexts DEF Init, TextInv
<1>2. ASSUME TextInv, [Next]_vars PROVE TextInv'
  <2>1. CASE Edit
    <3>1. PICK e \in Edits(buffer) :
            /\ buffer' = EditedBuffer(e)
            /\ ApplyIncrementalChange(e.range, e.replacement)
      BY <2>1 DEF Edit
    <3>2. text \in Seq(Chars) /\ EndsLines(text) /\ buffer = text /\ e \in Edits(text)
      BY <1>2, <3>1 DEF TextInv
    <3>3. text' = EditedBuffer(e) /\ lineIndex' = IndexOf(text')
      BY <1>2, <3>1, <3>2, EditArrives
    <3>4. EditedBuffer(e) = Spliced(text, e.from, e.to, e.replacement)
      BY <1>2, <3>2, EditArrives
    <3>5. /\ e.from \in Places(text) /\ e.from \in 0..Len(text)
          /\ e.to \in e.from..Len(text) /\ e.replacement \in Replacements
      BY <3>2, EditIs
    <3>6. /\ ~Inside(text, e.from)
          /\ e.replacement \in Seq(Chars) /\ EndsLines(e.replacement)
      BY <3>5, SentTexts DEF Places
    <3>7. Spliced(text, e.from, e.to, e.replacement) \in Seq(Chars)
      BY <3>2, <3>5, <3>6, SplicedText
    <3>8. EndsLines(Spliced(text, e.from, e.to, e.replacement))
      BY <3>2, <3>5, <3>6, SplicedEndsLines
    <3>9. text' \in Seq(Chars) /\ EndsLines(text')
      BY <3>3, <3>4, <3>7, <3>8
    <3>10. EndsLines(text)'
      BY <3>9 DEF EndsLines
    <3>. QED BY <3>1, <3>3, <3>9, <3>10 DEF TextInv, IndexOf
  <2>2. CASE Resend
    BY <2>2, SentTexts DEF Resend, SetText, TextInv
  <2>3. CASE UNCHANGED vars
    BY <1>2, <2>3 DEF vars, TextInv, IndexOf, EndsLines
  <2>. QED BY <1>2, <2>1, <2>2, <2>3 DEF Next
<1>. QED BY <1>1, <1>2, PTL DEF Spec

\* After any edits of any text the server has the editor's text: every change
\* that apply_incremental_change is sent resolves, to the places it means.
THEOREM AlwaysSameText == Spec => []SameText
<1>1. TextInv => SameText
  BY DEF TextInv, SameText
<1>. QED BY <1>1, TextAlwaysInv, PTL

\* position_for_byte gives every byte the position that the editor takes for
\* the same place.
THEOREM PositionsAlwaysAgree == Spec => []PositionsAgree
<1>1. TextInv => PositionsAgree
  <2>. SUFFICES ASSUME TextInv, NEW i \in 0..Len(text),
                       NEW byte \in ByteOf(text, i)..(IF i = Len(text) THEN Bytes(text) + 1
                                                      ELSE ByteOf(text, i + 1) - 1)
                PROVE  PositionForByte(byte) =
                         ClientPosition(text, IF Inside(text, i) THEN i - 1 ELSE i)
    BY DEF PositionsAgree
  <2>0. text \in Seq(Chars) /\ Len(text) \in Nat
    BY TextIsASeq DEF TextInv
  <2>1. ByteOf(text, i) \in Nat /\ byte \in Int /\ ByteOf(text, i) <= byte
    BY <2>0, BytesOfPlaces
  <2>2. i = Len(text) \/ byte < ByteOf(text, i + 1)
    <3>1. CASE i # Len(text)
      <4>1. i + 1 \in 0..Len(text) /\ byte <= ByteOf(text, i + 1) - 1
        BY <2>0, <3>1
      <4>2. ByteOf(text, i + 1) \in Nat
        BY <2>0, <4>1, BytesOfPlaces
      <4>. QED BY <2>1, <4>1, <4>2
    <3>. QED BY <3>1
  <2>. QED BY <2>1, <2>2, PositionOfByte
<1>. QED BY <1>1, TextAlwaysInv, PTL

-----------------------------------------------------------------------------
(* The new end of an edit. *)

\* Weights in a text with another one in the place of a part.
LEMMA SplicedWeights ==
  ASSUME NEW w \in [Chars -> Nat], NEW t \in Seq(Chars), NEW r \in Seq(Chars),
         NEW a \in 0..Len(t), NEW b \in a..Len(t)
  PROVE  /\ \A k \in 0..a : Upto(w, Spliced(t, a, b, r), k) = Upto(w, t, k)
         /\ \A k \in 0..Len(r) : Upto(w, Spliced(t, a, b, r), a + k) =
                                   Upto(w, t, a) + Upto(w, r, k)
<1>0. Len(t) \in Nat /\ Len(r) \in Nat
  BY TextIsASeq
<1>1. PICK y \in Seq(Chars) :
        /\ y = Spliced(t, a, b, r)
        /\ Len(y) = a + Len(r) + (Len(t) - b)
        /\ \A k \in 1..a : y[k] = t[k]
        /\ \A k \in 1..Len(r) : y[a + k] = r[k]
  BY SplicedText
<1>2. Len(y) \in Nat /\ a + Len(r) <= Len(y) /\ a \in 0..Len(y) /\ 0 \in 0..Len(y)
  BY <1>0, <1>1
<1>3. ASSUME NEW k \in 0..a PROVE Upto(w, y, k) = Upto(w, t, k)
  <2>1. k \in 0..Len(t) /\ 0 + k <= Len(y) /\ 0 + k = k
    BY <1>0, <1>2
  <2>2. \A l \in 1..k : y[0 + l] = t[l]
    <3>1. \A l \in 1..k : l \in 1..a /\ 0 + l = l
      BY <1>0
    <3>. QED BY <1>1, <3>1
  <2>3. Upto(w, y, 0 + k) = Upto(w, y, 0) + Upto(w, t, k)
    BY <1>2, <2>1, <2>2, WeightsShift
  <2>4. Upto(w, y, 0) = 0 /\ Upto(w, t, k) \in Nat
    BY <2>1, PrefixWeights
  <2>. QED BY <2>1, <2>3, <2>4
<1>4. ASSUME NEW k \in 0..Len(r) PROVE Upto(w, y, a + k) = Upto(w, t, a) + Upto(w, r, k)
  <2>1. a + k <= Len(y) /\ \A l \in 1..k : l \in 1..Len(r)
    BY <1>0, <1>2
  <2>2. \A l \in 1..k : y[a + l] = r[l]
    BY <1>1, <2>1
  <2>3. Upto(w, y, a + k) = Upto(w, y, a) + Upto(w, r, k)
    BY <1>2, <2>1, <2>2, WeightsShift
  <2>4. Upto(w, y, a) = Upto(w, t, a)
    BY <1>0, <1>3
  <2>. QED BY <2>3, <2>4
<1>. QED BY <1>1, <1>3, <1>4

LEMMA SameRest == \A x, d, f, n \in Nat : x + d = (x + f) + n => d = f + n
  OBVIOUS

\* advance_point counts what the new text counts.
LEMMA AdvancedPoint ==
  ASSUME NEW t \in Seq(Chars), NEW r \in Seq(Chars),
         NEW a \in 0..Len(t), NEW b \in a..Len(t)
  PROVE  AdvancePoint(PointOf(t, a), r) = PointOf(Spliced(t, a, b, r), a + Len(r))
<1>0. /\ Len(t) \in Nat /\ Len(r) \in Nat
      /\ Len(r) \in 0..Len(r) /\ 0 \in 0..Len(r) /\ a \in 0..a
  BY TextIsASeq
<1>1. PICK y \in Seq(Chars) :
        /\ y = Spliced(t, a, b, r)
        /\ Len(y) = a + Len(r) + (Len(t) - b)
        /\ \A k \in 1..a : y[k] = t[k]
        /\ \A k \in 1..Len(r) : y[a + k] = r[k]
  BY SplicedText
<1>2. PICK end \in 0..Len(y) : end = a + Len(r)
  <2>1. Len(y) \in Nat /\ a + Len(r) \in 0..Len(y)
    BY <1>0, <1>1
  <2>. QED BY <2>1
<1>3. Breaks(y, end) = Breaks(t, a) + Breaks(r, Len(r))
  <2>a. PICK w \in [Chars -> Nat] : w = LineEnds
    BY LineEndsAreWeights
  <2>b. \A k \in 0..Len(r) : Upto(w, Spliced(t, a, b, r), a + k) = Upto(w, t, a) + Upto(w, r, k)
    BY SplicedWeights
  <2>1. Upto(LineEnds, y, a + Len(r)) = Upto(LineEnds, t, a) + Upto(LineEnds, r, Len(r))
    BY <1>0, <1>1, <2>a, <2>b
  <2>. QED BY <1>0, <1>2, <2>1, BreaksAreWeights
<1>4. /\ \A k \in 0..a : ByteOf(y, k) = ByteOf(t, k)
      /\ \A k \in 0..Len(r) : ByteOf(y, a + k) = ByteOf(t, a) + ByteOf(r, k)
  <2>0. Utf8 \in [Chars -> Nat]
    BY ByteWeights
  <2>1. \A k \in 0..a : Upto(Utf8, y, k) = Upto(Utf8, t, k)
    BY <1>1, <2>0, SplicedWeights
  <2>2. \A k \in 0..Len(r) : Upto(Utf8, Spliced(t, a, b, r), a + k) =
                             Upto(Utf8, t, a) + Upto(Utf8, r, k)
    BY <2>0, SplicedWeights
  <2>. QED BY <1>1, <2>1, <2>2, ByteWeights
<1>5. Bytes(r) = ByteOf(r, Len(r)) /\ \A k \in 0..Len(r) : ByteOf(r, k) \in Nat
  BY BytesOfPlaces
<1>6. CASE Breaks(r, Len(r)) = 0
  <2>1. PICK s \in 0..a : /\ s = LineStart(t, a) /\ Starts(t, s)
                          /\ \A k \in (s + 1)..a : t[k] # LF
    BY LineStartIs
  <2>2. \A k \in 1..Len(r) : r[k] # LF
    <3>1. Breaks(r, 0) = Breaks(r, Len(r))
      BY <1>6, BreakSteps
    <3>2. \A k \in (0 + 1)..Len(r) : r[k] # LF
      BY <1>0, <3>1, BreaksCount
    <3>. QED BY <3>2
  <2>3. LineStart(y, end) = s
    <3>1. s \in 0..end
      BY <1>0, <1>2
    <3>2. Starts(y, s)
      BY <1>0, <1>1, <2>1 DEF Starts
    <3>3. ASSUME NEW k \in (s + 1)..end PROVE y[k] # LF
      <4>1. CASE k <= a
        <5>1. k \in 1..a /\ k \in (s + 1)..a
          BY <1>0, <4>1
        <5>. QED BY <1>1, <2>1, <5>1
      <4>2. CASE a < k
        <5>1. k - a \in 1..Len(r) /\ a + (k - a) = k
          BY <1>0, <1>2, <4>2
        <5>2. y[a + (k - a)] = r[k - a]
          BY <1>1, <5>1
        <5>. QED BY <2>2, <5>1, <5>2
      <4>. QED BY <1>0, <4>1, <4>2
    <3>. QED BY <3>1, <3>2, <3>3, LineStartOnly
  <2>4. Bytes(Between(y, s, end)) = Bytes(Between(t, s, a)) + Bytes(r)
    <3>1. PICK u \in Seq(Chars), v \in Seq(Chars) : u = Between(y, s, end) /\ v = Between(t, s, a)
      <4>1. s \in 0..Len(y) /\ end \in s..Len(y) /\ s \in 0..Len(t) /\ a \in s..Len(t)
        BY <1>0, <1>2
      <4>2. Between(y, s, end) \in Seq(Chars) /\ Between(t, s, a) \in Seq(Chars)
        BY <4>1, Parts
      <4>. QED BY <4>2
    <3>2. Bytes(u) \in Nat /\ Bytes(v) \in Nat
      <4>1. Len(u) \in 0..Len(u) /\ Len(v) \in 0..Len(v)
        BY TextIsASeq
      <4>. QED BY <4>1, BytesOfPlaces
    <3>3. ByteOf(y, end) = ByteOf(y, s) + Bytes(u)
      <4>1. s \in 0..Len(y) /\ end \in s..Len(y)
        BY <1>0, <1>2
      <4>. QED BY <3>1, <4>1, BytesOfPlaces
    <3>4. ByteOf(t, a) = ByteOf(t, s) + Bytes(v)
      <4>1. s \in 0..Len(t) /\ a \in s..Len(t)
        BY <1>0
      <4>. QED BY <3>1, <4>1, BytesOfPlaces
    <3>5. ByteOf(y, end) = ByteOf(t, a) + Bytes(r) /\ ByteOf(y, s) = ByteOf(t, s)
      BY <1>0, <1>2, <1>4, <1>5
    <3>6. ByteOf(t, s) \in Nat /\ Bytes(r) \in Nat
      <4>1. s \in 0..Len(t)
        BY <1>0
      <4>. QED BY <1>0, <1>5, <4>1, BytesOfPlaces
    <3>7. Bytes(u) = Bytes(v) + Bytes(r)
      <4>1. PICK x \in Nat, n \in Nat, d \in Nat, f \in Nat :
              /\ x = ByteOf(t, s) /\ n = Bytes(r) /\ d = Bytes(u) /\ f = Bytes(v)
        BY <3>2, <3>6
      <4>2. x + d = (x + f) + n
        BY <3>3, <3>4, <3>5, <4>1
      <4>3. d = f + n
        BY <4>2, SameRest
      <4>. QED BY ONLY <4>1, <4>3
    <3>. QED BY <3>1, <3>7
  <2>5. PointOf(y, end) =
          [row |-> Breaks(t, a) + 0, column |-> Bytes(Between(t, s, a)) + Bytes(r)]
    BY <1>3, <1>6, <2>3, <2>4 DEF PointOf
  <2>6. AdvancePoint(PointOf(t, a), r) =
          [row |-> Breaks(t, a), column |-> Bytes(Between(t, s, a)) + Bytes(r)]
    BY <1>6, <2>1 DEF AdvancePoint, PointOf
  <2>7. Breaks(t, a) + 0 = Breaks(t, a)
    BY BreaksAreWeights
  <2>. QED BY <1>1, <1>2, <2>5, <2>6, <2>7
<1>7. CASE Breaks(r, Len(r)) # 0
  <2>. DEFINE ends == {i \in DOMAIN r : r[i] = LF}
  <2>1. DOMAIN r = 1..Len(r)
    BY TextIsASeq
  <2>2. ends # {}
    <3>1. CASE \A k \in 1..Len(r) : r[k] # LF
      <4>1. \A k \in (0 + 1)..Len(r) : r[k] # LF
        BY <3>1
      <4>2. Breaks(r, 0) = Breaks(r, Len(r))
        BY <1>0, <4>1, BreaksCount
      <4>. QED BY <1>7, <4>2, BreakSteps
    <3>. QED BY <2>1, <3>1
  <2>3. PICK m \in 1..Len(r) : /\ m = Max(ends) /\ r[m] = LF
                               /\ \A k \in (m + 1)..Len(r) : r[k] # LF
    <3>1. ends \subseteq 0..Len(r)
      BY <1>0, <2>1
    <3>2. Max(ends) \in ends /\ \A k \in ends : k <= Max(ends)
      <4>. HIDE DEF ends
      <4>. QED BY <1>0, <2>2, <3>1, MaxIsGreatest
    <3>3. Max(ends) \in 1..Len(r) /\ r[Max(ends)] = LF
      BY <2>1, <3>2
    <3>4. ASSUME NEW k \in (Max(ends) + 1)..Len(r) PROVE r[k] # LF
      <4>1. k \in 1..Len(r) /\ ~(k <= Max(ends))
        BY <1>0, <3>3
      <4>. QED BY <2>1, <3>2, <4>1
    <3>. HIDE DEF ends
    <3>. QED BY <3>3, <3>4
  <2>4. PICK s \in 0..Len(y) : s = a + m /\ s \in 0..end /\ s # 0 /\ end \in s..Len(y)
    <3>1. a + m \in 0..Len(y) /\ a + m \in 0..end /\ a + m # 0 /\ end \in (a + m)..Len(y)
      BY <1>0, <1>1, <1>2
    <3>. QED BY <3>1
  <2>5. LineStart(y, end) = s
    <3>1. Starts(y, s)
      BY <1>1, <2>3, <2>4 DEF Starts
    <3>2. ASSUME NEW k \in (s + 1)..end PROVE y[k] # LF
      <4>1. k - a \in 1..Len(r) /\ a + (k - a) = k /\ k - a \in (m + 1)..Len(r)
        BY <1>0, <1>2, <2>4
      <4>2. y[a + (k - a)] = r[k - a]
        BY <1>1, <4>1
      <4>. QED BY <2>3, <4>1, <4>2
    <3>. QED BY <2>4, <3>1, <3>2, LineStartOnly
  <2>6. Bytes(Between(y, s, end)) = Bytes(After(r, m))
    <3>0. m \in 0..Len(r) /\ Len(r) \in m..Len(r)
      BY <1>0
    <3>1. PICK u \in Seq(Chars), v \in Seq(Chars) :
            u = Between(y, s, end) /\ v = After(r, m) /\ v = Between(r, m, Len(r))
      <4>1. Between(y, s, end) \in Seq(Chars) /\ Between(r, m, Len(r)) \in Seq(Chars)
        BY <2>4, <3>0, Parts
      <4>2. After(r, m) = Between(r, m, Len(r))
        BY DEF After, Between
      <4>. QED BY <4>1, <4>2
    <3>2. Bytes(u) \in Nat /\ Bytes(v) \in Nat
      <4>1. Len(u) \in 0..Len(u) /\ Len(v) \in 0..Len(v)
        BY TextIsASeq
      <4>. QED BY <4>1, BytesOfPlaces
    <3>3. ByteOf(y, end) = ByteOf(y, s) + Bytes(u)
      BY <2>4, <3>1, BytesOfPlaces
    <3>4. ByteOf(r, Len(r)) = ByteOf(r, m) + Bytes(v)
      BY <3>0, <3>1, BytesOfPlaces
    <3>5. /\ ByteOf(y, end) = ByteOf(t, a) + ByteOf(r, Len(r))
          /\ ByteOf(y, s) = ByteOf(t, a) + ByteOf(r, m)
      BY <1>0, <1>2, <1>4, <2>4, <3>0
    <3>6. ByteOf(t, a) \in Nat /\ ByteOf(r, m) \in Nat
      BY <1>5, <3>0, BytesOfPlaces
    <3>7. Bytes(u) = Bytes(v)
      <4>1. PICK A \in Nat, B \in Nat, U \in Nat, V \in Nat :
              A = ByteOf(t, a) /\ B = ByteOf(r, m) /\ U = Bytes(u) /\ V = Bytes(v)
        BY <3>2, <3>6
      <4>2. A + (B + V) = (A + B) + U
        BY <3>3, <3>4, <3>5, <4>1
      <4>3. U = V
        BY <4>2
      <4> QED BY <4>1, <4>3
    <3>. QED BY <3>1, <3>7
  <2>7. PointOf(y, end) =
          [row |-> Breaks(t, a) + Breaks(r, Len(r)), column |-> Bytes(After(r, m))]
    BY <1>3, <2>5, <2>6 DEF PointOf
  <2>8. AdvancePoint(PointOf(t, a), r) =
          [row |-> Breaks(t, a) + Breaks(r, Len(r)), column |-> Bytes(After(r, m))]
    BY <1>7, <2>3 DEF AdvancePoint, PointOf
  <2>. QED BY <1>1, <1>2, <2>7, <2>8
<1>. QED BY <1>6, <1>7

\* The InputEdit that tree-sitter is told of has the bytes and the points of the
\* edit that happens, whatever line ends and wide characters it puts in or takes
\* out.
THEOREM TreeEditsAlwaysFit == Spec => []TreeEditsFit
<1>1. TextInv => TreeEditsFit
  <2>. SUFFICES ASSUME TextInv, NEW e \in Edits(buffer)
                PROVE  LET edit == InputEdit(e.range, e.replacement)
                           new  == EditedBuffer(e)
                           end  == e.from + Len(e.replacement)
                       IN  /\ edit.startByte = ByteOf(text, e.from)
                           /\ edit.oldEndByte = ByteOf(text, e.to)
                           /\ edit.newEndByte = ByteOf(new, end)
                           /\ edit.startPoint = PointOf(text, e.from)
                           /\ edit.oldEndPoint = PointOf(text, e.to)
                           /\ edit.newEndPoint = PointOf(new, end)
    BY DEF TreeEditsFit
  <2>0. text \in Seq(Chars) /\ Len(text) \in Nat /\ e \in Edits(text)
    BY TextIsASeq DEF TextInv
  <2>1. PICK a \in 0..Len(text) : a = e.from
    BY <2>0, EditIs
  <2>2. PICK b \in a..Len(text) : b = e.to /\ b \in 0..Len(text)
    <3>1. e.to \in a..Len(text)
      BY <2>0, <2>1, EditIs
    <3>2. e.to \in 0..Len(text)
      BY <2>0, <3>1
    <3>. QED BY <3>1, <3>2
  <2>3. PICK r \in Seq(Chars) : r = e.replacement
    BY <2>0, EditIs, SentTexts
  <2>4. /\ ByteForPosition(e.range.start) = ByteOf(text, a)
        /\ ByteForPosition(e.range.end) = ByteOf(text, b)
        /\ EditedBuffer(e) = Spliced(text, a, b, r)
    BY <2>0, <2>1, <2>2, <2>3, EditArrives
  <2>5. /\ PointForByte(ByteOf(text, a)) = PointOf(text, a)
        /\ PointForByte(ByteOf(text, b)) = PointOf(text, b)
    BY <2>2, PointOfPlace
  <2>6. ByteOf(Spliced(text, a, b, r), a + Len(r)) = ByteOf(text, a) + Bytes(r)
    <3>1. Len(r) \in 0..Len(r)
      BY TextIsASeq
    <3>2. Upto(Utf8, Spliced(text, a, b, r), a + Len(r)) =
            Upto(Utf8, text, a) + Upto(Utf8, r, Len(r))
      <4>a. PICK w \in [Chars -> Nat] : w = Utf8
        BY ByteWeights
      <4>b. \A k \in 0..Len(r) : Upto(w, Spliced(text, a, b, r), a + k) = Upto(w, text, a) + Upto(w, r, k)
        BY <2>0, SplicedWeights
      <4>1. \A k \in 0..Len(r) : Upto(Utf8, Spliced(text, a, b, r), a + k) =
                                 Upto(Utf8, text, a) + Upto(Utf8, r, k)
        BY <4>a, <4>b
      <4>. QED BY <3>1, <4>1
    <3>. QED BY <3>2, ByteWeights, PrefixWeights
  <2>7. AdvancePoint(PointOf(text, a), r) = PointOf(Spliced(text, a, b, r), a + Len(r))
    BY <2>0, AdvancedPoint
  <2>8. InputEdit(e.range, r) =
          [startByte |-> ByteOf(text, a), oldEndByte |-> ByteOf(text, b),
           newEndByte |-> ByteOf(text, a) + Bytes(r),
           startPoint |-> PointOf(text, a), oldEndPoint |-> PointOf(text, b),
           newEndPoint |-> AdvancePoint(PointOf(text, a), r)]
    BY <2>4, <2>5 DEF InputEdit
  <2>. QED BY <2>1, <2>2, <2>3, <2>4, <2>6, <2>7, <2>8
<1>. QED BY <1>1, TextAlwaysInv, PTL

-----------------------------------------------------------------------------
(* Semantic tokens.  Spans, the pieces of them that lie in a line and what is  *)
(* sent come one after the other: they tile what they are taken from.          *)

\* What FlattenSeq computes, piece by piece.
LEMMA FlattenUnfolds ==
  ASSUME NEW ss, Len(ss) \in Nat \ {0}
  PROVE  \E r : /\ r[1] = ss[1] /\ FlattenSeq(ss) = r[Len(ss)]
                /\ \A i \in 2..Len(ss) : r[i] = r[i - 1] \o ss[i]
<1> DEFINE N == Len(ss)
           step(f, k) == IF k = 1 THEN ss[k] ELSE f[k - 1] \o ss[k]
           upTo(k, f) == f = [j \in 1..k |-> step(f, j)]
           P == {k \in 0..N : \E f : upTo(k, f)}
<1>1. N \in P
  <2>1. 0 \in P
    <3> DEFINE f == [j \in 1..0 |-> ss]
    <3>1. f = [j \in 1..0 |-> step(f, j)]
      <4>1. \A j \in 1..0 : step(f, j) = ss
        OBVIOUS
      <4> QED BY <4>1
    <3>2. 0 \in 0..N /\ upTo(0, f)
      BY <3>1
    <3> HIDE DEF upTo, f
    <3> QED BY <3>2
  <2>2. ASSUME NEW m \in 1..N, m \notin P, m - 1 \in P PROVE FALSE
    <3>1. PICK f : upTo(m - 1, f)
      BY <2>2
    <3>2. \A j \in 1..(m - 1) : f[j] = step(f, j)
      BY <3>1
    <3> DEFINE h == [j \in 1..m |-> IF j = m THEN step(f, j) ELSE f[j]]
    <3>3. ASSUME NEW j \in 1..m PROVE h[j] = step(h, j)
      <4>1. h[j] = step(f, j)
        <5>1. CASE j = m
          BY <5>1
        <5>2. CASE j # m
          <6>1. j \in 1..(m - 1)
            BY <5>2
          <6> QED BY <3>2, <5>2, <6>1
        <5> QED BY <5>1, <5>2
      <4>2. j > 1 => h[j - 1] = f[j - 1]
        OBVIOUS
      <4> HIDE DEF h
      <4> QED BY <4>1, <4>2
    <3>4. h = [j \in 1..m |-> h[j]]
      OBVIOUS
    <3> HIDE DEF step, h
    <3>5. h = [j \in 1..m |-> step(h, j)]
      BY <3>3, <3>4
    <3>6. upTo(m, h) /\ m \in 0..N
      BY <3>5, <2>2
    <3> QED BY <2>2, <3>6
  <2> HIDE DEF P
  <2> QED BY <2>1, <2>2, FirstFailure
<1> DEFINE r == CHOOSE f : f = [j \in 1..N |-> step(f, j)]
<1>2. r = [j \in 1..N |-> step(r, j)]
  <2>1. \E f : f = [j \in 1..N |-> step(f, j)]
    BY <1>1
  <2> HIDE DEF step
  <2> QED BY <2>1
<1>3. FlattenSeq(ss) = r[N]
  BY DEF FlattenSeq
<1> HIDE DEF r
<1>4. \A j \in 1..N : r[j] = step(r, j)
  BY <1>2
<1>5. r[1] = ss[1]
  BY <1>4
<1>6. ASSUME NEW i \in 2..N PROVE r[i] = r[i - 1] \o ss[i]
  <2>1. i \in 1..N /\ i # 1
    OBVIOUS
  <2> QED BY <1>4, <2>1
<1> HIDE DEF step, upTo, P
<1> QED BY <1>3, <1>5, <1>6

Tiles(s, a, b) ==
  /\ \A k \in 1..Len(s) : a <= s[k].from /\ s[k].from < s[k].to /\ s[k].to <= b
  /\ \A k \in 1..Len(s) : \A j \in 1..(k - 1) : s[j].to <= s[k].from

LEMMA TilesJoin ==
  ASSUME NEW S, \A x \in S : x.from \in Nat /\ x.to \in Nat,
         NEW s \in Seq(S), NEW t \in Seq(S), NEW a \in Nat, NEW b \in Nat, NEW c \in Nat,
         a <= b, b <= c, Tiles(s, a, b), Tiles(t, b, c)
  PROVE  s \o t \in Seq(S) /\ Tiles(s \o t, a, c)
<1> DEFINE u == s \o t  M == Len(s)  N == Len(t)
<1>1. /\ u \in Seq(S) /\ Len(u) = M + N /\ M \in Nat /\ N \in Nat
      /\ \A i \in 1..(M + N) : u[i] = IF i <= M THEN s[i] ELSE t[i - M]
      /\ \A i \in 1..M : s[i] \in S
      /\ \A i \in 1..N : t[i] \in S
  BY ConcatProperties, LenProperties, ElementOfSeq
<1> HIDE DEF u, M, N
<1>2. \A i \in 1..M : a <= s[i].from /\ s[i].from < s[i].to /\ s[i].to <= b
  BY DEF Tiles, M
<1>3. \A i \in 1..N : b <= t[i].from /\ t[i].from < t[i].to /\ t[i].to <= c
  BY DEF Tiles, N
<1>4. ASSUME NEW k \in 1..(M + N) PROVE a <= u[k].from /\ u[k].from < u[k].to /\ u[k].to <= c
  <2>1. CASE k <= M
    <3>1. k \in 1..M /\ u[k] = s[k] /\ s[k].from \in Nat /\ s[k].to \in Nat
      BY <1>1, <2>1
    <3> QED BY <1>2, <3>1
  <2>2. CASE k > M
    <3>1. k - M \in 1..N /\ u[k] = t[k - M] /\ t[k - M].from \in Nat /\ t[k - M].to \in Nat
      BY <1>1, <2>2
    <3> QED BY <1>3, <3>1
  <2> QED BY <1>1, <2>1, <2>2
<1>5. ASSUME NEW k \in 1..(M + N), NEW j \in 1..(k - 1) PROVE u[j].to <= u[k].from
  <2>1. CASE k <= M
    <3>1. k \in 1..M /\ u[k] = s[k] /\ u[j] = s[j]
      BY <1>1, <2>1
    <3> QED BY <3>1 DEF Tiles, M
  <2>2. CASE k > M /\ j <= M
    <3>1. PICK m \in 1..N : m = k - M
      BY <1>1, <2>2
    <3>2. j \in 1..M
      BY <1>1, <2>2
    <3>a. u[k] = t[m]
      BY <1>1, <2>2, <3>1
    <3>3. u[k] = t[m] /\ t[m] \in S /\ b <= t[m].from
      BY <1>1, <1>3, <3>a
    <3>4. u[j] = s[j] /\ s[j] \in S /\ s[j].to <= b
      BY <1>1, <1>2, <2>2, <3>2
    <3>5. t[m].from \in Nat /\ s[j].to \in Nat
      BY <3>3, <3>4
    <3> QED BY <3>3, <3>4, <3>5
  <2>3. CASE j > M
    <3>a. k - M \in 1..N /\ j - M \in 1..((k - M) - 1) /\ j \in 1..(M + N) /\ ~(j <= M) /\ ~(k <= M)
      BY <1>1, <2>3
    <3>1. k - M \in 1..N /\ u[k] = t[k - M] /\ u[j] = t[j - M] /\ j - M \in 1..((k - M) - 1)
      BY <1>1, <3>a
    <3> QED BY <3>1 DEF Tiles, N
  <2> QED BY <1>1, <2>1, <2>2, <2>3
<1> QED BY <1>1, <1>4, <1>5 DEF Tiles, u

LEMMA TilesEmpty == \A a, b : Tiles(<<>>, a, b)
BY EmptySeq DEF Tiles

LEMMA TilesWiden ==
  ASSUME NEW S, \A x \in S : x.from \in Nat /\ x.to \in Nat, NEW s \in Seq(S),
         NEW a \in Nat, NEW b \in Nat, NEW c \in Nat, NEW d \in Nat, c <= a, b <= d, Tiles(s, a, b)
  PROVE  Tiles(s, c, d)
<1>1. \A k \in 1..Len(s) : s[k].from \in Nat /\ s[k].to \in Nat
  BY ElementOfSeq
<1> QED BY <1>1 DEF Tiles

\* Tiles put one after the other tile the whole, and are all there is.
LEMMA FlattenTiles ==
  ASSUME NEW S, \A x \in S : x.from \in Nat /\ x.to \in Nat, NEW ss \in Seq(Seq(S)),
         NEW b, b[0] \in Nat,
         \A k \in 1..Len(ss) : b[k] \in Nat /\ b[k - 1] <= b[k] /\ Tiles(ss[k], b[k - 1], b[k])
  PROVE  /\ FlattenSeq(ss) \in Seq(S) /\ Tiles(FlattenSeq(ss), b[0], b[Len(ss)])
         /\ ToSet(FlattenSeq(ss)) = UNION {ToSet(ss[k]) : k \in 1..Len(ss)}
<1> DEFINE N == Len(ss)
<1>0. N \in Nat /\ DOMAIN ss = 1..N /\ \A k \in 1..N : ss[k] \in Seq(S)
  BY LenProperties, ElementOfSeq
<1>1. CASE N = 0
  <2>1. ss = <<>>
    BY <1>0, <1>1, EmptySeq
  <2>2. FlattenSeq(ss) = <<>> /\ <<>> \in Seq(S) /\ ToSet(<<>>) = {}
    BY <1>1, <2>1, EmptySeq DEF FlattenSeq, ToSet
  <2> QED BY <1>1, <2>2, TilesEmpty
<1>2. CASE N > 0
  <2>1. PICK r : /\ r[1] = ss[1] /\ FlattenSeq(ss) = r[N]
                 /\ \A i \in 2..N : r[i] = r[i - 1] \o ss[i]
    <3>1. Len(ss) \in Nat \ {0}
      BY <1>0, <1>2
    <3> QED BY <3>1, FlattenUnfolds, Zenon
  <2> DEFINE good(k) == /\ r[k] \in Seq(S) /\ b[k] \in Nat /\ b[0] <= b[k] /\ Tiles(r[k], b[0], b[k])
                        /\ Range(r[k]) = UNION {Range(ss[j]) : j \in 1..k}
             P == {k \in 0..N : k = 0 \/ good(k)}
  <2>2. 0 \in P
    BY <1>0
  <2>3. ASSUME NEW m \in 1..N, m \notin P, m - 1 \in P PROVE FALSE
    <3>1. CASE m = 1
      <4>1. b[0] \in Nat /\ b[1] \in Nat /\ b[0] <= b[1] /\ Tiles(ss[1], b[0], b[1]) /\ ss[1] \in Seq(S)
        BY <1>0, <3>1
      <4>2. UNION {Range(ss[j]) : j \in 1..1} = Range(ss[1])
        <5>1. \A j : j \in 1..1 <=> j = 1
          OBVIOUS
        <5> QED BY <5>1
      <4>3. good(1)
        BY <2>1, <4>1, <4>2
      <4> HIDE DEF good
      <4> QED BY <2>3, <3>1, <4>3
    <3>2. CASE m > 1
      <4>a. m - 1 \in 1..N /\ m \in 2..N /\ m - 1 # 0
        BY <1>0, <3>2
      <4>1. m - 1 \in 1..N /\ good(m - 1) /\ m \in 2..N
        <5> HIDE DEF good
        <5> QED BY <2>3, <4>a
      <4>2. /\ r[m] = r[m - 1] \o ss[m] /\ ss[m] \in Seq(S)
            /\ b[m] \in Nat /\ b[m - 1] <= b[m] /\ Tiles(ss[m], b[m - 1], b[m])
        BY <1>0, <2>1, <4>1
      <4>3. r[m] \in Seq(S) /\ Tiles(r[m], b[0], b[m])
        <5>1. /\ r[m - 1] \in Seq(S) /\ ss[m] \in Seq(S)
              /\ b[0] \in Nat /\ b[m - 1] \in Nat /\ b[m] \in Nat /\ b[0] <= b[m - 1] /\ b[m - 1] <= b[m]
              /\ Tiles(r[m - 1], b[0], b[m - 1]) /\ Tiles(ss[m], b[m - 1], b[m])
          BY <4>1, <4>2
        <5>2. r[m - 1] \o ss[m] \in Seq(S) /\ Tiles(r[m - 1] \o ss[m], b[0], b[m])
          BY <5>1, TilesJoin, Zenon
        <5> QED BY <4>2, <5>2
      <4>4. Range(r[m]) = Range(r[m - 1]) \cup Range(ss[m])
        <5>1. PICK x \in Seq(S), y \in Seq(S) : x = r[m - 1] /\ y = ss[m]
          BY <4>1, <4>2
        <5>2. Range(x \o y) = Range(x) \cup Range(y)
          BY RangeConcatenation
        <5> QED BY <4>2, <5>1, <5>2
      <4>5. \A j : j \in 1..m <=> j \in 1..(m - 1) \/ j = m
        BY <4>1
      <4>6. UNION {Range(ss[j]) : j \in 1..m} = (UNION {Range(ss[j]) : j \in 1..(m - 1)}) \cup Range(ss[m])
        BY <4>5
      <4>7. b[0] <= b[m]
        <5>1. b[0] \in Nat /\ b[m - 1] \in Nat /\ b[0] <= b[m - 1]
          BY <4>1
        <5> HIDE DEF good
        <5> QED BY <4>2, <5>1
      <4>8. good(m)
        BY <4>1, <4>2, <4>3, <4>4, <4>6, <4>7
      <4> HIDE DEF good
      <4> QED BY <2>3, <4>8
    <3> QED BY <3>1, <3>2
  <2>4. N \in P
    <3> HIDE DEF P
    <3> QED BY <1>0, <2>2, <2>3, FirstFailure
  <2>5. good(N)
    BY <1>2, <2>4
  <2>6. \A s : ToSet(s) = Range(s)
    BY DEF ToSet, Range
  <2> QED BY <2>1, <2>5, <2>6
<1> QED BY <1>0, <1>1, <1>2

\* What is done to every element of the parts is done to every element of the whole.
Mapped(F, s) == [i \in DOMAIN s |-> F[s[i]]]

LEMMA FlattenMaps ==
  ASSUME NEW S, NEW F, NEW ss \in Seq(Seq(S))
  PROVE  FlattenSeq([k \in 1..Len(ss) |-> Mapped(F, ss[k])]) = Mapped(F, FlattenSeq(ss))
<1> DEFINE N == Len(ss)
           mapped(s) == [i \in DOMAIN s |-> F[s[i]]]
           T == {F[x] : x \in S}
           tt == [k \in 1..N |-> Mapped(F, ss[k])]
<1> USE DEF Mapped
<1>0. /\ N \in Nat /\ \A k \in 1..N : ss[k] \in Seq(S) /\ tt[k] = mapped(ss[k])
      /\ Len(tt) = N /\ DOMAIN tt = 1..N /\ (N = 0 => tt = <<>>)
      /\ \A x \in S : F[x] \in T
  BY LenProperties, ElementOfSeq
<1> HIDE DEF tt, T
<1>a. ASSUME NEW s \in Seq(S), NEW t \in Seq(S)
      PROVE  s \o t \in Seq(S) /\ mapped(s) \o mapped(t) = mapped(s \o t)
  <2>1. PICK m \in Nat, n \in Nat : m = Len(s) /\ n = Len(t) /\ DOMAIN s = 1..m /\ DOMAIN t = 1..n
    BY LenProperties
  <2>2. /\ s \o t \in Seq(S) /\ DOMAIN (s \o t) = 1..(m + n)
        /\ \A i \in 1..(m + n) : (s \o t)[i] = IF i <= m THEN s[i] ELSE t[i - m]
    BY <2>1, ConcatProperties, LenProperties
  <2>3. (\A i \in 1..m : s[i] \in S) /\ (\A i \in 1..n : t[i] \in S)
    BY <2>1, ElementOfSeq
  <2>a. (\A i \in 1..m : F[s[i]] \in T) /\ (\A i \in 1..n : F[t[i]] \in T)
    BY <1>0, <2>3
  <2>4. /\ mapped(s) \in Seq(T) /\ Len(mapped(s)) = m /\ \A i \in 1..m : mapped(s)[i] = F[s[i]]
        /\ mapped(t) \in Seq(T) /\ Len(mapped(t)) = n /\ \A i \in 1..n : mapped(t)[i] = F[t[i]]
    BY <2>1, <2>a
  <2>5. /\ DOMAIN (mapped(s) \o mapped(t)) = 1..(m + n)
        /\ \A i \in 1..(m + n) : (mapped(s) \o mapped(t))[i] =
               IF i <= m THEN mapped(s)[i] ELSE mapped(t)[i - m]
        /\ mapped(s) \o mapped(t) \in Seq(T)
    <3>1. PICK u \in Seq(T), v \in Seq(T) : u = mapped(s) /\ v = mapped(t) /\ Len(u) = m /\ Len(v) = n
      <4> HIDE DEF mapped
      <4> QED BY <2>4
    <3>2. /\ DOMAIN (u \o v) = 1..(m + n) /\ u \o v \in Seq(T)
          /\ \A i \in 1..(m + n) : (u \o v)[i] = IF i <= m THEN u[i] ELSE v[i - m]
      BY <3>1, ConcatProperties, LenProperties
    <3> HIDE DEF mapped
    <3> QED BY <3>1, <3>2
  <2>6. ASSUME NEW i \in 1..(m + n) PROVE (mapped(s) \o mapped(t))[i] = F[(s \o t)[i]]
    <3>1. i <= m => i \in 1..m
      OBVIOUS
    <3>2. ~(i <= m) => i - m \in 1..n
      BY <2>1
    <3> HIDE DEF mapped
    <3> QED BY <2>2, <2>4, <2>5, <3>1, <3>2
  <2>7. mapped(s) \o mapped(t) = [i \in 1..(m + n) |-> (mapped(s) \o mapped(t))[i]]
    <3> HIDE DEF mapped
    <3> QED BY <2>5, LenProperties
  <2>8. mapped(s \o t) = [i \in 1..(m + n) |-> F[(s \o t)[i]]]
    BY <2>2
  <2> HIDE DEF mapped
  <2> QED BY <2>2, <2>6, <2>7, <2>8
<1>1. ASSUME N = 0 PROVE FlattenSeq(tt) = mapped(FlattenSeq(ss))
  <2>1. ss = <<>> /\ tt = <<>> /\ Len(tt) = 0
    BY <1>0, <1>1, EmptySeq
  <2>2. FlattenSeq(ss) = <<>> /\ FlattenSeq(tt) = <<>>
    BY <1>1, <2>1, EmptySeq DEF FlattenSeq
  <2>3. <<>> = [i \in DOMAIN <<>> |-> F[<<>>[i]]]
    OBVIOUS
  <2>4. FlattenSeq(tt) = mapped(FlattenSeq(ss))
    BY <2>2, <2>3
  <2> QED BY <2>4
<1>2. ASSUME N > 0 PROVE FlattenSeq(tt) = mapped(FlattenSeq(ss))
  <2>0. Len(ss) \in Nat \ {0} /\ Len(tt) \in Nat \ {0}
    BY <1>0, <1>2
  <2>1. PICK r : /\ r[1] = ss[1] /\ FlattenSeq(ss) = r[N]
                 /\ \A i \in 2..N : r[i] = r[i - 1] \o ss[i]
    BY <2>0, FlattenUnfolds, Zenon
  <2>2. PICK q : /\ q[1] = tt[1] /\ FlattenSeq(tt) = q[N]
                 /\ \A i \in 2..N : q[i] = q[i - 1] \o tt[i]
    <3>1. \E q : /\ q[1] = tt[1] /\ FlattenSeq(tt) = q[Len(tt)]
                 /\ \A i \in 2..Len(tt) : q[i] = q[i - 1] \o tt[i]
      BY <2>0, FlattenUnfolds, Zenon
    <3>2. Len(tt) = N
      BY <1>0
    <3> HIDE DEF N
    <3> QED BY <3>1, <3>2
  <2> DEFINE P == {k \in 0..N : k = 0 \/ (r[k] \in Seq(S) /\ q[k] = mapped(r[k]))}
  <2> HIDE DEF mapped
  <2>3. 0 \in P
    BY <1>0
  <2>4. ASSUME NEW m \in 1..N, m \notin P, m - 1 \in P PROVE FALSE
    <3>1. CASE m = 1
      BY <1>0, <2>1, <2>2, <2>4, <3>1
    <3>2. CASE m # 1
      <4>1. r[m - 1] \in Seq(S) /\ q[m - 1] = mapped(r[m - 1]) /\ m \in 2..N
        BY <1>0, <2>4, <3>2
      <4>2. r[m] = r[m - 1] \o ss[m] /\ q[m] = mapped(r[m - 1]) \o mapped(ss[m])
        BY <1>0, <2>1, <2>2, <4>1
      <4>3. ss[m] \in Seq(S)
        BY <1>0
      <4>4. r[m] \in Seq(S) /\ q[m] = mapped(r[m])
        BY <1>a, <4>1, <4>2, <4>3
      <4> QED BY <2>4, <4>4
    <3> QED BY <3>1, <3>2
  <2>5. N \in P
    <3> HIDE DEF P
    <3> QED BY <1>0, <2>3, <2>4, FirstFailure
  <2>6. FlattenSeq(tt) = mapped(FlattenSeq(ss))
    BY <1>2, <2>1, <2>2, <2>5
  <2> QED BY <2>6
<1> HIDE DEF mapped, N
<1>3. FlattenSeq(tt) = mapped(FlattenSeq(ss))
  BY <1>0, <1>1, <1>2
<1>4. tt = [k \in 1..Len(ss) |-> Mapped(F, ss[k])]
  BY DEF tt, N
<1> QED BY <1>3, <1>4 DEF mapped

\* The places where the content of a line begins and ends.
LineFrom(k) == StartOf(text, k)
LineTo(k) == CHOOSE z \in 0..Len(text) : lineIndex[k].stop = ByteOf(text, z)
Ends == {CR, LF}

LEMMA LineContents ==
  ASSUME TextInv, NEW k \in DOMAIN lineIndex
  PROVE  /\ DOMAIN lineIndex = 1..(Breaks(text, Len(text)) + 1)
         /\ LineFrom(k) \in 0..Len(text) /\ LineTo(k) \in LineFrom(k)..Len(text)
         /\ lineIndex[k].start = ByteOf(text, LineFrom(k)) /\ lineIndex[k].stop = ByteOf(text, LineTo(k))
         /\ Breaks(text, LineFrom(k)) = k - 1 /\ Breaks(text, LineTo(k)) = k - 1
         /\ \A n \in (LineFrom(k) + 1)..LineTo(k) : text[n] \notin Ends
         /\ \A i \in 0..Len(text) : Breaks(text, i) = k - 1 =>
              LineFrom(k) <= i /\ (i = LineFrom(k) \/ text[i] \notin Ends => i <= LineTo(k))
<1> DEFINE L == Len(text)  s == LineFrom(k)  z == LineTo(k)
<1>0. /\ text \in Seq(Chars) /\ EndsLines(text) /\ lineIndex = IndexOf(text)
      /\ L \in Nat /\ DOMAIN text = 1..L
  BY TextIsASeq DEF TextInv
<1>1. DOMAIN lineIndex = 1..(Breaks(text, L) + 1)
  BY <1>0 DEF IndexOf
<1>2. s \in 0..L /\ Starts(text, s) /\ Breaks(text, s) = k - 1
  BY <1>0, <1>1, StartIs DEF LineFrom
<1>3. \A i \in 0..L : Breaks(text, i) \in Nat
  BY <1>0, BreaksAreWeights
<1>4. k \in Nat /\ (k - 1) + 1 = k /\ 0 \in 0..L /\ L \in 0..L
  BY <1>0, <1>1, <1>3
<1>5. ASSUME NEW i \in 0..L, Breaks(text, i) = k - 1
      PROVE  \E y \in s..L : /\ s = LineStart(text, i) /\ s <= i
                             /\ lineIndex[k].start = ByteOf(text, s) /\ lineIndex[k].stop = ByteOf(text, y)
                             /\ Inside(text, i) => y = i - 1
                             /\ ~Inside(text, i) => i <= y /\ (AtLineEnd(text, i) => y = i)
  <2>1. Breaks(text, i) + 1 = k
    BY <1>4, <1>5
  <2>2. StartOf(text, Breaks(text, i) + 1) = LineStart(text, i)
    BY <1>0, PlaceOnLine
  <2>3. s = LineStart(text, i)
    BY <2>1, <2>2 DEF LineFrom
  <2> HIDE DEF s
  <2>4. PICK r \in 0..i : \E y \in r..L :
           /\ r = LineStart(text, i)
           /\ lineIndex[Breaks(text, i) + 1].start = ByteOf(text, r)
           /\ lineIndex[Breaks(text, i) + 1].stop = ByteOf(text, y)
           /\ Inside(text, i) => y = i - 1
           /\ ~Inside(text, i) => i <= y /\ (AtLineEnd(text, i) => y = i)
    BY IndexedLine
  <2> QED BY <2>1, <2>3, <2>4
<1>6. z \in 0..L /\ lineIndex[k].stop = ByteOf(text, z)
  <2>1. \E y \in 0..L : lineIndex[k].stop = ByteOf(text, y)
    <3>1. PICK y \in s..L : lineIndex[k].stop = ByteOf(text, y)
      BY <1>2, <1>5
    <3> QED BY <1>0, <1>2, <3>1
  <2> QED BY <2>1 DEF LineTo
<1>7. \A y \in 0..L : lineIndex[k].stop = ByteOf(text, y) => y = z
  <2>1. /\ \A i \in 0..L : ByteOf(text, i) \in Nat
        /\ \A i, j \in 0..L : ByteOf(text, i) < ByteOf(text, j) <=> i < j
    BY <1>0, BytesOfPlaces
  <2> HIDE DEF z
  <2>2. ASSUME NEW y \in 0..L, lineIndex[k].stop = ByteOf(text, y) PROVE y = z
    <3>1. ByteOf(text, y) = ByteOf(text, z) /\ ByteOf(text, y) \in Nat
      BY <1>6, <2>1, <2>2
    <3>2. ~(y < z) /\ ~(z < y)
      BY <1>6, <2>1, <3>1
    <3> QED BY <1>0, <1>6, <3>2
  <2> QED BY <2>2
<1>8. ASSUME NEW i \in 0..L, Breaks(text, i) = k - 1
      PROVE  /\ s <= i /\ s <= z /\ lineIndex[k].start = ByteOf(text, s)
             /\ Inside(text, i) => z = i - 1
             /\ ~Inside(text, i) => i <= z /\ (AtLineEnd(text, i) => z = i)
  <2>1. PICK y \in s..L : /\ s <= i /\ lineIndex[k].start = ByteOf(text, s)
                          /\ lineIndex[k].stop = ByteOf(text, y)
                          /\ Inside(text, i) => y = i - 1
                          /\ ~Inside(text, i) => i <= y /\ (AtLineEnd(text, i) => y = i)
    BY <1>5, <1>8
  <2>2. y \in 0..L
    BY <1>0, <1>2
  <2>3. y = z
    BY <1>7, <2>1, <2>2
  <2> HIDE DEF s, z
  <2> QED BY <1>0, <1>2, <2>1, <2>3
<1> HIDE DEF s, z
<1>9. s <= z /\ z \in s..L /\ lineIndex[k].start = ByteOf(text, s)
  BY <1>0, <1>2, <1>6, <1>8
<1>10. ASSUME NEW n \in (s + 1)..z, text[n] = LF, \A m \in (s + 1)..(n - 1) : text[m] # LF
       PROVE  FALSE
  <2>1. n - 1 \in s..L /\ n - 1 \in 0..L /\ n <= L /\ n - 1 < L /\ (n - 1) + 1 = n
    BY <1>0, <1>2, <1>6
  <2>2. Breaks(text, n - 1) = k - 1
    BY <1>0, <1>2, <1>10, <2>1, BreaksCount
  <2>3. AtLineEnd(text, n - 1)
    BY <1>10, <2>1 DEF AtLineEnd
  <2> QED BY <1>8, <2>1, <2>2, <2>3
<1>11. \A n \in (s + 1)..z : text[n] # LF
  <2> SUFFICES ASSUME NEW n \in (s + 1)..z, text[n] = LF PROVE FALSE
    OBVIOUS
  <2> DEFINE T == {m \in (s + 1)..n : text[m] = LF}
  <2>1. T \subseteq Nat /\ n \in T
    BY <1>2
  <2>2. PICK m \in T : \A y \in T : m <= y
    BY <2>1, LeastNumber
  <2>3. m \in (s + 1)..z /\ text[m] = LF
    BY <1>2, <1>9
  <2>4. \A y \in (s + 1)..(m - 1) : text[y] # LF
    BY <1>2, <2>2
  <2> QED BY <1>10, <2>3, <2>4
<1>12. Breaks(text, z) = k - 1
  <2>1. s \in 0..L /\ z \in s..L
    BY <1>2, <1>9
  <2> QED BY <1>0, <1>2, <1>11, <2>1, BreaksCount
<1>13. ASSUME NEW n \in (s + 1)..z, text[n] = CR PROVE FALSE
  <2>1. n - 1 \in s..L /\ n - 1 \in 0..L /\ n <= L /\ n - 1 < L /\ (n - 1) + 1 = n
    BY <1>0, <1>2, <1>6
  <2>2. Breaks(text, n - 1) = k - 1
    <3>1. \A m \in (s + 1)..(n - 1) : text[m] # LF
      <4>1. s \in Nat /\ z \in Nat
        BY <1>2, <1>6
      <4> QED BY <1>11, <4>1
    <3> QED BY <1>0, <1>2, <2>1, <3>1, BreaksCount
  <2>3. AtLineEnd(text, n - 1)
    BY <1>13, <2>1 DEF AtLineEnd
  <2> QED BY <1>8, <2>1, <2>2, <2>3
<1>14. ASSUME NEW i \in 0..L, Breaks(text, i) = k - 1, i = s \/ text[i] \notin Ends PROVE i <= z
  <2>1. CASE Inside(text, i)
    <3>1. text[i] = CR
      BY <2>1 DEF Inside
    <3> QED BY <1>9, <1>14, <3>1 DEF Ends
  <2> QED BY <1>8, <1>14, <2>1
<1> QED BY <1>1, <1>2, <1>6, <1>8, <1>9, <1>11, <1>12, <1>13, <1>14 DEF s, z, Ends

LEMMA BytesRise ==
  ASSUME TextInv
  PROVE  /\ text \in Seq(Chars) /\ EndsLines(text) /\ Len(text) \in Nat /\ DOMAIN text = 1..Len(text)
         /\ \A i \in 0..Len(text) : ByteOf(text, i) \in Nat /\ Breaks(text, i) \in Nat
         /\ \A i, j \in 0..Len(text) : /\ ByteOf(text, i) < ByteOf(text, j) <=> i < j
                                       /\ ByteOf(text, i) <= ByteOf(text, j) <=> i <= j
                                       /\ i <= j => Breaks(text, i) <= Breaks(text, j)
<1>1. text \in Seq(Chars) /\ EndsLines(text) /\ Len(text) \in Nat /\ DOMAIN text = 1..Len(text)
  BY TextIsASeq DEF TextInv
<1>2. /\ \A i \in 0..Len(text) : ByteOf(text, i) \in Nat /\ Breaks(text, i) \in Nat
      /\ \A i, j \in 0..Len(text) : ByteOf(text, i) < ByteOf(text, j) <=> i < j
  BY <1>1, BytesOfPlaces, BreaksAreWeights
<1>3. ASSUME NEW i \in 0..Len(text), NEW j \in 0..Len(text)
      PROVE  ByteOf(text, i) <= ByteOf(text, j) <=> i <= j
  <2>1. ByteOf(text, j) < ByteOf(text, i) <=> j < i
    BY <1>2
  <2>2. ByteOf(text, i) \in Nat /\ ByteOf(text, j) \in Nat
    BY <1>2
  <2> QED BY <2>1, <2>2
<1>4. ASSUME NEW i \in 0..Len(text), NEW j \in 0..Len(text), i <= j
      PROVE  Breaks(text, i) <= Breaks(text, j)
  BY <1>1, <1>4, BreaksRise
<1> QED BY <1>1, <1>2, <1>3, <1>4

\* The line of a place is that of its position.
LEMMA LineOfPosition ==
  ASSUME TextInv, NEW i \in 0..Len(text)
  PROVE  PositionForByte(ByteOf(text, i)).line = Breaks(text, i)
<1>1. ByteOf(text, i) \in Int /\ ByteOf(text, i) <= ByteOf(text, i)
  BY BytesRise
<1>2. i = Len(text) \/ ByteOf(text, i) < ByteOf(text, i + 1)
  <2>1. CASE i # Len(text)
    <3>0. Len(text) \in Nat
      BY BytesRise
    <3>1. i + 1 \in 0..Len(text) /\ i < i + 1
      BY <2>1, <3>0
    <3> QED BY <3>1, BytesRise
  <2> QED BY <2>1
<1>3. PositionForByte(ByteOf(text, i)) = ClientPosition(text, IF Inside(text, i) THEN i - 1 ELSE i)
  BY <1>1, <1>2, PositionOfByte
<1>4. CASE Inside(text, i)
  <2>1. i \in 1..Len(text) /\ text[i] # LF
    BY <1>4, BytesRise, SourceTextAssumption DEF Inside
  <2>2. Breaks(text, i) = Breaks(text, i - 1) + 0
    BY <2>1, BreakSteps, BytesRise
  <2>3. Breaks(text, i - 1) \in Nat
    <3>1. i - 1 \in 0..Len(text)
      BY <2>1
    <3> QED BY <3>1, BytesRise
  <2> QED BY <1>3, <1>4, <2>2, <2>3 DEF ClientPosition
<1>5. CASE ~Inside(text, i)
  BY <1>3, <1>5 DEF ClientPosition
<1> QED BY <1>4, <1>5

Ranges == [from : Nat, to : Nat]

\* visible_ranges: pieces of one line each, in order, with all characters but those of
\* the line ends.
LEMMA VisibleAre ==
  ASSUME TextInv, NEW i \in 0..Len(text), NEW j \in i..Len(text)
  PROVE  LET visible == VisibleRanges(ByteOf(text, i), ByteOf(text, j))
         IN  /\ visible \in Seq(Ranges) /\ Tiles(visible, ByteOf(text, i), ByteOf(text, j))
             /\ \A r \in ToSet(visible) :
                  \E p \in i..j : \E q \in (p + 1)..j :
                    /\ r = [from |-> ByteOf(text, p), to |-> ByteOf(text, q)]
                    /\ \A n \in (p + 1)..q : text[n] \notin Ends
             /\ \A n \in (i + 1)..j : text[n] \notin Ends =>
                  \E r \in ToSet(visible) : r.from <= ByteOf(text, n - 1) /\ ByteOf(text, n) <= r.to
<1> DEFINE L == Len(text)
           B(n) == ByteOf(text, n)
           from == B(i)
           to == B(j)
<1>2. /\ i \in 0..L /\ j \in 0..L /\ i <= j /\ L \in Nat /\ L \in 0..L
      /\ \A n \in 0..L : B(n) \in Nat /\ Breaks(text, n) \in Nat
      /\ \A m, n \in 0..L : /\ B(m) < B(n) <=> m < n
                            /\ B(m) <= B(n) <=> m <= n
                            /\ m <= n => Breaks(text, m) <= Breaks(text, n)
  BY BytesRise
<1>a. PICK first \in Nat : first = Breaks(text, i) + 1
  BY <1>2
<1>b. PICK last \in Nat : last = Breaks(text, j) + 1
  BY <1>2
<1>c. Breaks(text, i) <= Breaks(text, j) /\ Breaks(text, j) <= Breaks(text, L)
  BY <1>2
<1>d. Breaks(text, i) \in Nat /\ Breaks(text, j) \in Nat /\ Breaks(text, L) \in Nat
  BY <1>2
<1>e. PICK N \in Nat \ {0} : N = last - first + 1
  <2>1. PICK p \in Nat, q \in Nat : p = Breaks(text, i) /\ q = Breaks(text, j) /\ p <= q
    BY <1>c, <1>d
  <2>2. first = p + 1 /\ last = q + 1
    BY <1>a, <1>b, <2>1
  <2>3. last - first + 1 \in Nat \ {0}
    BY <2>1, <2>2
  <2> QED BY <2>3
<1> DEFINE cut(k) == [from |-> Smaller(IF k = first THEN from ELSE lineIndex[k].start, lineIndex[k].stop),
                      to |-> Smaller(IF k = last THEN to ELSE lineIndex[k].stop, lineIndex[k].stop)]
           line(k) == IF cut(k).from < cut(k).to THEN <<cut(k)>> ELSE <<>>
           ss == [n \in 1..N |-> line(first + n - 1)]
           visible == FlattenSeq(ss)
<1>1. VisibleRanges(ByteOf(text, i), ByteOf(text, j)) = visible
  <2>1. /\ PositionForByte(ByteOf(text, i)).line = Breaks(text, i)
        /\ PositionForByte(ByteOf(text, j)).line = Breaks(text, j)
    BY <1>2, LineOfPosition
  <2> QED BY <1>a, <1>b, <1>e, <2>1 DEF VisibleRanges
<1>3. /\ first <= last
      /\ \A k \in first..last : k \in DOMAIN lineIndex
  <2>3. DOMAIN lineIndex = 1..(Breaks(text, L) + 1)
    BY DEF TextInv, IndexOf
  <2>4. first <= last /\ first >= 1 /\ last <= Breaks(text, L) + 1
    BY <1>a, <1>b, <1>c, <1>d
  <2> QED BY <1>d, <2>3, <2>4
\* The places of a piece.
<1> DEFINE s(k) == IF k = first THEN i ELSE LineFrom(k)
           z(k) == LineTo(k)
           e(k) == IF k = last THEN j ELSE z(k)
<1>4. ASSUME NEW k \in first..last
      PROVE  /\ LineFrom(k) \in 0..L /\ z(k) \in 0..L /\ s(k) \in 0..L /\ e(k) \in 0..L
             /\ LineFrom(k) \in Nat /\ z(k) \in Nat /\ s(k) \in Nat /\ e(k) \in Nat
             /\ LineFrom(k) <= s(k) /\ Breaks(text, s(k)) = k - 1
             /\ Breaks(text, z(k)) = k - 1 /\ Breaks(text, e(k)) = k - 1
             /\ i <= s(k) /\ e(k) <= j
             /\ cut(k) = [from |-> Smaller(B(s(k)), B(z(k))), to |-> Smaller(B(e(k)), B(z(k)))]
             /\ \A n \in (LineFrom(k) + 1)..z(k) : text[n] \notin Ends
             /\ \A n \in 0..L : Breaks(text, n) = k - 1 =>
                  LineFrom(k) <= n /\ (n = LineFrom(k) \/ text[n] \notin Ends => n <= z(k))
  <2>1. k \in DOMAIN lineIndex /\ k \in Nat
    BY <1>3
  <2>2. /\ LineFrom(k) \in 0..L /\ z(k) \in LineFrom(k)..L
        /\ lineIndex[k].start = B(LineFrom(k)) /\ lineIndex[k].stop = B(z(k))
        /\ Breaks(text, LineFrom(k)) = k - 1 /\ Breaks(text, z(k)) = k - 1
        /\ \A n \in (LineFrom(k) + 1)..z(k) : text[n] \notin Ends
        /\ \A n \in 0..L : Breaks(text, n) = k - 1 =>
             LineFrom(k) <= n /\ (n = LineFrom(k) \/ text[n] \notin Ends => n <= z(k))
    BY <2>1, LineContents
  <2>3. z(k) \in 0..L
    BY <1>2, <2>2
  <2>4. k = first => Breaks(text, i) = k - 1
    BY <1>a, <1>d
  <2>5. k = last => Breaks(text, j) = k - 1
    BY <1>b, <1>d
  <2>6. s(k) \in 0..L /\ e(k) \in 0..L /\ Breaks(text, s(k)) = k - 1 /\ Breaks(text, e(k)) = k - 1
    BY <1>2, <2>2, <2>3, <2>4, <2>5
  <2>7. LineFrom(k) <= s(k)
    BY <2>2, <2>6
  <2>8. i <= s(k)
    <3>1. CASE k # first
      <4>1. Breaks(text, i) < Breaks(text, s(k))
        BY <1>a, <1>d, <2>1, <2>6, <3>1
      <4>2. ~(s(k) <= i)
        BY <1>2, <2>6, <4>1
      <4> QED BY <1>2, <2>6, <4>2
    <3>2. CASE k = first
      BY <1>2, <3>2
    <3> QED BY <3>1, <3>2
  <2>9. e(k) <= j
    <3>1. CASE k # last
      <4>1. Breaks(text, e(k)) < Breaks(text, j)
        BY <1>b, <1>d, <2>1, <2>6, <3>1
      <4>2. ~(j <= e(k))
        BY <1>2, <2>6, <4>1
      <4> QED BY <1>2, <2>6, <4>2
    <3>2. CASE k = last
      BY <1>2, <3>2
    <3> QED BY <3>1, <3>2
  <2>10. cut(k) = [from |-> Smaller(B(s(k)), B(z(k))), to |-> Smaller(B(e(k)), B(z(k)))]
    BY <2>2
  <2>11. LineFrom(k) \in Nat /\ z(k) \in Nat /\ s(k) \in Nat /\ e(k) \in Nat
    BY <2>2, <2>3, <2>6
  <2> QED BY <2>2, <2>3, <2>6, <2>7, <2>8, <2>9, <2>10, <2>11
<1> HIDE DEF cut, s, e, z, B, L
\* A line has one piece or none.
<1>5. ASSUME NEW k \in first..last
      PROVE  \/ line(k) = <<>>
             \/ /\ line(k) = <<cut(k)>> /\ s(k) < e(k) /\ s(k) < z(k)
                /\ cut(k).from = B(s(k))
                /\ \E q \in (s(k) + 1)..e(k) : q <= z(k) /\ q \in 0..L /\ cut(k) = [from |-> B(s(k)), to |-> B(q)]
  <2>1. /\ z(k) \in 0..L /\ s(k) \in 0..L /\ e(k) \in 0..L
        /\ z(k) \in Nat /\ s(k) \in Nat /\ e(k) \in Nat
        /\ cut(k) = [from |-> Smaller(B(s(k)), B(z(k))), to |-> Smaller(B(e(k)), B(z(k)))]
    BY <1>4
  <2>2. CASE cut(k).from < cut(k).to
    <3>1. line(k) = <<cut(k)>>
      BY <2>2
    <3>2. B(s(k)) \in Nat /\ B(z(k)) \in Nat /\ B(e(k)) \in Nat
      BY <1>2, <2>1
    <3>3. Smaller(B(s(k)), B(z(k))) < Smaller(B(e(k)), B(z(k)))
      BY <2>1, <2>2
    <3>4. B(s(k)) < B(z(k)) /\ B(s(k)) < B(e(k)) /\ cut(k).from = B(s(k))
      BY <2>1, <3>2, <3>3 DEF Smaller
    <3>5. s(k) < z(k) /\ s(k) < e(k)
      BY <1>2, <2>1, <3>4
    <3>6. CASE B(e(k)) < B(z(k))
      <4>1. cut(k) = [from |-> B(s(k)), to |-> B(e(k))]
        BY <2>1, <3>4, <3>6 DEF Smaller
      <4>2. e(k) < z(k)
        BY <1>2, <2>1, <3>6
      <4>3. e(k) <= z(k) /\ e(k) \in (s(k) + 1)..e(k)
        <5>1. z(k) \in Nat /\ s(k) \in Nat /\ e(k) \in Nat
          BY <2>1
        <5> QED BY <3>5, <4>2, <5>1
      <4> QED BY <2>1, <3>1, <3>4, <3>5, <4>1, <4>3
    <3>7. CASE ~(B(e(k)) < B(z(k)))
      <4>1. cut(k) = [from |-> B(s(k)), to |-> B(z(k))]
        BY <2>1, <3>4, <3>7 DEF Smaller
      <4>2. z(k) <= e(k)
        <5>1. ~(e(k) < z(k))
          BY <1>2, <2>1, <3>7
        <5> QED BY <1>2, <2>1, <5>1
      <4>3. z(k) <= z(k) /\ z(k) \in (s(k) + 1)..e(k)
        <5>1. z(k) \in Nat /\ s(k) \in Nat /\ e(k) \in Nat
          BY <2>1
        <5> QED BY <3>5, <4>2, <5>1
      <4> QED BY <2>1, <3>1, <3>4, <3>5, <4>1, <4>3
    <3> QED BY <3>6, <3>7
  <2> QED BY <2>2
<1>6. \A n \in 1..N : first + n - 1 \in first..last /\ (n # N => first + n \in first..last)
  BY <1>3, <1>e
<1> HIDE DEF line
<1>7. ss \in Seq(Seq(Ranges)) /\ Len(ss) = N /\ \A n \in 1..N : ss[n] = line(first + n - 1)
  <2>1. ASSUME NEW n \in 1..N PROVE line(first + n - 1) \in Seq(Ranges)
    <3>1. PICK k \in first..last : k = first + n - 1
      BY <1>6
    <3>2. CASE line(k) = <<>>
      BY <3>1, <3>2, EmptySeq
    <3>3. CASE line(k) # <<>>
      <4>1. PICK q \in (s(k) + 1)..e(k) : q \in 0..L /\ cut(k) = [from |-> B(s(k)), to |-> B(q)]
        BY <1>5, <3>3
      <4>2. cut(k) \in Ranges
        <5>1. B(s(k)) \in Nat /\ B(q) \in Nat
          BY <1>2, <1>4, <4>1
        <5> QED BY <4>1, <5>1 DEF Ranges
      <4>3. line(k) = <<cut(k)>>
        BY <1>5, <3>3
      <4>4. line(k) \in Seq(Ranges)
        BY <4>2, <4>3
      <4> QED BY <3>1, <4>4
    <3> QED BY <3>2, <3>3
  <2>2. N \in Nat
    BY <1>3, <1>e
  <2> HIDE DEF line
  <2> QED BY <2>1, <2>2
<1> DEFINE b == [n \in 0..N |-> IF n = 0 THEN from ELSE IF n = N THEN to ELSE B(s(first + n))]
<1>8. \A x \in Ranges : x.from \in Nat /\ x.to \in Nat
  BY DEF Ranges
<1>9. ASSUME NEW n \in 1..N
      PROVE  b[n] \in Nat /\ b[n - 1] <= b[n] /\ Tiles(ss[n], b[n - 1], b[n])
  <2>1. PICK k \in first..last : k = first + n - 1
    BY <1>6
  <2>2. k \in Nat /\ n \in Nat /\ (k = first <=> n = 1) /\ (k = last <=> n = N) /\ n - 1 \in 0..N /\ n \in 0..N
    BY <1>3, <1>e, <2>1
  <2>3. b[n - 1] = B(s(k))
    <3>1. CASE n = 1
      <4>1. b[n - 1] = from /\ k = first
        BY <2>2, <3>1
      <4> QED BY <4>1 DEF s
    <3>2. CASE n # 1
      <4>1. n - 1 # 0 /\ n - 1 # N /\ first + (n - 1) = k
        BY <1>3, <1>e, <2>1, <3>2
      <4> QED BY <2>2, <4>1
    <3> QED BY <3>1, <3>2
  <2>4. \E g \in 0..L : b[n] = B(g) /\ e(k) <= g /\ s(k) <= g
    <3>1. CASE n = N
      <4>1. b[n] = to /\ n # 0
        BY <1>3, <1>e, <2>2, <3>1
      <4>2. Breaks(text, s(k)) = Breaks(text, e(k)) /\ e(k) = j
        BY <1>4, <2>2, <3>1 DEF e
      <4>3. s(k) <= j
        <5>1. CASE k = first
          BY <1>2, <5>1 DEF s
        <5>2. CASE k # first
          <6>1. s(k) = LineFrom(k)
            BY <5>2 DEF s
          <6> QED BY <1>2, <1>4, <4>2, <6>1
        <5> QED BY <5>1, <5>2
      <4> QED BY <1>2, <4>1, <4>2, <4>3
    <3>2. CASE n # N
      <4>1. PICK l \in first..last : l = k + 1 /\ l = first + n
        BY <1>3, <1>e, <2>1, <3>2
      <4>2. b[n] = B(s(l))
        BY <1>3, <1>e, <2>2, <3>2, <4>1
      <4>3. /\ s(l) \in 0..L /\ e(k) \in 0..L /\ s(k) \in 0..L
            /\ s(l) \in Nat /\ e(k) \in Nat /\ s(k) \in Nat
        BY <1>4
      <4>4. Breaks(text, e(k)) < Breaks(text, s(l)) /\ Breaks(text, s(k)) < Breaks(text, s(l))
        <5>1. Breaks(text, e(k)) = k - 1 /\ Breaks(text, s(k)) = k - 1 /\ Breaks(text, s(l)) = l - 1
          BY <1>4
        <5> QED BY <2>2, <4>1, <5>1
      <4>5. \A m \in 0..L : Breaks(text, m) < Breaks(text, s(l)) => ~(s(l) <= m)
        <5> SUFFICES ASSUME NEW m \in 0..L, Breaks(text, m) < Breaks(text, s(l)), s(l) <= m PROVE FALSE
          OBVIOUS
        <5>1. Breaks(text, s(l)) <= Breaks(text, m)
          BY <1>2, <4>3
        <5>2. Breaks(text, s(l)) \in Nat /\ Breaks(text, m) \in Nat
          BY <1>2, <4>3
        <5> QED BY <5>1, <5>2
      <4>6. ~(s(l) <= e(k)) /\ ~(s(l) <= s(k))
        BY <4>3, <4>4, <4>5
      <4>7. e(k) <= s(l) /\ s(k) <= s(l)
        <5>1. s(l) \in Nat /\ e(k) \in Nat /\ s(k) \in Nat
          BY <4>3
        <5> QED BY <4>6, <5>1
      <4> HIDE DEF b
      <4> QED BY <4>2, <4>3, <4>7
    <3> QED BY <3>1, <3>2
  <2>5. PICK g \in 0..L : b[n] = B(g) /\ e(k) <= g /\ s(k) <= g
    BY <2>4
  <2>6. b[n] \in Nat /\ b[n - 1] <= b[n]
    <3>1. s(k) \in 0..L
      BY <1>4
    <3>2. B(g) \in Nat /\ B(s(k)) <= B(g)
      BY <1>2, <2>5, <3>1
    <3> HIDE DEF b
    <3> QED BY <2>3, <2>5, <3>2
  <2>7. Tiles(line(k), b[n - 1], b[n])
    <3>1. CASE line(k) # <<>>
      <4>1. PICK q \in (s(k) + 1)..e(k) : q \in 0..L /\ cut(k) = [from |-> B(s(k)), to |-> B(q)]
        BY <1>5, <3>1
      <4>2. line(k) = <<cut(k)>>
        BY <1>5, <3>1
      <4>3. Len(line(k)) = 1 /\ line(k)[1] = [from |-> B(s(k)), to |-> B(q)]
        BY <4>1, <4>2
      <4>4. s(k) \in 0..L /\ e(k) \in 0..L /\ s(k) < q /\ q <= g
        <5>1. s(k) \in Nat /\ e(k) \in Nat /\ s(k) \in 0..L /\ e(k) \in 0..L
          BY <1>4
        <5>2. s(k) < q /\ q <= e(k) /\ q \in Nat
          BY <4>1, <5>1
        <5>3. L \in Nat
          BY <1>2
        <5>4. g \in Nat /\ e(k) <= g
          BY <2>5, <5>3
        <5> QED BY <5>1, <5>2, <5>4
      <4>5. B(s(k)) < B(q) /\ B(q) <= B(g) /\ B(s(k)) \in Nat
        BY <1>2, <4>1, <4>4
      <4> QED BY <2>3, <2>5, <4>3, <4>5 DEF Tiles
    <3> QED BY <3>1, TilesEmpty
  <2> QED BY <1>7, <2>1, <2>6, <2>7
<1>10. b[0] = from /\ b[N] = to /\ b[0] \in Nat
  BY <1>2, <1>3, <1>e
<1>11. /\ visible \in Seq(Ranges) /\ Tiles(visible, from, to)
       /\ ToSet(visible) = UNION {ToSet(ss[k]) : k \in 1..N}
  <2> HIDE DEF ss, b, from, to
  <2>1. b[0] \in Nat /\ \A n \in 1..Len(ss) : b[n] \in Nat /\ b[n - 1] <= b[n] /\ Tiles(ss[n], b[n - 1], b[n])
    BY <1>7, <1>9, <1>10
  <2> QED BY <1>7, <1>8, <1>10, <2>1, FlattenTiles
<1>12. ASSUME NEW r \in ToSet(visible)
       PROVE  \E p \in i..j : \E q \in (p + 1)..j :
                r = [from |-> B(p), to |-> B(q)] /\ \A n \in (p + 1)..q : text[n] \notin Ends
  <2>1. PICK n \in 1..N : r \in ToSet(ss[n])
    BY <1>11
  <2>2. PICK k \in first..last : k = first + n - 1
    BY <1>6
  <2>3. r \in ToSet(line(k))
    BY <1>7, <2>1, <2>2
  <2>4. line(k) # <<>>
    BY <2>3, EmptySeq DEF ToSet
  <2>5. PICK q \in (s(k) + 1)..e(k) : /\ q <= z(k) /\ q \in 0..L /\ cut(k) = [from |-> B(s(k)), to |-> B(q)]
                                      /\ line(k) = <<cut(k)>>
    BY <1>5, <2>4
  <2>6. r = cut(k)
    BY <2>3, <2>5 DEF ToSet
  <2>7. /\ s(k) \in i..j /\ q \in (s(k) + 1)..j
        /\ \A m \in (s(k) + 1)..q : m \in (LineFrom(k) + 1)..z(k)
    <3>1. /\ s(k) \in Nat /\ e(k) \in Nat /\ z(k) \in Nat /\ LineFrom(k) \in Nat
          /\ i <= s(k) /\ e(k) <= j /\ LineFrom(k) <= s(k)
      BY <1>4
    <3>2. i \in Nat /\ j \in Nat
      BY <1>2
    <3>3. q <= z(k) /\ s(k) < q /\ q <= e(k) /\ q \in Nat
      BY <2>5, <3>1
    <3> QED BY <3>1, <3>2, <3>3
  <2>8. \A m \in (s(k) + 1)..q : text[m] \notin Ends
    BY <1>4, <2>7
  <2> QED BY <2>5, <2>6, <2>7, <2>8
<1>13. ASSUME NEW n \in (i + 1)..j, text[n] \notin Ends
       PROVE  \E r \in ToSet(visible) : r.from <= B(n - 1) /\ B(n) <= r.to
  <2>1. n \in 1..L /\ n \in 0..L /\ n - 1 \in 0..L /\ n - 1 < n /\ i <= n - 1 /\ n <= j
    BY <1>2
  <2>2. Breaks(text, n) = Breaks(text, n - 1)
    <3>1. Breaks(text, n) = Breaks(text, n - 1) + 0
      BY <1>13, <2>1, BreakSteps, BytesRise DEF Ends, L
    <3> QED BY <1>2, <2>1, <3>1
  <2>3. PICK k \in first..last : k = Breaks(text, n) + 1
    <3>1. Breaks(text, i) <= Breaks(text, n) /\ Breaks(text, n) <= Breaks(text, j)
      BY <1>2, <2>1
    <3>2. Breaks(text, n) \in Nat
      BY <1>2, <2>1
    <3>3. PICK u \in Nat, v \in Nat, w \in Nat :
            u = Breaks(text, i) /\ v = Breaks(text, n) /\ w = Breaks(text, j) /\ u <= v /\ v <= w
      BY <1>d, <3>1, <3>2
    <3>a. first = u + 1 /\ last = w + 1
      BY <1>a, <1>b, <3>3
    <3>b. u <= v /\ v <= w
      BY <3>3
    <3>4. v + 1 \in first..last
      BY <3>a, <3>b
    <3> QED BY <3>3, <3>4
  <2>4. Breaks(text, n) = k - 1
    <3>1. Breaks(text, n) \in Nat
      BY <1>2, <2>1
    <3> QED BY <2>3, <3>1
  <2>5. n <= z(k) /\ s(k) <= n - 1 /\ n <= e(k)
    BY <1>2, <1>4, <1>13, <2>1, <2>2, <2>4 DEF s, e
  <2>6. /\ z(k) \in 0..L /\ s(k) \in 0..L /\ e(k) \in 0..L
        /\ cut(k) = [from |-> Smaller(B(s(k)), B(z(k))), to |-> Smaller(B(e(k)), B(z(k)))]
    BY <1>4
  <2>7. /\ B(s(k)) <= B(n - 1) /\ B(n - 1) < B(n) /\ B(n) <= B(z(k)) /\ B(n) <= B(e(k))
        /\ B(s(k)) \in Nat /\ B(z(k)) \in Nat /\ B(e(k)) \in Nat /\ B(n) \in Nat /\ B(n - 1) \in Nat
    BY <1>2, <2>1, <2>5, <2>6
  <2>8. cut(k).from <= B(n - 1) /\ B(n) <= cut(k).to /\ cut(k).from < cut(k).to
    BY <2>6, <2>7 DEF Smaller
  <2>9. line(k) = <<cut(k)>>
    BY <2>8 DEF line
  <2>10. cut(k) \in ToSet(line(k))
    BY <2>9 DEF ToSet
  <2>11. PICK m \in 1..N : k = first + m - 1
    <3>1. k - first + 1 \in 1..N /\ k = first + (k - first + 1) - 1
      BY <1>3, <1>e
    <3> QED BY <3>1
  <2>12. cut(k) \in ToSet(visible)
    BY <1>7, <1>11, <2>10, <2>11
  <2> QED BY <2>8, <2>12
<1> HIDE DEF visible
<1>14. /\ visible \in Seq(Ranges) /\ Tiles(visible, ByteOf(text, i), ByteOf(text, j))
       /\ \A r \in ToSet(visible) :
            \E p \in i..j : \E q \in (p + 1)..j :
              /\ r = [from |-> ByteOf(text, p), to |-> ByteOf(text, q)]
              /\ \A n \in (p + 1)..q : text[n] \notin Ends
       /\ \A n \in (i + 1)..j : text[n] \notin Ends =>
            \E r \in ToSet(visible) : r.from <= ByteOf(text, n - 1) /\ ByteOf(text, n) <= r.to
  BY <1>11, <1>12, <1>13 DEF B
<1> QED BY <1>1, <1>14

\* collect_backtick_snippets: snippets are not empty and come one after the other.
LEMMA SnippetsAre ==
  ASSUME NEW container, container.from \in Nat, container.to \in Nat, container.from <= container.to
  PROVE  Snippets(container) \in Seq(Ranges) /\ Tiles(Snippets(container), container.from, container.to)
<1>a. PICK from \in Nat : from = container.from
  OBVIOUS
<1>b. PICK to \in Nat : to = container.to
  OBVIOUS
<1> DEFINE after(c) == Backticks([from |-> c, to |-> container.to])
           open(c) == Min(after(c))
           close(c) == Min(after(open(c)))
           tick(n) == n \in Backticks(container)
           snippet(c) == [from |-> open(c), to |-> close(c) - 1]
           single(c) == ~(tick(open(c) - 1) \/ tick(open(c) + 1))
           candidate(c) == ~(tick(close(c) + 1) \/ ~CodeCandidate(snippet(c)))
           step(f, c) ==
             IF after(c) = {} THEN <<>>
             ELSE IF tick(open(c) - 1) \/ tick(open(c) + 1) THEN f[open(c)]
             ELSE IF after(open(c)) = {} THEN <<>>
             ELSE IF tick(close(c) + 1) \/ ~CodeCandidate(snippet(c)) THEN f[close(c)]
             ELSE <<snippet(c)>> \o f[close(c)]
           D == to - from
           is(f, d) == f = [c \in (to - d)..to |-> step(f, c)]
<1>1. D \in Nat /\ from <= to
  BY <1>a, <1>b
<1>2. ASSUME NEW c \in Nat PROVE after(c) # {} => open(c) \in Nat /\ c < open(c) /\ open(c) <= to
  <2>1. after(c) \subseteq (c + 1)..to
    BY <1>b DEF Backticks
  <2>2. after(c) \subseteq Nat
    BY <2>1
  <2> HIDE DEF after
  <2>3. after(c) # {} => open(c) \in after(c)
    BY <2>2, MinIsLeast
  <2> QED BY <2>1, <2>3
<1>3. ASSUME NEW c \in Nat, after(c) # {}, after(open(c)) # {}
      PROVE  close(c) \in Nat /\ open(c) < close(c) /\ close(c) <= to
  <2>1. open(c) \in Nat
    BY <1>2, <1>3
  <2> QED BY <1>2, <1>3, <2>1
<1>4. ASSUME NEW c \in Nat, CodeCandidate(snippet(c)), open(c) \in Nat, close(c) \in Nat
      PROVE  open(c) < close(c) - 1
  <2> HIDE DEF open, close
  <2>1. CASE ~(open(c) < close(c) - 1)
    <3>1. (snippet(c).from + 1)..snippet(c).to = {}
      BY <1>4, <2>1
    <3>2. {text[n] : n \in (snippet(c).from + 1)..snippet(c).to} = {}
      BY <3>1
    <3> HIDE DEF snippet
    <3> QED BY <1>4, <3>2 DEF CodeCandidate
  <2> QED BY <2>1
<1>5. \E f : is(f, D)
  <2> DEFINE P == {d \in 0..D : \E f : is(f, d)}
  <2>1. 0 \in P
    <3> DEFINE f == [c \in (to - 0)..to |-> <<>>]
    <3>1. ASSUME NEW c \in (to - 0)..to PROVE step(f, c) = <<>>
      <4>1. c = to
        OBVIOUS
      <4>2. after(c) = {}
        BY <1>2, <4>1
      <4> HIDE DEF after, open, close, tick, snippet
      <4> QED BY <4>2
    <3>2. f = [c \in (to - 0)..to |-> step(f, c)]
      <4> HIDE DEF step
      <4> QED BY <3>1
    <3>3. 0 \in 0..D
      BY <1>1
    <3> HIDE DEF f, step
    <3> QED BY <3>2, <3>3
  <2>2. ASSUME NEW m \in 1..D, m \notin P, m - 1 \in P PROVE FALSE
    <3>1. PICK f : is(f, m - 1)
      BY <2>2
    <3>2. PICK e \in Nat : e = to - m
      BY <1>a, <1>b, <1>1
    <3>3. (to - (m - 1)) = e + 1 /\ e <= to
      BY <3>2
    <3>4. f = [c \in (e + 1)..to |-> step(f, c)]
      BY <3>1, <3>3
    <3> DEFINE h == [c \in e..to |-> IF c = e THEN step(f, c) ELSE f[c]]
    <3>5. \A c \in (e + 1)..to : h[c] = f[c]
      BY <3>2
    <3>6. ASSUME NEW c \in e..to PROVE step(h, c) = step(f, c)
      <4>0. c \in Nat
        BY <3>2
      <4>1. after(c) # {} => h[open(c)] = f[open(c)]
        <5> HIDE DEF open, after, h
        <5>1. CASE after(c) # {}
          <6>1. open(c) \in Nat /\ c < open(c) /\ open(c) <= to
            BY <1>2, <4>0, <5>1
          <6>2. open(c) \in (e + 1)..to
            BY <3>2, <6>1
          <6> QED BY <3>5, <6>2
        <5> QED BY <5>1
      <4>2. after(c) # {} /\ after(open(c)) # {} => h[close(c)] = f[close(c)]
        <5> HIDE DEF open, after, h, close
        <5>1. CASE after(c) # {} /\ after(open(c)) # {}
          <6>1. open(c) \in Nat /\ c < open(c) /\ close(c) \in Nat /\ open(c) < close(c) /\ close(c) <= to
            BY <1>2, <1>3, <4>0, <5>1
          <6>2. close(c) \in (e + 1)..to
            BY <3>2, <6>1
          <6> QED BY <3>5, <6>2
        <5> QED BY <5>1
      <4> HIDE DEF after, open, close, tick, snippet, h
      <4> QED BY <4>1, <4>2
    <3> HIDE DEF step
    <3>7. ASSUME NEW c \in e..to PROVE h[c] = step(h, c)
      <4>1. h[c] = step(f, c)
        <5>1. CASE c = e
          BY <5>1
        <5>2. CASE c # e
          <6>1. c \in (e + 1)..to
            BY <3>2, <5>2
          <6>2. h[c] = f[c] /\ f[c] = step(f, c)
            <7> HIDE DEF h
            <7> QED BY <3>4, <3>5, <6>1
          <6> QED BY <6>2
        <5> QED BY <5>1, <5>2
      <4> QED BY <3>6, <4>1
    <3>8. h = [c \in e..to |-> h[c]]
      OBVIOUS
    <3> HIDE DEF h
    <3>9. h = [c \in e..to |-> step(h, c)]
      BY <3>7, <3>8
    <3>10. h = [c \in (to - m)..to |-> step(h, c)] /\ m \in 0..D
      BY <1>1, <3>2, <3>9
    <3> QED BY <2>2, <3>10
  <2>3. D \in P
    <3> HIDE DEF P, D
    <3> QED BY <1>1, <2>1, <2>2, FirstFailure
  <2> QED BY <2>3
<1> DEFINE found == CHOOSE f : f = [c \in container.from..container.to |-> step(f, c)]
<1>6. found = [c \in from..to |-> step(found, c)]
  <2>1. to - D = from
    BY <1>1
  <2>2. \E f : f = [c \in from..to |-> step(f, c)]
    <3> HIDE DEF step, D
    <3> QED BY <1>5, <2>1
  <2>3. \E f : f = [c \in container.from..container.to |-> step(f, c)]
    <3> HIDE DEF step
    <3> QED BY <1>a, <1>b, <2>2
  <2>4. found = [c \in container.from..container.to |-> step(found, c)]
    <3> HIDE DEF step
    <3> QED BY <2>3
  <2> HIDE DEF step, found
  <2> QED BY <1>a, <1>b, <2>4
<1>7. Snippets(container) = found[container.from]
  BY DEF Snippets
<1> HIDE DEF found
<1>8. \A c \in from..to : found[c] = step(found, c)
  <2> HIDE DEF step
  <2> QED BY <1>6
<1> DEFINE good(c) == found[c] \in Seq(Ranges) /\ Tiles(found[c], c, to)
           P == {d \in 0..D : \A c \in (to - d)..to : good(c)}
<1>9. <<>> \in Seq(Ranges) /\ \A c : Tiles(<<>>, c, to)
  BY EmptySeq, TilesEmpty
<1>10. ASSUME NEW c \in from..to, \A x \in (c + 1)..to : good(x) PROVE good(c)
  <2>a. c \in Nat
    BY <1>a
  <2>b. found[c] = step(found, c)
    <3> HIDE DEF step
    <3> QED BY <1>8
  <2>1. c \in Nat /\ found[c] = step(found, c)
    BY <2>a, <2>b
  <2> HIDE DEF after, tick, snippet, open, close
  <2>2. CASE after(c) = {}
    <3>1. found[c] = <<>>
      BY <2>1, <2>2
    <3> QED BY <1>9, <3>1
  <2>3. CASE after(c) # {} /\ ~single(c)
    <3>1. found[c] = found[open(c)]
      BY <2>1, <2>3
    <3>2. open(c) \in Nat /\ c < open(c) /\ open(c) <= to
      BY <1>2, <2>1, <2>3
    <3>3. open(c) \in (c + 1)..to
      BY <2>1, <3>2
    <3>4. good(open(c))
      BY <1>10, <3>3
    <3>5. Tiles(found[open(c)], c, to)
      <4>1. c <= open(c) /\ to <= to /\ \A x \in Ranges : x.from \in Nat /\ x.to \in Nat
        BY <2>1, <3>2 DEF Ranges
      <4> QED BY <2>1, <3>2, <3>4, <4>1, TilesWiden
    <3> QED BY <3>1, <3>4, <3>5
  <2>4. CASE after(c) # {} /\ single(c) /\ after(open(c)) = {}
    <3>1. found[c] = <<>>
      BY <2>1, <2>4
    <3> QED BY <1>9, <3>1
  <2>5. CASE after(c) # {} /\ single(c) /\ after(open(c)) # {}
    <3>1. open(c) \in Nat /\ c < open(c) /\ open(c) <= to
      BY <1>2, <2>1, <2>5
    <3>2. close(c) \in Nat /\ open(c) < close(c) /\ close(c) <= to
      BY <1>3, <2>1, <2>5
    <3>3. close(c) \in (c + 1)..to
      BY <2>1, <3>1, <3>2
    <3>4. good(close(c))
      BY <1>10, <3>3
    <3>5. c <= close(c) /\ to <= to /\ \A x \in Ranges : x.from \in Nat /\ x.to \in Nat
      BY <2>1, <3>1, <3>2 DEF Ranges
    <3>6. CASE ~candidate(c)
      <4>1. found[c] = found[close(c)]
        BY <2>1, <2>5, <3>6
      <4>2. Tiles(found[close(c)], c, to)
        BY <2>1, <3>2, <3>4, <3>5, TilesWiden
      <4> QED BY <3>4, <4>1, <4>2
    <3>7. CASE candidate(c)
      <4>1. found[c] = <<snippet(c)>> \o found[close(c)]
        BY <2>1, <2>5, <3>7
      <4>2. open(c) < close(c) - 1
        BY <1>4, <2>1, <3>1, <3>2, <3>7
      <4>3. snippet(c).from = open(c) /\ snippet(c).to = close(c) - 1 /\ snippet(c) \in Ranges
        BY <3>1, <3>2, <4>2 DEF snippet, Ranges
      <4>4. <<snippet(c)>> \in Seq(Ranges) /\ Len(<<snippet(c)>>) = 1 /\ <<snippet(c)>>[1] = snippet(c)
        BY <4>3
      <4>5. Tiles(<<snippet(c)>>, c, close(c))
        <5>1. c <= open(c) /\ close(c) - 1 <= close(c)
          BY <2>1, <3>1, <3>2
        <5> QED BY <4>2, <4>3, <4>4, <5>1 DEF Tiles
      <4>6. <<snippet(c)>> \o found[close(c)] \in Seq(Ranges) /\ Tiles(<<snippet(c)>> \o found[close(c)], c, to)
        BY <2>1, <3>2, <3>4, <3>5, <4>4, <4>5, TilesJoin
      <4> QED BY <4>1, <4>6
    <3> QED BY <3>6, <3>7
  <2> QED BY <2>2, <2>3, <2>4, <2>5
<1> HIDE DEF good, step
<1>11. 0 \in P
  <2>1. \A c \in (to - 0)..to : c = to
    OBVIOUS
  <2>2. to \in from..to /\ \A x \in (to + 1)..to : good(x)
    BY <1>1
  <2>3. good(to)
    BY <1>10, <2>2
  <2> QED BY <1>1, <2>1, <2>3
<1>12. ASSUME NEW m \in 1..D, m \notin P, m - 1 \in P PROVE FALSE
  <2>1. PICK e \in Nat : e = to - m
    BY <1>a, <1>b, <1>1
  <2>2. e \in from..to /\ e + 1 = to - (m - 1) /\ m \in 0..D
    BY <1>1, <2>1
  <2>3. \A x \in (e + 1)..to : good(x)
    BY <1>12, <2>2
  <2>4. good(e)
    BY <1>10, <2>2, <2>3
  <2>5. \A c \in (to - m)..to : c = e \/ c \in (e + 1)..to
    BY <2>1
  <2>6. m \in P
    BY <2>2, <2>3, <2>4, <2>5
  <2> QED BY <1>12, <2>6
<1>13. D \in P
  <2> HIDE DEF P, D
  <2> QED BY <1>1, <1>11, <1>12, FirstFailure
<1>14. good(from)
  <2>1. from \in (to - D)..to
    BY <1>1
  <2> HIDE DEF D
  <2> QED BY <1>13, <2>1
<1> QED BY <1>a, <1>b, <1>7, <1>14 DEF good

Colours == {"comment", "string", "variable", "property"}
Spans == [from : Nat, to : Nat, colour : Colours]

\* Of two tiles only one has a place.
LEMMA OneTile ==
  ASSUME NEW S, \A x \in S : x.from \in Nat /\ x.to \in Nat, NEW s \in Seq(S), NEW a, NEW b,
         Tiles(s, a, b), NEW x \in ToSet(s), NEW y \in ToSet(s), NEW n \in Nat,
         x.from < n, n <= x.to, y.from < n, n <= y.to
  PROVE  x = y
<1>1. Len(s) \in Nat /\ DOMAIN s = 1..Len(s)
  BY LenProperties
<1>2. PICK j \in 1..Len(s) : x = s[j]
  BY <1>1 DEF ToSet
<1>3. PICK k \in 1..Len(s) : y = s[k]
  BY <1>1 DEF ToSet
<1>4. x.from \in Nat /\ x.to \in Nat /\ y.from \in Nat /\ y.to \in Nat
  BY <1>2, <1>3, ElementOfSeq
<1>5. ~(j < k)
  <2>1. j < k => x.to <= y.from
    <3>1. j < k => j \in 1..(k - 1)
      OBVIOUS
    <3>2. \A m \in 1..(k - 1) : s[m].to <= s[k].from
      BY <1>1 DEF Tiles
    <3> QED BY <1>2, <1>3, <3>1, <3>2
  <2> QED BY <1>4, <2>1
<1>6. ~(k < j)
  <2>1. k < j => y.to <= x.from
    <3>1. k < j => k \in 1..(j - 1)
      OBVIOUS
    <3>2. \A m \in 1..(j - 1) : s[m].to <= s[j].from
      BY <1>1 DEF Tiles
    <3> QED BY <1>2, <1>3, <3>1, <3>2
  <2> QED BY <1>4, <2>1
<1>7. j = k
  BY <1>1, <1>5, <1>6
<1> QED BY <1>2, <1>3, <1>7

Quoted(token, n) == token.colour \in Containers /\ \E s \in ToSet(Snippets(token)) : In(n, s)
MeantIn(token, augments, n) ==
  IF Quoted(token, n) THEN {"property"} ELSE IF EmitsBase(token, augments) THEN {token.colour} ELSE {}

\* The snippets of a token and what is between them tile it, in the colours meant.
LEMMA PushedAre ==
  ASSUME NEW token \in Spans, token.from <= token.to, NEW augments \in BOOLEAN
  PROVE  /\ Pushed(token, augments) \in Seq(Spans)
         /\ Tiles(Pushed(token, augments), token.from, token.to)
         /\ \A n \in (token.from + 1)..token.to :
              {x.colour : x \in {x \in ToSet(Pushed(token, augments)) : In(n, x)}} = MeantIn(token, augments, n)
<1>a. PICK from \in Nat : from = token.from
  BY DEF Spans
<1>b. PICK to \in Nat : to = token.to
  BY DEF Spans
<1>c. from <= to /\ token.colour \in Colours
  BY <1>a, <1>b DEF Spans
<1>d. PICK snippets \in Seq(Ranges) :
        /\ snippets = IF token.colour \in Containers THEN Snippets(token) ELSE <<>>
        /\ Tiles(snippets, from, to)
  <2>1. Snippets(token) \in Seq(Ranges) /\ Tiles(Snippets(token), from, to)
    BY <1>a, <1>b, <1>c, SnippetsAre
  <2>2. <<>> \in Seq(Ranges) /\ Tiles(<<>>, from, to)
    BY EmptySeq, TilesEmpty
  <2> QED BY <2>1, <2>2
<1>e. PICK M \in Nat : M = Len(snippets) /\ DOMAIN snippets = 1..M
  BY LenProperties
<1>f. \A k \in 1..M : /\ snippets[k] \in Ranges /\ snippets[k].from \in Nat /\ snippets[k].to \in Nat
                      /\ from <= snippets[k].from /\ snippets[k].from < snippets[k].to /\ snippets[k].to <= to
                      /\ \A j \in 1..(k - 1) : snippets[j].to <= snippets[k].from
  <2>1. \A k \in 1..M : snippets[k] \in Ranges
    BY <1>e, ElementOfSeq
  <2> QED BY <1>d, <1>e, <2>1 DEF Ranges, Tiles
<1> DEFINE emits == EmitsBase(token, augments)
           start(k) == IF k = 1 THEN token.from ELSE snippets[k - 1].to
           end(k) == IF k > Len(snippets) THEN token.to ELSE snippets[k].from
           base(k) == [from |-> start(k), to |-> end(k), colour |-> token.colour]
           property(k) == [from |-> snippets[k].from, to |-> snippets[k].to, colour |-> "property"]
           before(k) == IF emits /\ start(k) < end(k) THEN <<base(k)>> ELSE <<>>
           after(k) == IF k > Len(snippets) THEN <<>> ELSE <<property(k)>>
           step(k) == before(k) \o after(k)
           ss == [k \in 1..(Len(snippets) + 1) |-> step(k)]
           b == [k \in 0..(M + 1) |-> start(k + 1)]
           last(k) == IF k > M THEN to ELSE snippets[k].to
           bound == [k \in 0..(M + 1) |-> IF k = 0 THEN from ELSE last(k)]
<1>1. Pushed(token, augments) = FlattenSeq(ss)
  <2> HIDE DEF emits
  <2> QED BY <1>d DEF Pushed, emits
<1>2. ASSUME NEW k \in 1..(M + 1)
      PROVE  /\ start(k) \in Nat /\ end(k) \in Nat /\ last(k) \in Nat
             /\ bound[k - 1] = start(k) /\ bound[k] = last(k)
             /\ start(k) <= end(k) /\ end(k) <= last(k)
             /\ from <= start(k)
             /\ k <= M => /\ end(k) = snippets[k].from /\ last(k) = snippets[k].to
                          /\ property(k) \in Spans /\ after(k) = <<property(k)>>
             /\ k > M => end(k) = last(k) /\ after(k) = <<>>
  <2>1. k \in Nat /\ k - 1 \in 0..(M + 1) /\ k \in 0..(M + 1) /\ k # 0
    OBVIOUS
  <2>2. CASE k = 1
    <3>1. start(k) = from /\ bound[k - 1] = from
      BY <1>a, <2>1, <2>2
    <3>2. CASE M = 0
      BY <1>a, <1>b, <1>c, <1>e, <2>1, <2>2, <3>1, <3>2
    <3>3. CASE M # 0
      <4>1. k \in 1..M
        BY <2>2, <3>3
      <4> QED BY <1>a, <1>b, <1>c, <1>e, <1>f, <2>1, <3>1, <4>1 DEF Spans, Colours
    <3> QED BY <3>2, <3>3
  <2>3. CASE k # 1
    <3>1. k - 1 \in 1..M /\ k - 1 # 0
      BY <2>3
    <3>2. start(k) = snippets[k - 1].to /\ bound[k - 1] = snippets[k - 1].to
      BY <2>1, <2>3, <3>1
    <3>3. start(k) \in Nat /\ from <= start(k) /\ start(k) <= to
      <4>1. PICK x \in 1..M : x = k - 1
        BY <2>1, <3>1
      <4>2. PICK y \in Nat, z \in Nat :
              y = snippets[x].from /\ z = snippets[x].to /\ from <= y /\ y < z /\ z <= to
        BY <1>f
      <4>3. start(k) = z
        BY <3>2, <4>1, <4>2
      <4> HIDE DEF start
      <4> QED BY <1>b, <4>2, <4>3
    <3>4. CASE k > M
      BY <1>b, <1>e, <2>1, <3>2, <3>3, <3>4
    <3>5. CASE ~(k > M)
      <4>1. k \in 1..M /\ k - 1 \in 1..(k - 1)
        BY <2>1, <3>1, <3>5
      <4>2. start(k) <= snippets[k].from
        BY <1>f, <3>2, <4>1
      <4> HIDE DEF start
      <4> QED BY <1>e, <1>f, <2>1, <3>2, <3>3, <4>1, <4>2 DEF Spans, Colours
    <3> QED BY <3>4, <3>5
  <2> QED BY <2>2, <2>3
<1> HIDE DEF start, end, last, after
<1>3. \A x \in Spans : x.from \in Nat /\ x.to \in Nat
  BY DEF Spans
<1>4. ASSUME NEW k \in 1..(M + 1)
      PROVE  /\ before(k) \in Seq(Spans) /\ Tiles(before(k), start(k), end(k))
             /\ ToSet(before(k)) = IF emits /\ start(k) < end(k) THEN {base(k)} ELSE {}
  <2>1. start(k) \in Nat /\ end(k) \in Nat /\ start(k) <= end(k)
    BY <1>2
  <2>2. CASE emits /\ start(k) < end(k)
    <3>1. before(k) = <<base(k)>> /\ base(k) \in Spans
      BY <1>c, <2>1, <2>2 DEF Spans
    <3>2. base(k).from = start(k) /\ base(k).to = end(k)
      OBVIOUS
    <3> HIDE DEF before, base
    <3>3. before(k) \in Seq(Spans) /\ Len(before(k)) = 1 /\ before(k)[1] = base(k) /\ DOMAIN before(k) = 1..1
      BY <3>1
    <3>4. Tiles(before(k), start(k), end(k))
      BY <2>1, <2>2, <3>2, <3>3 DEF Tiles
    <3>5. ToSet(before(k)) = {base(k)}
      BY <3>3 DEF ToSet
    <3> QED BY <2>2, <3>3, <3>4, <3>5
  <2>3. CASE ~(emits /\ start(k) < end(k))
    <3>1. before(k) = <<>>
      BY <2>3
    <3> HIDE DEF before
    <3>2. before(k) \in Seq(Spans) /\ ToSet(before(k)) = {}
      BY <3>1, EmptySeq DEF ToSet
    <3> QED BY <2>3, <3>1, <3>2, TilesEmpty
  <2> QED BY <2>2, <2>3
<1>5. ASSUME NEW k \in 1..(M + 1)
      PROVE  /\ after(k) \in Seq(Spans) /\ Tiles(after(k), end(k), last(k))
             /\ ToSet(after(k)) = IF k <= M THEN {property(k)} ELSE {}
  <2>1. end(k) \in Nat /\ last(k) \in Nat /\ end(k) <= last(k)
    BY <1>2
  <2>2. CASE k <= M
    <3>1. after(k) = <<property(k)>> /\ property(k) \in Spans /\ end(k) = snippets[k].from /\ last(k) = snippets[k].to
      BY <1>2, <2>2
    <3>2. property(k).from = end(k) /\ property(k).to = last(k) /\ end(k) < last(k)
      BY <1>f, <2>2, <3>1
    <3> HIDE DEF property
    <3>3. after(k) \in Seq(Spans) /\ Len(after(k)) = 1 /\ after(k)[1] = property(k) /\ DOMAIN after(k) = 1..1
      BY <3>1
    <3>4. Tiles(after(k), end(k), last(k))
      BY <2>1, <3>2, <3>3 DEF Tiles
    <3>5. ToSet(after(k)) = {property(k)}
      BY <3>3 DEF ToSet
    <3> QED BY <2>2, <3>3, <3>4, <3>5
  <2>3. CASE ~(k <= M)
    <3>0. k > M
      BY <2>3
    <3>1. after(k) = <<>>
      BY <1>2, <3>0
    <3>2. after(k) \in Seq(Spans) /\ ToSet(after(k)) = {}
      BY <3>1, EmptySeq DEF ToSet
    <3> QED BY <2>3, <3>1, <3>2, TilesEmpty
  <2> QED BY <2>2, <2>3
<1> HIDE DEF before
<1>6. ASSUME NEW k \in 1..(M + 1)
      PROVE  /\ step(k) \in Seq(Spans) /\ Tiles(step(k), start(k), last(k))
             /\ ToSet(step(k)) = ToSet(before(k)) \cup ToSet(after(k))
  <2>1. start(k) \in Nat /\ end(k) \in Nat /\ last(k) \in Nat /\ start(k) <= end(k) /\ end(k) <= last(k)
    BY <1>2
  <2>2. step(k) \in Seq(Spans) /\ Tiles(step(k), start(k), last(k))
    BY <1>3, <1>4, <1>5, <2>1, TilesJoin
  <2>3. Range(step(k)) = Range(before(k)) \cup Range(after(k))
    BY <1>4, <1>5, RangeConcatenation
  <2> QED BY <2>2, <2>3 DEF Range, ToSet
<1> HIDE DEF step
<1>7. ss \in Seq(Seq(Spans)) /\ Len(ss) = M + 1 /\ \A k \in 1..(M + 1) : ss[k] = step(k)
  BY <1>e, <1>6
<1> HIDE DEF ss
<1>8. /\ FlattenSeq(ss) \in Seq(Spans) /\ Tiles(FlattenSeq(ss), from, to)
      /\ ToSet(FlattenSeq(ss)) = UNION {ToSet(ss[k]) : k \in 1..(M + 1)}
  <2>1. bound[0] = from /\ bound[0] \in Nat
    OBVIOUS
  <2>2. M + 1 \in 1..(M + 1) /\ bound[M + 1] = to
    BY DEF last
  <2> HIDE DEF bound
  <2>3. \A k \in 1..Len(ss) : bound[k] \in Nat /\ bound[k - 1] <= bound[k] /\ Tiles(ss[k], bound[k - 1], bound[k])
    <3> SUFFICES ASSUME NEW k \in 1..(M + 1)
                 PROVE  bound[k] \in Nat /\ bound[k - 1] <= bound[k] /\ Tiles(ss[k], bound[k - 1], bound[k])
      BY <1>7
    <3>1. /\ start(k) \in Nat /\ end(k) \in Nat /\ last(k) \in Nat
          /\ bound[k - 1] = start(k) /\ bound[k] = last(k)
          /\ start(k) <= end(k) /\ end(k) <= last(k)
      BY <1>2
    <3>2. start(k) <= last(k)
      BY <3>1
    <3> QED BY <1>6, <1>7, <3>1, <3>2
  <2> QED BY <1>3, <1>7, <2>1, <2>2, <2>3, FlattenTiles
<1> DEFINE pushed == FlattenSeq(ss)
<1> HIDE DEF pushed
<1>9. \A x : x \in ToSet(pushed) <=>
        \/ \E k \in 1..(M + 1) : emits /\ start(k) < end(k) /\ x = base(k)
        \/ \E k \in 1..M : x = property(k)
  <2>1. ToSet(pushed) = UNION {ToSet(ss[k]) : k \in 1..(M + 1)}
    BY <1>8 DEF pushed
  <2>2. \A k \in 1..(M + 1) :
          ToSet(ss[k]) = (IF emits /\ start(k) < end(k) THEN {base(k)} ELSE {})
                           \cup (IF k <= M THEN {property(k)} ELSE {})
    BY <1>4, <1>5, <1>6, <1>7
  <2>3. \A k : k \in 1..M <=> k \in 1..(M + 1) /\ k <= M
    OBVIOUS
  <2> HIDE DEF base, property, emits
  <2>4. \A k \in 1..(M + 1) : \A x :
          x \in ToSet(ss[k]) <=>
            \/ emits /\ start(k) < end(k) /\ x = base(k)
            \/ k <= M /\ x = property(k)
    BY <2>2
  <2>5. \A x : x \in ToSet(pushed) <=> \E k \in 1..(M + 1) : x \in ToSet(ss[k])
    BY <2>1
  <2> TAKE x
  <2>6. ASSUME x \in ToSet(pushed)
        PROVE  \/ \E k \in 1..(M + 1) : emits /\ start(k) < end(k) /\ x = base(k)
               \/ \E k \in 1..M : x = property(k)
    <3>1. PICK k \in 1..(M + 1) : x \in ToSet(ss[k])
      BY <2>5, <2>6
    <3>2. \/ emits /\ start(k) < end(k) /\ x = base(k)
          \/ k <= M /\ x = property(k)
      BY <2>4, <3>1, Zenon
    <3>3. k <= M => k \in 1..M
      OBVIOUS
    <3> QED BY <3>2, <3>3, Zenon
  <2>7. ASSUME NEW k \in 1..(M + 1), emits, start(k) < end(k), x = base(k) PROVE x \in ToSet(pushed)
    BY <2>4, <2>5, <2>7, Zenon
  <2>8. ASSUME NEW k \in 1..M, x = property(k) PROVE x \in ToSet(pushed)
    <3>1. k \in 1..(M + 1) /\ k <= M
      OBVIOUS
    <3> QED BY <2>4, <2>5, <2>8, <3>1, Zenon
  <2> QED BY <2>6, <2>7, <2>8, Zenon
<1>10. \A n : Quoted(token, n) <=> \E k \in 1..M : In(n, snippets[k])
  BY <1>d, <1>e, EmptySeq DEF Quoted, ToSet
<1>11. ASSUME NEW n \in (token.from + 1)..token.to
       PROVE  {x.colour : x \in {x \in ToSet(pushed) : In(n, x)}} = MeantIn(token, augments, n)
  <2>0. n \in Nat /\ from < n /\ n <= to
    BY <1>a, <1>b
  <2>1. \A x, y \in ToSet(pushed) : In(n, x) /\ In(n, y) => x = y
    <3> SUFFICES ASSUME NEW x \in ToSet(pushed), NEW y \in ToSet(pushed), In(n, x), In(n, y) PROVE x = y
      OBVIOUS
    <3>1. x.from < n /\ n <= x.to /\ y.from < n /\ n <= y.to
      BY DEF In
    <3>2. pushed \in Seq(Spans) /\ Tiles(pushed, from, to)
      BY <1>8 DEF pushed
    <3> QED BY <1>3, <2>0, <3>1, <3>2, OneTile
  <2>2. CASE Quoted(token, n)
    <3>1. PICK k \in 1..M : In(n, snippets[k])
      BY <1>10, <2>2
    <3>2. property(k) \in ToSet(pushed) /\ In(n, property(k)) /\ property(k).colour = "property"
      BY <1>9, <3>1 DEF In
    <3> HIDE DEF property
    <3>3. {x \in ToSet(pushed) : In(n, x)} = {property(k)}
      BY <2>1, <3>2
    <3> QED BY <2>2, <3>2, <3>3 DEF MeantIn
  <2>3. CASE ~Quoted(token, n) /\ emits
    <3> DEFINE T == {k \in 1..(M + 1) : n <= end(k)}
    <3>1. M + 1 \in T /\ T \subseteq Nat
      <4>1. end(M + 1) = last(M + 1) /\ last(M + 1) = to
        <5>1. M + 1 \in 1..(M + 1) /\ M + 1 > M
          OBVIOUS
        <5> QED BY <1>2, <5>1 DEF last
      <4> QED BY <2>0, <4>1
    <3>2. PICK k \in T : \A j \in T : k <= j
      BY <3>1, LeastNumber
    <3>3. k \in 1..(M + 1) /\ n <= end(k) /\ start(k) \in Nat /\ end(k) \in Nat
      BY <1>2, <3>2
    <3>4. start(k) < n
      <4>1. CASE k = 1
        BY <1>a, <2>0, <4>1 DEF start
      <4>2. CASE k # 1
        <5>1. k - 1 \in 1..M /\ k - 1 \in 1..(M + 1) /\ k - 1 < k
          BY <3>3, <4>2
        <5>2. ~(n <= end(k - 1))
          BY <3>2, <5>1
        <5>3. end(k - 1) = snippets[k - 1].from /\ start(k) = snippets[k - 1].to
          <6>1. start(k) = snippets[k - 1].to
            BY <4>2 DEF start
          <6>2. PICK j \in 1..(M + 1) : j = k - 1 /\ j <= M
            BY <5>1
          <6>3. end(j) = snippets[j].from
            BY <1>2, <6>2
          <6> QED BY <6>1, <6>2, <6>3
        <5>4. ~In(n, snippets[k - 1])
          BY <1>10, <2>3, <5>1
        <5>5. snippets[k - 1].from \in Nat /\ snippets[k - 1].to \in Nat
          BY <1>f, <5>1
        <5> QED BY <2>0, <5>2, <5>3, <5>4, <5>5 DEF In
      <4> QED BY <4>1, <4>2
    <3>5. start(k) < end(k)
      BY <2>0, <3>3, <3>4
    <3>6. base(k) \in ToSet(pushed) /\ In(n, base(k)) /\ base(k).colour = token.colour
      <4>1. base(k).from = start(k) /\ base(k).to = end(k) /\ base(k).colour = token.colour
        OBVIOUS
      <4>2. base(k) \in ToSet(pushed)
        BY <1>9, <2>3, <3>3, <3>5
      <4> HIDE DEF base
      <4> QED BY <3>3, <3>4, <4>1, <4>2 DEF In
    <3> HIDE DEF base
    <3>7. {x \in ToSet(pushed) : In(n, x)} = {base(k)}
      BY <2>1, <3>6
    <3> QED BY <2>3, <3>6, <3>7 DEF MeantIn
  <2>4. CASE ~Quoted(token, n) /\ ~emits
    <3>1. ASSUME NEW x \in ToSet(pushed), In(n, x) PROVE FALSE
      <4>1. PICK k \in 1..M : x = property(k)
        BY <1>9, <2>4
      <4>2. In(n, snippets[k])
        BY <3>1, <4>1 DEF In
      <4> QED BY <1>10, <2>4, <4>2
    <3>2. {x \in ToSet(pushed) : In(n, x)} = {}
      BY <3>1
    <3> QED BY <2>4, <3>2 DEF MeantIn
  <2> QED BY <2>2, <2>3, <2>4
<1> QED BY <1>1, <1>8, <1>11, <1>a, <1>b DEF pushed

Emitted(tokens, augments) == FlattenSeq([k \in DOMAIN tokens |-> Pushed(tokens[k], augments)])

\* The spans of all tokens tile the text, in the colours meant.
LEMMA EmittedAre ==
  ASSUME TextInv, NEW tokens \in Tokenizations, NEW augments \in BOOLEAN
  PROVE  /\ Emitted(tokens, augments) \in Seq(Spans)
         /\ Tiles(Emitted(tokens, augments), 0, Len(text))
         /\ \A n \in 1..Len(text) :
              IF text[n] \in Ends THEN Meant(tokens, augments, n) = {}
              ELSE {x.colour : x \in {x \in ToSet(Emitted(tokens, augments)) : In(n, x)}}
                     = Meant(tokens, augments, n)
<1>a. PICK L \in Nat : L = Len(text)
  BY BytesRise
<1> DEFINE ends == {i \in Places(text) : i < Len(text)}
<1>1. PICK i \in Nat, e \in Nat :
        /\ i <= e /\ e <= L
        /\ tokens = <<[from |-> 0, to |-> i, colour |-> "comment"], [from |-> i, to |-> e, colour |-> "string"],
                      [from |-> e, to |-> L, colour |-> "variable"]>>
  <2>1. PICK i \in ends :
          tokens = <<[from |-> 0, to |-> i, colour |-> "comment"],
                     [from |-> i, to |-> Max(ends), colour |-> "string"],
                     [from |-> Max(ends), to |-> Len(text), colour |-> "variable"]>>
    BY DEF Tokenizations
  <2>2. ends \subseteq 0..L /\ i \in ends
    BY <1>a, <2>1 DEF Places
  <2>3. Max(ends) \in ends /\ i <= Max(ends)
    <3> HIDE DEF ends
    <3> QED BY <1>a, <2>2, MaxIsGreatest
  <2> HIDE DEF ends
  <2>4. PICK e \in Nat : e = Max(ends)
    <3>1. Max(ends) \in 0..L
      BY <2>2, <2>3, Zenon
    <3>2. \A x \in 0..L : x \in Nat
      OBVIOUS
    <3> QED BY <3>1, <3>2, Zenon
  <2>5. i \in Nat /\ i <= e /\ e <= L
    BY <1>a, <2>2, <2>3, <2>4
  <2> QED BY <1>a, <2>1, <2>4, <2>5
<1> DEFINE b == [k \in 0..3 |-> IF k = 0 THEN 0 ELSE IF k = 1 THEN i ELSE IF k = 2 THEN e ELSE L]
           ss == [k \in DOMAIN tokens |-> Pushed(tokens[k], augments)]
<1>2. DOMAIN tokens = 1..3 /\ ToSet(tokens) = {tokens[1], tokens[2], tokens[3]}
  <2>1. DOMAIN tokens = 1..3
    BY <1>1
  <2> QED BY <2>1 DEF ToSet
<1>3. /\ b[0] = 0 /\ b[3] = L
      /\ \A k \in 1..3 : b[k - 1] \in Nat /\ b[k] \in Nat /\ b[k - 1] <= b[k]
      /\ \A k \in 1..3 : tokens[k].from = b[k - 1] /\ tokens[k].to = b[k] /\ tokens[k] \in Spans
  <2>1. b[0] = 0 /\ b[1] = i /\ b[2] = e /\ b[3] = L
    BY <1>1
  <2>2. /\ tokens[1] = [from |-> 0, to |-> i, colour |-> "comment"]
        /\ tokens[2] = [from |-> i, to |-> e, colour |-> "string"]
        /\ tokens[3] = [from |-> e, to |-> L, colour |-> "variable"]
    BY <1>1
  <2>3. tokens[1] \in Spans /\ tokens[2] \in Spans /\ tokens[3] \in Spans
    BY <1>a, <1>1, <2>2 DEF Spans, Colours
  <2> HIDE DEF b
  <2>4. \A k \in 1..3 : (k = 1 /\ k - 1 = 0) \/ (k = 2 /\ k - 1 = 1) \/ (k = 3 /\ k - 1 = 2)
    OBVIOUS
  <2>5. \A k \in 1..3 : b[k - 1] \in Nat /\ b[k] \in Nat /\ b[k - 1] <= b[k]
    BY <1>a, <1>1, <2>1, <2>4
  <2>6. \A k \in 1..3 : tokens[k].from = b[k - 1] /\ tokens[k].to = b[k] /\ tokens[k] \in Spans
    BY <2>1, <2>2, <2>3, <2>4
  <2> QED BY <2>1, <2>5, <2>6
<1> HIDE DEF b
<1>4. ASSUME NEW k \in 1..3
      PROVE  /\ ss[k] \in Seq(Spans) /\ Tiles(ss[k], b[k - 1], b[k])
             /\ \A n \in (b[k - 1] + 1)..b[k] :
                  {x.colour : x \in {x \in ToSet(ss[k]) : In(n, x)}} = MeantIn(tokens[k], augments, n)
  <2>1. tokens[k] \in Spans /\ tokens[k].from = b[k - 1] /\ tokens[k].to = b[k] /\ tokens[k].from <= tokens[k].to
    BY <1>3
  <2>2. ss[k] = Pushed(tokens[k], augments)
    BY <1>2
  <2>3. /\ Pushed(tokens[k], augments) \in Seq(Spans)
        /\ Tiles(Pushed(tokens[k], augments), tokens[k].from, tokens[k].to)
        /\ \A n \in (tokens[k].from + 1)..tokens[k].to :
             {x.colour : x \in {x \in ToSet(Pushed(tokens[k], augments)) : In(n, x)}}
               = MeantIn(tokens[k], augments, n)
    BY <2>1, PushedAre
  <2> HIDE DEF ss
  <2> QED BY <2>1, <2>2, <2>3
<1>5. ss \in Seq(Seq(Spans)) /\ Len(ss) = 3
  <2>1. ss = [k \in 1..3 |-> ss[k]]
    BY <1>2
  <2> HIDE DEF ss
  <2> QED BY <1>4, <2>1
<1> HIDE DEF ss
<1>6. \A x \in Spans : x.from \in Nat /\ x.to \in Nat
  BY DEF Spans
<1> DEFINE spans == Emitted(tokens, augments)
<1>7. spans \in Seq(Spans) /\ Tiles(spans, 0, L) /\ ToSet(spans) = UNION {ToSet(ss[k]) : k \in 1..3}
  <2>1. b[0] \in Nat /\ \A k \in 1..Len(ss) : b[k] \in Nat /\ b[k - 1] <= b[k] /\ Tiles(ss[k], b[k - 1], b[k])
    BY <1>3, <1>4, <1>5
  <2>2. spans = FlattenSeq(ss)
    BY DEF Emitted, ss
  <2> HIDE DEF spans
  <2> QED BY <1>3, <1>5, <1>6, <2>1, <2>2, FlattenTiles
<1> HIDE DEF spans
<1>8. \A n : \A k \in 1..3 : In(n, tokens[k]) <=> b[k - 1] < n /\ n <= b[k]
  BY <1>3 DEF In
<1>9. ASSUME NEW n \in 1..L, NEW k \in 1..3, NEW j \in 1..3, b[k - 1] < n, n <= b[k], b[j - 1] < n, n <= b[j]
      PROVE  j = k
  <2>1. \A m \in 1..3 : (m = 1 /\ m - 1 = 0) \/ (m = 2 /\ m - 1 = 1) \/ (m = 3 /\ m - 1 = 2)
    OBVIOUS
  <2>2. /\ b[0] \in Nat /\ b[1] \in Nat /\ b[2] \in Nat /\ b[3] \in Nat
        /\ b[0] <= b[1] /\ b[1] <= b[2] /\ b[2] <= b[3]
    BY <1>3, <2>1
  <2> QED BY <1>9, <2>1, <2>2
<1>10. ASSUME NEW n \in 1..L PROVE \E k \in 1..3 : b[k - 1] < n /\ n <= b[k]
  <2>1. b[1] \in Nat /\ b[2] \in Nat /\ b[0] = 0 /\ b[3] = L /\ b[1 - 1] = b[0] /\ b[2 - 1] = b[1] /\ b[3 - 1] = b[2]
    BY <1>3
  <2>2. CASE n <= b[1]
    BY <1>a, <2>1, <2>2
  <2>3. CASE b[1] < n /\ n <= b[2]
    BY <1>a, <2>1, <2>3
  <2>4. CASE b[2] < n
    BY <1>a, <2>1, <2>4
  <2> QED BY <1>a, <2>1, <2>2, <2>3, <2>4
<1>11. ASSUME NEW n \in 1..L, text[n] \notin Ends
       PROVE  {x.colour : x \in {x \in ToSet(spans) : In(n, x)}} = Meant(tokens, augments, n)
  <2>1. PICK k \in 1..3 : b[k - 1] < n /\ n <= b[k]
    BY <1>10
  <2>2. k \in 1..3 /\ n \in (b[k - 1] + 1)..b[k]
    BY <1>3, <2>1
  <2>3. ASSUME NEW x, In(n, x) PROVE x \in ToSet(spans) <=> x \in ToSet(ss[k])
    <3>1. x \in ToSet(ss[k]) => x \in ToSet(spans)
      BY <1>7
    <3>2. ASSUME NEW j \in 1..3, x \in ToSet(ss[j]) PROVE j = k
      <4>1. Len(ss[j]) \in Nat /\ DOMAIN ss[j] = 1..Len(ss[j]) /\ ss[j] \in Seq(Spans)
        BY <1>4, LenProperties
      <4>2. PICK m \in 1..Len(ss[j]) : x = ss[j][m]
        BY <3>2, <4>1 DEF ToSet
      <4>3. b[j - 1] <= x.from /\ x.to <= b[j]
        BY <1>4, <4>2 DEF Tiles
      <4>4. x.from \in Nat /\ x.to \in Nat
        BY <1>6, <4>1, <4>2, ElementOfSeq
      <4>5. b[j - 1] < n /\ n <= b[j]
        <5>1. b[j - 1] \in Nat /\ b[j] \in Nat
          BY <1>3
        <5> QED BY <2>3, <4>3, <4>4, <5>1 DEF In
      <4> QED BY <1>9, <2>1, <4>5
    <3> QED BY <1>7, <3>1, <3>2
  <2>4. {x \in ToSet(spans) : In(n, x)} = {x \in ToSet(ss[k]) : In(n, x)}
    BY <2>3
  <2>5. {x.colour : x \in {x \in ToSet(spans) : In(n, x)}} = MeantIn(tokens[k], augments, n)
    BY <1>4, <2>2, <2>4
  <2> DEFINE T == {token \in ToSet(tokens) :
                    /\ In(n, token) /\ text[n] \notin {CR, LF}
                    /\ \/ EmitsBase(token, augments)
                       \/ \E s \in ToSet(Snippets(token)) : In(n, s)}
             colour(token) == IF token.colour \in Containers /\ \E s \in ToSet(Snippets(token)) : In(n, s)
                              THEN "property" ELSE token.colour
  <2>6. Meant(tokens, augments, n) = {colour(token) : token \in T}
    BY DEF Meant
  <2>7. ASSUME NEW token \in ToSet(tokens), In(n, token) PROVE token = tokens[k]
    <3>1. PICK j \in 1..3 : token = tokens[j]
      BY <1>2
    <3> QED BY <1>8, <1>9, <2>1, <2>7, <3>1
  <2>8. tokens[k] \in ToSet(tokens) /\ In(n, tokens[k])
    BY <1>2, <1>8, <2>1
  <2> DEFINE shown == Quoted(tokens[k], n) \/ EmitsBase(tokens[k], augments)
  <2>9. T = IF shown THEN {tokens[k]} ELSE {}
    <3>1. ~EmitsBase(tokens[k], augments) => tokens[k].colour \in Containers
      BY DEF EmitsBase
    <3>2. tokens[k] \in T <=> shown
      BY <1>11, <2>8, <3>1 DEF Quoted, Ends
    <3>3. \A token \in T : token = tokens[k]
      BY <2>7
    <3> HIDE DEF T, shown
    <3> QED BY <3>2, <3>3
  <2>10. colour(tokens[k]) = IF Quoted(tokens[k], n) THEN "property" ELSE tokens[k].colour
    BY DEF Quoted
  <2> HIDE DEF T, colour
  <2>11. {colour(token) : token \in T} = MeantIn(tokens[k], augments, n)
    <3>1. CASE shown
      <4>1. T = {tokens[k]}
        BY <2>9, <3>1
      <4>2. {colour(token) : token \in T} = {colour(tokens[k])}
        BY <4>1
      <4> QED BY <2>10, <3>1, <4>2 DEF MeantIn
    <3>2. CASE ~shown
      <4>1. T = {}
        BY <2>9, <3>2
      <4>2. {colour(token) : token \in T} = {}
        BY <4>1
      <4> QED BY <3>2, <4>2 DEF MeantIn
    <3> QED BY <3>1, <3>2
  <2> QED BY <2>5, <2>6, <2>11
<1>12. ASSUME NEW n \in 1..L, text[n] \in Ends PROVE Meant(tokens, augments, n) = {}
  BY <1>12 DEF Meant, Ends
<1> QED BY <1>a, <1>7, <1>11, <1>12 DEF spans

\* Columns of a line are in the order of its characters.
LEMMA Columns ==
  ASSUME TextInv, NEW i \in 0..Len(text), NEW j \in 0..Len(text), Breaks(text, i) = Breaks(text, j)
  PROVE  LET column(k) == ClientPosition(text, k).character
         IN  /\ column(i) \in Nat /\ column(j) \in Nat
             /\ column(i) < column(j) <=> i < j
             /\ column(i) <= column(j) <=> i <= j
<1> DEFINE s == LineStart(text, i)
<1>1. text \in Seq(Chars) /\ Len(text) \in Nat
  BY BytesRise
<1>2. s = LineStart(text, j)
  BY <1>1, PlaceOnLine
<1>3. s \in 0..i /\ s \in 0..j
  BY <1>1, <1>2, LineStartIs
<1> HIDE DEF s
<1>4. /\ Utf16 \in [Chars -> Nat] /\ Utf16 \in [Chars -> Nat \ {0}]
      /\ \A t : Units(t) = Weight(Utf16, t)
  BY ByteWeights
<1>5. /\ s \in 0..Len(text) /\ i \in s..Len(text) /\ j \in s..Len(text)
  BY <1>1, <1>3
<1>6. /\ Upto(Utf16, text, i) = Upto(Utf16, text, s) + Weight(Utf16, Between(text, s, i))
      /\ Upto(Utf16, text, j) = Upto(Utf16, text, s) + Weight(Utf16, Between(text, s, j))
  BY <1>1, <1>4, <1>5, PartWeights
<1>7. /\ Between(text, s, i) \in Seq(Chars) /\ Between(text, s, j) \in Seq(Chars)
  BY <1>1, <1>5, Parts
<1>8. /\ Weight(Utf16, Between(text, s, i)) \in Nat /\ Weight(Utf16, Between(text, s, j)) \in Nat
      /\ Upto(Utf16, text, s) \in Nat
  <2>1. ASSUME NEW t \in Seq(Chars) PROVE Weight(Utf16, t) \in Nat
    <3>1. Len(t) \in 0..Len(t)
      BY TextIsASeq
    <3> QED BY <1>4, <3>1, PrefixWeights
  <2>2. s \in 0..Len(text)
    BY <1>5
  <2>3. Upto(Utf16, text, s) \in Nat
    <3>1. \A k \in 0..Len(text) : Upto(Utf16, text, k) \in Nat
      BY <1>1, <1>4, PrefixWeights
    <3> QED BY <2>2, <3>1
  <2> QED BY <1>7, <2>1, <2>3
<1>9. Upto(Utf16, text, i) < Upto(Utf16, text, j) <=> i < j
  BY <1>1, <1>4, WeightsIncrease
<1>10. Upto(Utf16, text, j) < Upto(Utf16, text, i) <=> j < i
  BY <1>1, <1>4, WeightsIncrease
<1>11. /\ ClientPosition(text, i).character = Weight(Utf16, Between(text, s, i))
       /\ ClientPosition(text, j).character = Weight(Utf16, Between(text, s, j))
  BY <1>2, <1>4 DEF ClientPosition, s
<1> QED BY <1>6, <1>8, <1>9, <1>10, <1>11

\* A piece without line ends lies in one line, and its ends have the client's positions.
LEMMA PiecePositions ==
  ASSUME TextInv, NEW p \in 0..Len(text), NEW q \in (p + 1)..Len(text),
         \A n \in (p + 1)..q : text[n] \notin Ends
  PROVE  /\ PositionForByte(ByteOf(text, p)) = ClientPosition(text, p)
         /\ PositionForByte(ByteOf(text, q)) = ClientPosition(text, q)
         /\ \A n \in p..q : Breaks(text, n) = Breaks(text, p)
<1>1. text \in Seq(Chars) /\ Len(text) \in Nat
  BY BytesRise
<1>2. ~Inside(text, p) /\ ~Inside(text, q)
  <2>1. text[p + 1] \notin Ends /\ text[q] \notin Ends
    <3>1. p + 1 \in (p + 1)..q /\ q \in (p + 1)..q
      OBVIOUS
    <3> QED BY <3>1
  <2> QED BY <2>1 DEF Inside, Ends
<1>3. ASSUME NEW i \in 0..Len(text), ~Inside(text, i)
      PROVE  PositionForByte(ByteOf(text, i)) = ClientPosition(text, i)
  <2>1. ByteOf(text, i) \in Int /\ ByteOf(text, i) <= ByteOf(text, i)
    BY BytesRise
  <2>2. i = Len(text) \/ ByteOf(text, i) < ByteOf(text, i + 1)
    <3>1. CASE i # Len(text)
      <4>1. i + 1 \in 0..Len(text) /\ i < i + 1
        BY <1>1, <3>1
      <4> QED BY <4>1, BytesRise
    <3> QED BY <3>1
  <2>3. PositionForByte(ByteOf(text, i)) = ClientPosition(text, IF Inside(text, i) THEN i - 1 ELSE i)
    BY <2>1, <2>2, PositionOfByte
  <2> QED BY <1>3, <2>3
<1>4. p \in 0..Len(text) /\ q \in 0..Len(text)
  BY <1>1
<1>5. ASSUME NEW n \in p..q PROVE Breaks(text, n) = Breaks(text, p)
  <2>1. n \in p..Len(text) /\ \A k \in (p + 1)..n : k \in (p + 1)..q
    BY <1>1
  <2>2. \A k \in (p + 1)..n : text[k] # LF
    BY <2>1 DEF Ends
  <2> QED BY <1>1, <2>1, <2>2, BreaksCount
<1> QED BY <1>2, <1>3, <1>4, <1>5

\* What of a span is in lines.
VisibleSpan(span) ==
  LET ranges == VisibleRanges(ByteOf(text, span.from), ByteOf(text, span.to))
  IN  [i \in DOMAIN ranges |-> [from |-> ranges[i].from, to |-> ranges[i].to, colour |-> span.colour]]

LEMMA VisibleSpanIs ==
  ASSUME TextInv, NEW span \in Spans, span.from < span.to, span.to <= Len(text)
  PROVE  /\ VisibleSpan(span) \in Seq(Spans)
         /\ Tiles(VisibleSpan(span), ByteOf(text, span.from), ByteOf(text, span.to))
         /\ \A x \in ToSet(VisibleSpan(span)) :
              \E p \in span.from..span.to : \E q \in (p + 1)..span.to :
                /\ x = [from |-> ByteOf(text, p), to |-> ByteOf(text, q), colour |-> span.colour]
                /\ \A n \in (p + 1)..q : text[n] \notin Ends
         /\ \A n \in (span.from + 1)..span.to : text[n] \notin Ends =>
              \E x \in ToSet(VisibleSpan(span)) :
                x.from <= ByteOf(text, n - 1) /\ ByteOf(text, n) <= x.to /\ x.colour = span.colour
<1>a. PICK L \in Nat : L = Len(text)
  BY BytesRise
<1>b. PICK i \in Nat : i = span.from
  BY DEF Spans
<1>c. PICK j \in Nat : j = span.to
  BY DEF Spans
<1>1. i \in 0..Len(text) /\ j \in i..Len(text) /\ span.colour \in Colours
  BY <1>a, <1>b, <1>c DEF Spans
<1> DEFINE ranges == VisibleRanges(ByteOf(text, i), ByteOf(text, j))
<1>2. /\ ranges \in Seq(Ranges) /\ Tiles(ranges, ByteOf(text, i), ByteOf(text, j))
      /\ \A r \in ToSet(ranges) :
           \E p \in i..j : \E q \in (p + 1)..j :
             /\ r = [from |-> ByteOf(text, p), to |-> ByteOf(text, q)]
             /\ \A n \in (p + 1)..q : text[n] \notin Ends
      /\ \A n \in (i + 1)..j : text[n] \notin Ends =>
           \E r \in ToSet(ranges) : r.from <= ByteOf(text, n - 1) /\ ByteOf(text, n) <= r.to
  BY <1>1, VisibleAre
<1> HIDE DEF ranges
<1>3. PICK M \in Nat : M = Len(ranges) /\ DOMAIN ranges = 1..M
  BY <1>2, LenProperties
<1> DEFINE v == [k \in 1..M |-> [from |-> ranges[k].from, to |-> ranges[k].to, colour |-> span.colour]]
<1>4. VisibleSpan(span) = v
  BY <1>b, <1>c, <1>3 DEF VisibleSpan, ranges
<1>5. \A k \in 1..M : ranges[k] \in Ranges /\ ranges[k] \in ToSet(ranges)
  BY <1>2, <1>3, ElementOfSeq DEF ToSet
<1>6. v \in Seq(Spans) /\ Len(v) = M /\ DOMAIN v = 1..M
  <2>a. \A k \in 1..M : ranges[k].from \in Nat /\ ranges[k].to \in Nat
    BY <1>5 DEF Ranges
  <2>b. span.colour \in Colours
    BY DEF Spans
  <2>1. \A k \in 1..M : [from |-> ranges[k].from, to |-> ranges[k].to, colour |-> span.colour] \in Spans
    BY <2>a, <2>b DEF Spans
  <2>2. v \in [1..M -> Spans]
    BY <2>1
  <2> HIDE DEF v
  <2> QED BY <2>2
<1>7. \A k \in 1..M : v[k].from = ranges[k].from /\ v[k].to = ranges[k].to /\ v[k].colour = span.colour
  OBVIOUS
<1>8. \A k \in 1..M : v[k] = [from |-> ranges[k].from, to |-> ranges[k].to, colour |-> span.colour]
  OBVIOUS
<1> HIDE DEF v
<1>9. Tiles(v, ByteOf(text, i), ByteOf(text, j))
  <2>1. \A k \in 1..M : \A m \in 1..(k - 1) : m \in 1..M
    OBVIOUS
  <2> QED BY <1>2, <1>3, <1>6, <1>7, <2>1 DEF Tiles
<1>10. ASSUME NEW x \in ToSet(v)
       PROVE  \E p \in i..j : \E q \in (p + 1)..j :
                /\ x = [from |-> ByteOf(text, p), to |-> ByteOf(text, q), colour |-> span.colour]
                /\ \A n \in (p + 1)..q : text[n] \notin Ends
  <2>1. PICK k \in 1..M : x = v[k]
    BY <1>6 DEF ToSet
  <2>2. ranges[k] \in ToSet(ranges)
    BY <1>5
  <2>3. PICK p \in i..j : \E q \in (p + 1)..j :
          /\ ranges[k] = [from |-> ByteOf(text, p), to |-> ByteOf(text, q)]
          /\ \A n \in (p + 1)..q : text[n] \notin Ends
    BY <1>2, <2>2
  <2>4. PICK q \in (p + 1)..j :
          /\ ranges[k] = [from |-> ByteOf(text, p), to |-> ByteOf(text, q)]
          /\ \A n \in (p + 1)..q : text[n] \notin Ends
    BY <2>3
  <2>5. ranges[k].from = ByteOf(text, p) /\ ranges[k].to = ByteOf(text, q)
    BY <2>4
  <2>6. x = [from |-> ByteOf(text, p), to |-> ByteOf(text, q), colour |-> span.colour]
    BY <1>8, <2>1, <2>5
  <2> QED BY <2>4, <2>6
<1>11. ASSUME NEW n \in (i + 1)..j, text[n] \notin Ends
       PROVE  \E x \in ToSet(v) : x.from <= ByteOf(text, n - 1) /\ ByteOf(text, n) <= x.to /\ x.colour = span.colour
  <2>1. PICK r \in ToSet(ranges) : r.from <= ByteOf(text, n - 1) /\ ByteOf(text, n) <= r.to
    BY <1>2, <1>11
  <2>2. PICK k \in 1..M : r = ranges[k]
    BY <1>3 DEF ToSet
  <2>3. v[k] \in ToSet(v)
    BY <1>6 DEF ToSet
  <2> QED BY <1>7, <2>1, <2>2, <2>3
<1> QED BY <1>b, <1>c, <1>4, <1>6, <1>9, <1>10, <1>11

Shown(spans) == FlattenSeq([k \in DOMAIN spans |-> VisibleSpan(spans[k])])

\* A span as a piece, with its positions.
Placed(span) ==
  [start |-> PositionForByte(span.from), end |-> PositionForByte(span.to), colour |-> span.colour]

LEMMA ShownAre ==
  ASSUME TextInv, NEW spans \in Seq(Spans), Tiles(spans, 0, Len(text))
  PROVE  /\ Shown(spans) \in Seq(Spans)
         /\ \E a, b : Tiles(Shown(spans), a, b)
         /\ \A x \in ToSet(Shown(spans)) :
              \E y \in ToSet(spans) : \E p \in y.from..y.to : \E q \in (p + 1)..y.to :
                /\ x = [from |-> ByteOf(text, p), to |-> ByteOf(text, q), colour |-> y.colour]
                /\ q <= Len(text) /\ \A n \in (p + 1)..q : text[n] \notin Ends
         /\ \A y \in ToSet(spans) : \A n \in 1..Len(text) : In(n, y) /\ text[n] \notin Ends =>
              \E x \in ToSet(Shown(spans)) :
                x.from <= ByteOf(text, n - 1) /\ ByteOf(text, n) <= x.to /\ x.colour = y.colour
         /\ Pieces(spans) = [k \in DOMAIN Shown(spans) |-> Placed(Shown(spans)[k])]
<1>a. PICK L \in Nat : L = Len(text)
  BY BytesRise
<1>b. PICK M \in Nat : M = Len(spans) /\ DOMAIN spans = 1..M
  BY LenProperties
<1> DEFINE ss == [k \in DOMAIN spans |-> VisibleSpan(spans[k])]
           b == [k \in 0..M |-> IF k = 0 THEN 0 ELSE ByteOf(text, spans[k].to)]
<1>1. ASSUME NEW k \in 1..M
      PROVE  /\ spans[k] \in Spans /\ spans[k].from \in Nat /\ spans[k].to \in Nat
             /\ spans[k].from < spans[k].to /\ spans[k].to <= L
             /\ spans[k].from \in 0..Len(text) /\ spans[k].to \in 0..Len(text)
  <2>1. spans[k] \in Spans
    BY <1>b, ElementOfSeq
  <2>2. spans[k].from < spans[k].to /\ spans[k].to <= L
    BY <1>a, <1>b DEF Tiles
  <2>3. spans[k].from \in Nat /\ spans[k].to \in Nat
    BY <2>1 DEF Spans
  <2> QED BY <1>a, <2>1, <2>2, <2>3
<1>2. ASSUME NEW k \in 1..M
      PROVE  /\ VisibleSpan(spans[k]) \in Seq(Spans)
             /\ Tiles(VisibleSpan(spans[k]), ByteOf(text, spans[k].from), ByteOf(text, spans[k].to))
             /\ \A x \in ToSet(VisibleSpan(spans[k])) :
                  \E p \in spans[k].from..spans[k].to : \E q \in (p + 1)..spans[k].to :
                    /\ x = [from |-> ByteOf(text, p), to |-> ByteOf(text, q), colour |-> spans[k].colour]
                    /\ \A n \in (p + 1)..q : text[n] \notin Ends
             /\ \A n \in (spans[k].from + 1)..spans[k].to : text[n] \notin Ends =>
                  \E x \in ToSet(VisibleSpan(spans[k])) :
                    x.from <= ByteOf(text, n - 1) /\ ByteOf(text, n) <= x.to /\ x.colour = spans[k].colour
  <2>1. spans[k] \in Spans /\ spans[k].from < spans[k].to /\ spans[k].to <= Len(text)
    BY <1>1, <1>a
  <2> QED BY <2>1, VisibleSpanIs
<1>3. ss \in Seq(Seq(Spans)) /\ Len(ss) = M /\ \A k \in 1..M : ss[k] = VisibleSpan(spans[k])
  <2>1. \A k \in 1..M : VisibleSpan(spans[k]) \in Seq(Spans)
    BY <1>2
  <2> QED BY <1>b, <2>1
<1>4. \A x \in Spans : x.from \in Nat /\ x.to \in Nat
  BY DEF Spans
<1>5. b[0] = 0 /\ \A k \in 1..M : b[k] = ByteOf(text, spans[k].to)
  OBVIOUS
<1> HIDE DEF ss, b
<1>6. ASSUME NEW k \in 1..M
      PROVE  b[k] \in Nat /\ b[k - 1] <= b[k] /\ Tiles(ss[k], b[k - 1], b[k])
  <2>1. PICK f \in 0..Len(text), t \in 0..Len(text) : f = spans[k].from /\ t = spans[k].to /\ f < t
    BY <1>1
  <2>2. ByteOf(text, f) \in Nat /\ ByteOf(text, t) \in Nat /\ ByteOf(text, f) < ByteOf(text, t)
    BY <2>1, BytesRise
  <2>3. b[k - 1] \in Nat /\ b[k - 1] <= ByteOf(text, f)
    <3>1. CASE k = 1
      BY <1>5, <2>2, <3>1
    <3>2. CASE k # 1
      <4>1. PICK j \in 1..M : j = k - 1 /\ j \in 1..(k - 1)
        BY <3>2
      <4>2. spans[j].to <= spans[k].from
        BY <1>b, <4>1 DEF Tiles
      <4>3. spans[j].to \in 0..Len(text)
        BY <1>1
      <4>4. ByteOf(text, spans[j].to) \in Nat /\ ByteOf(text, spans[j].to) <= ByteOf(text, f)
        BY <2>1, <4>2, <4>3, BytesRise
      <4> QED BY <1>5, <4>1, <4>4
    <3> QED BY <3>1, <3>2
  <2>4. Tiles(ss[k], ByteOf(text, f), ByteOf(text, t)) /\ ss[k] \in Seq(Spans) /\ b[k] = ByteOf(text, t)
    BY <1>2, <1>3, <1>5, <2>1
  <2>5. ByteOf(text, t) <= ByteOf(text, t)
    BY <2>2
  <2>6. Tiles(ss[k], b[k - 1], ByteOf(text, t))
    BY <1>4, <2>2, <2>3, <2>4, <2>5, TilesWiden
  <2> QED BY <2>2, <2>3, <2>4, <2>6
<1> DEFINE shown == Shown(spans)
<1>7. shown \in Seq(Spans) /\ Tiles(shown, b[0], b[M]) /\ ToSet(shown) = UNION {ToSet(ss[k]) : k \in 1..M}
  <2>1. shown = FlattenSeq(ss)
    BY DEF Shown, ss
  <2>2. b[0] \in Nat /\ \A k \in 1..Len(ss) : b[k] \in Nat /\ b[k - 1] <= b[k] /\ Tiles(ss[k], b[k - 1], b[k])
    BY <1>3, <1>5, <1>6
  <2> HIDE DEF shown
  <2> QED BY <1>3, <1>4, <2>1, <2>2, FlattenTiles
<1> HIDE DEF shown
<1>8. ASSUME NEW x \in ToSet(shown)
      PROVE  \E y \in ToSet(spans) : \E p \in y.from..y.to : \E q \in (p + 1)..y.to :
                /\ x = [from |-> ByteOf(text, p), to |-> ByteOf(text, q), colour |-> y.colour]
                /\ q <= Len(text) /\ \A n \in (p + 1)..q : text[n] \notin Ends
  <2>1. PICK k \in 1..M : x \in ToSet(VisibleSpan(spans[k]))
    BY <1>3, <1>7
  <2>2. PICK p \in spans[k].from..spans[k].to : \E q \in (p + 1)..spans[k].to :
           /\ x = [from |-> ByteOf(text, p), to |-> ByteOf(text, q), colour |-> spans[k].colour]
           /\ \A n \in (p + 1)..q : text[n] \notin Ends
    BY <1>2, <2>1
  <2>3. PICK q \in (p + 1)..spans[k].to :
           /\ x = [from |-> ByteOf(text, p), to |-> ByteOf(text, q), colour |-> spans[k].colour]
           /\ \A n \in (p + 1)..q : text[n] \notin Ends
    BY <2>2
  <2>4. q <= Len(text)
    BY <1>1, <1>a
  <2>5. spans[k] \in ToSet(spans)
    BY <1>b DEF ToSet
  <2> QED BY <2>3, <2>4, <2>5
<1>9. ASSUME NEW y \in ToSet(spans), NEW n \in 1..Len(text), In(n, y), text[n] \notin Ends
      PROVE  \E x \in ToSet(shown) :
               x.from <= ByteOf(text, n - 1) /\ ByteOf(text, n) <= x.to /\ x.colour = y.colour
  <2>1. PICK k \in 1..M : y = spans[k]
    BY <1>b DEF ToSet
  <2>2. n \in (spans[k].from + 1)..spans[k].to
    BY <1>1, <1>9, <2>1 DEF In
  <2>3. PICK x \in ToSet(VisibleSpan(spans[k])) :
          x.from <= ByteOf(text, n - 1) /\ ByteOf(text, n) <= x.to /\ x.colour = spans[k].colour
    BY <1>2, <1>9, <2>2
  <2>4. x \in ToSet(shown)
    BY <1>3, <1>7
  <2> QED BY <2>1, <2>3, <2>4
<1>10. Pieces(spans) = [k \in DOMAIN shown |-> Placed(shown[k])]
  <2> DEFINE F == [x \in Spans |-> Placed(x)]
             place(k) == [i \in DOMAIN ss[k] |-> Placed(ss[k][i])]
  <2>1. Pieces(spans) = FlattenSeq([k \in 1..M |-> place(k)])
    <3>1. Pieces(spans) = FlattenSeq([k \in DOMAIN spans |->
             [i \in DOMAIN VisibleSpan(spans[k]) |-> Placed(VisibleSpan(spans[k])[i])]])
      BY DEF Pieces, Placed, VisibleSpan
    <3> QED BY <1>b, <1>3, <3>1
  <2>2. shown = FlattenSeq(ss)
    BY DEF shown, Shown, ss
  <2>3. \A x \in Spans : F[x] = Placed(x)
    OBVIOUS
  <2> HIDE DEF F
  <2>4. \A k \in 1..M : \A i \in DOMAIN ss[k] : ss[k][i] \in Spans
    BY <1>3, LenProperties, ElementOfSeq
  <2>5. \A k \in 1..M : place(k) = Mapped(F, ss[k])
    BY <2>3, <2>4 DEF Mapped
  <2> HIDE DEF place
  <2>6. [k \in 1..M |-> place(k)] = [k \in 1..Len(ss) |-> Mapped(F, ss[k])]
    BY <1>3, <2>5
  <2>7. FlattenSeq([k \in 1..Len(ss) |-> Mapped(F, ss[k])]) = Mapped(F, FlattenSeq(ss))
    BY <1>3, FlattenMaps
  <2>8. Pieces(spans) = Mapped(F, shown)
    BY <2>1, <2>2, <2>6, <2>7
  <2>9. \A k \in DOMAIN shown : shown[k] \in Spans
    BY <1>7, LenProperties, ElementOfSeq
  <2> QED BY <2>3, <2>8, <2>9 DEF Mapped
<1> QED BY <1>7, <1>8, <1>9, <1>10 DEF shown

\* The pieces by the places f[k] and g[k] where they begin and end.
PiecesBetween(N, f, g, h) ==
  [k \in 1..N |-> [start |-> ClientPosition(text, f[k]), end |-> ClientPosition(text, g[k]), colour |-> h[k]]]

\* They come in order, none has a line end, and together they have what the spans have.
PiecesCome(spans, N, f, g, h) ==
  /\ Pieces(spans) = PiecesBetween(N, f, g, h)
  /\ \A k \in 1..N : /\ f[k] < g[k] /\ \A n \in (f[k] + 1)..g[k] : text[n] \notin Ends
                     /\ \A j \in 1..(k - 1) : g[j] <= f[k]
                     /\ \E y \in ToSet(spans) : y.from <= f[k] /\ g[k] <= y.to /\ y.colour = h[k]
  /\ \A y \in ToSet(spans) : \A n \in 1..Len(text) : In(n, y) /\ text[n] \notin Ends =>
       \E k \in 1..N : f[k] < n /\ n <= g[k] /\ h[k] = y.colour

LEMMA PiecesAre ==
  ASSUME TextInv, NEW spans \in Seq(Spans), Tiles(spans, 0, Len(text))
  PROVE  \E N \in Nat : \E f, g \in [1..N -> 0..Len(text)] : \E h \in [1..N -> Colours] :
           PiecesCome(spans, N, f, g, h)
<1>a. PICK L \in Nat : L = Len(text)
  BY BytesRise
<1> DEFINE B(i) == ByteOf(text, i)
<1>b. /\ \A i \in 0..L : B(i) \in Nat
      /\ \A i, j \in 0..L : (B(i) < B(j) <=> i < j) /\ (B(i) <= B(j) <=> i <= j)
  BY <1>a, BytesRise
<1> HIDE DEF B
<1> DEFINE Q == Shown(spans)
<1>1. /\ Q \in Seq(Spans) /\ \E a, b : Tiles(Q, a, b)
      /\ \A x \in ToSet(Q) :
           \E y \in ToSet(spans) : \E p \in y.from..y.to : \E q \in (p + 1)..y.to :
             /\ x = [from |-> B(p), to |-> B(q), colour |-> y.colour]
             /\ q <= L /\ \A n \in (p + 1)..q : text[n] \notin Ends
      /\ \A y \in ToSet(spans) : \A n \in 1..L : In(n, y) /\ text[n] \notin Ends =>
           \E x \in ToSet(Q) : x.from <= B(n - 1) /\ B(n) <= x.to /\ x.colour = y.colour
  BY <1>a, ShownAre DEF B
<1>2. Pieces(spans) = [k \in DOMAIN Q |->
         [start |-> PositionForByte(Q[k].from), end |-> PositionForByte(Q[k].to), colour |-> Q[k].colour]]
  BY ShownAre DEF Placed
<1> HIDE DEF Q
<1>3. PICK N \in Nat : N = Len(Q) /\ DOMAIN Q = 1..N
  BY <1>1, LenProperties
<1>4. \A y \in ToSet(spans) : y.from \in Nat /\ y.to \in Nat
  <2>1. Len(spans) \in Nat /\ DOMAIN spans = 1..Len(spans)
    BY LenProperties
  <2>2. \A k \in 1..Len(spans) : spans[k] \in Spans
    BY ElementOfSeq
  <2> QED BY <2>1, <2>2 DEF ToSet, Spans
<1> DEFINE at(k, p, q) ==
             /\ Q[k].from = B(p) /\ Q[k].to = B(q) /\ p < q
             /\ \A n \in (p + 1)..q : text[n] \notin Ends
             /\ \E y \in ToSet(spans) : y.from <= p /\ q <= y.to /\ y.colour = Q[k].colour
<1>5. ASSUME NEW k \in 1..N PROVE \E p \in 0..L, q \in 0..L : at(k, p, q)
  <2>1. Q[k] \in ToSet(Q)
    BY <1>3 DEF ToSet
  <2>2. PICK y \in ToSet(spans) : \E p \in y.from..y.to : \E q \in (p + 1)..y.to :
             /\ Q[k] = [from |-> B(p), to |-> B(q), colour |-> y.colour]
             /\ q <= L /\ \A n \in (p + 1)..q : text[n] \notin Ends
    BY <1>1, <2>1
  <2>3. PICK p \in y.from..y.to : \E q \in (p + 1)..y.to :
             /\ Q[k] = [from |-> B(p), to |-> B(q), colour |-> y.colour]
             /\ q <= L /\ \A n \in (p + 1)..q : text[n] \notin Ends
    BY <2>2
  <2>4. PICK q \in (p + 1)..y.to :
             /\ Q[k] = [from |-> B(p), to |-> B(q), colour |-> y.colour]
             /\ q <= L /\ \A n \in (p + 1)..q : text[n] \notin Ends
    BY <2>3
  <2>5. y.from \in Nat /\ y.to \in Nat
    BY <1>4
  <2>6. p \in 0..L /\ q \in 0..L /\ p < q /\ y.from <= p /\ q <= y.to
    BY <2>4, <2>5
  <2>7. Q[k].from = B(p) /\ Q[k].to = B(q) /\ y.colour = Q[k].colour
    BY <2>4
  <2> QED BY <2>4, <2>6, <2>7
<1> DEFINE begin(k) == CHOOSE p \in 0..L : \E q \in 0..L : at(k, p, q)
           finish(k) == CHOOSE q \in 0..L : at(k, begin(k), q)
<1> HIDE DEF at
<1>c. ASSUME NEW k \in 1..N
      PROVE  /\ begin(k) \in 0..L /\ finish(k) \in 0..L /\ at(k, begin(k), finish(k))
             /\ Q[k].colour \in Colours
  <2>1. begin(k) \in 0..L /\ \E q \in 0..L : at(k, begin(k), q)
    BY <1>5
  <2> HIDE DEF begin
  <2>2. finish(k) \in 0..L /\ at(k, begin(k), finish(k))
    BY <2>1
  <2>3. Q[k] \in Spans
    BY <1>1, <1>3, ElementOfSeq
  <2> QED BY <2>1, <2>2, <2>3 DEF Spans
<1> HIDE DEF begin, finish
<1> DEFINE f == [k \in 1..N |-> begin(k)]
           g == [k \in 1..N |-> finish(k)]
           h == [k \in 1..N |-> Q[k].colour]
<1>6. ASSUME NEW k \in 1..N
      PROVE  /\ f[k] \in 0..L /\ g[k] \in 0..L /\ h[k] = Q[k].colour /\ h[k] \in Colours
             /\ at(k, f[k], g[k])
  BY <1>c
<1>7. f \in [1..N -> 0..L] /\ g \in [1..N -> 0..L] /\ h \in [1..N -> Colours]
  BY <1>c
<1> HIDE DEF f, g, h
<1>8. ASSUME NEW k \in 1..N
      PROVE  /\ Q[k].from = B(f[k]) /\ Q[k].to = B(g[k]) /\ f[k] < g[k]
             /\ \A n \in (f[k] + 1)..g[k] : text[n] \notin Ends
             /\ \E y \in ToSet(spans) : y.from <= f[k] /\ g[k] <= y.to /\ y.colour = h[k]
  BY <1>6 DEF at
<1>9. ASSUME NEW k \in 1..N, NEW j \in 1..(k - 1) PROVE g[j] <= f[k]
  <2>1. PICK a, b : Tiles(Q, a, b)
    BY <1>1
  <2>2. Q[j].to <= Q[k].from /\ j \in 1..N
    BY <1>3, <2>1 DEF Tiles
  <2>3. g[j] \in 0..L /\ f[k] \in 0..L /\ B(g[j]) <= B(f[k])
    BY <1>6, <1>8, <2>2
  <2> QED BY <1>b, <2>3
<1>10. Pieces(spans) = PiecesBetween(N, f, g, h)
  <2>1. ASSUME NEW k \in 1..N
        PROVE  /\ PositionForByte(Q[k].from) = ClientPosition(text, f[k])
               /\ PositionForByte(Q[k].to) = ClientPosition(text, g[k])
    <3>1. f[k] \in 0..Len(text) /\ g[k] \in (f[k] + 1)..Len(text)
      BY <1>a, <1>6, <1>8
    <3>2. \A n \in (f[k] + 1)..g[k] : text[n] \notin Ends
      BY <1>8
    <3>3. /\ PositionForByte(ByteOf(text, f[k])) = ClientPosition(text, f[k])
          /\ PositionForByte(ByteOf(text, g[k])) = ClientPosition(text, g[k])
      BY <3>1, <3>2, PiecePositions
    <3> QED BY <1>8, <3>3 DEF B
  <2>2. \A k \in 1..N : h[k] = Q[k].colour
    BY <1>6
  <2> QED BY <1>2, <1>3, <2>1, <2>2 DEF PiecesBetween
<1>11. ASSUME NEW y \in ToSet(spans), NEW n \in 1..L, In(n, y), text[n] \notin Ends
       PROVE  \E k \in 1..N : f[k] < n /\ n <= g[k] /\ h[k] = y.colour
  <2>1. PICK x \in ToSet(Q) : x.from <= B(n - 1) /\ B(n) <= x.to /\ x.colour = y.colour
    BY <1>1, <1>11
  <2>2. PICK k \in 1..N : x = Q[k]
    BY <1>3 DEF ToSet
  <2>3. /\ B(f[k]) <= B(n - 1) /\ B(n) <= B(g[k]) /\ f[k] \in 0..L /\ g[k] \in 0..L
        /\ n \in 0..L /\ n - 1 \in 0..L
    BY <1>6, <1>8, <2>1, <2>2
  <2>4. f[k] <= n - 1 /\ n <= g[k]
    BY <1>b, <2>3
  <2>5. f[k] < n
    BY <2>3, <2>4
  <2> QED BY <1>6, <2>1, <2>2, <2>4, <2>5
<1>12. PiecesCome(spans, N, f, g, h)
  BY <1>a, <1>8, <1>9, <1>10, <1>11, Zenon DEF PiecesCome
<1>13. f \in [1..N -> 0..Len(text)] /\ g \in [1..N -> 0..Len(text)]
  BY <1>a, <1>7
<1> QED BY <1>7, <1>12, <1>13, Zenon

\* Where the client puts what was sent for pieces that come in order.
LEMMA DecodedAre ==
  ASSUME NEW N \in Nat, NEW P, DOMAIN P = 1..N,
         \A k \in 1..N : /\ P[k].start.line \in Nat /\ P[k].start.character \in Nat
                         /\ P[k].end.character \in Nat,
         \A k \in 2..N : /\ P[k - 1].start.line <= P[k].start.line
                         /\ P[k - 1].start.line = P[k].start.line =>
                              P[k - 1].start.character <= P[k].start.character
  PROVE  /\ DOMAIN Encoded(P) = 1..N
         /\ \A k \in 1..N : Encoded(P)[k].deltaLine >= 0 /\ Encoded(P)[k].deltaStart >= 0
         /\ Decoded(Encoded(P)) =
              [k \in 1..N |-> [line |-> P[k].start.line,
                               length |-> P[k].end.character - P[k].start.character,
                               colour |-> P[k].colour, character |-> P[k].start.character]]
<1> DEFINE sent == Encoded(P)
           origin == [line |-> 0, character |-> 0]
           previous(k) == IF k = 1 THEN origin ELSE P[k - 1].start
<1>1. DOMAIN sent = 1..N /\ \A k \in 1..N : sent[k] = Relative(P[k], previous(k))
  BY DEF Encoded
<1> DEFINE before(r, k) == IF k = 1 THEN [line |-> 0, character |-> 0]
                           ELSE r[k - 1]
           step(r, k) == [line |-> before(r, k).line + sent[k].deltaLine,
                          length |-> sent[k].length, colour |-> sent[k].colour,
                          character |-> sent[k].deltaStart + IF sent[k].deltaLine = 0 THEN before(r, k).character ELSE 0]
           target(k) == [line |-> P[k].start.line, length |-> P[k].end.character - P[k].start.character,
                         colour |-> P[k].colour, character |-> P[k].start.character]
           t == [k \in 1..N |-> target(k)]
           place == CHOOSE r : r = [k \in DOMAIN sent |-> step(r, k)]
<1>2. Decoded(sent) = place
  <2> HIDE DEF sent
  <2> QED BY DEF Decoded
<1> HIDE DEF sent
<1>3. ASSUME NEW k \in 1..N, NEW r, k = 1 \/ r[k - 1] = target(k - 1)
      PROVE  sent[k].deltaLine >= 0 /\ sent[k].deltaStart >= 0 /\ step(r, k) = target(k)
  <2>1. PICK line \in Nat, character \in Nat, end \in Nat :
          line = P[k].start.line /\ character = P[k].start.character /\ end = P[k].end.character
    OBVIOUS
  <2>2. PICK a \in Nat, c \in Nat :
          /\ previous(k).line = a /\ previous(k).character = c
          /\ before(r, k).line = a /\ before(r, k).character = c
          /\ a <= line /\ (a = line => c <= character)
    <3>1. CASE k = 1
      BY <3>1
    <3>2. CASE k # 1
      <4>1. k \in 2..N /\ k - 1 \in 1..N
        BY <3>2
      <4>2. /\ previous(k).line = P[k - 1].start.line /\ previous(k).character = P[k - 1].start.character
            /\ before(r, k).line = P[k - 1].start.line /\ before(r, k).character = P[k - 1].start.character
        BY <1>3, <3>2
      <4>3. /\ P[k - 1].start.line \in Nat /\ P[k - 1].start.character \in Nat
            /\ P[k - 1].start.line <= line
            /\ P[k - 1].start.line = line => P[k - 1].start.character <= character
        BY <2>1, <4>1
      <4> HIDE DEF previous, before
      <4> QED BY <4>2, <4>3
    <3> QED BY <3>1, <3>2
  <2> HIDE DEF previous, before
  <2>3. /\ sent[k].deltaLine = line - a
        /\ sent[k].deltaStart = IF line = a THEN character - c ELSE character
        /\ sent[k].length = end - character /\ sent[k].colour = P[k].colour
    <3>1. sent[k] = Relative(P[k], previous(k))
      BY <1>1
    <3>2. DeltaStart(P[k].start, previous(k)) = IF line = a THEN character - c ELSE character
      BY <2>1, <2>2 DEF DeltaStart
    <3>3. Relative(P[k], previous(k)) =
            [deltaLine |-> line - a, deltaStart |-> IF line = a THEN character - c ELSE character,
             length |-> end - character, colour |-> P[k].colour]
      BY <2>1, <2>2, <3>2 DEF Relative
    <3> QED BY <3>1, <3>3
  <2>4. sent[k].deltaLine >= 0 /\ sent[k].deltaStart >= 0
    BY <2>2, <2>3
  <2>5. step(r, k) = [line |-> a + (line - a), length |-> end - character, colour |-> P[k].colour,
                      character |-> (IF line = a THEN character - c ELSE character)
                                      + IF line - a = 0 THEN c ELSE 0]
    BY <2>2, <2>3
  <2>6. /\ a + (line - a) = line
        /\ (IF line = a THEN character - c ELSE character) + (IF line - a = 0 THEN c ELSE 0) = character
    OBVIOUS
  <2>7. target(k) = [line |-> line, length |-> end - character, colour |-> P[k].colour, character |-> character]
    BY <2>1
  <2> HIDE DEF step, target
  <2> QED BY <2>4, <2>5, <2>6, <2>7
<1> HIDE DEF step, target
<1>4. \A k \in 1..N : t[k] = target(k) /\ (k = 1 \/ t[k - 1] = target(k - 1))
  OBVIOUS
<1>5. t = [k \in DOMAIN sent |-> step(t, k)]
  <2>1. \A k \in 1..N : step(t, k) = target(k)
    <3> HIDE DEF t
    <3> QED BY <1>3, <1>4
  <2>2. t = [k \in 1..N |-> target(k)]
    OBVIOUS
  <2> HIDE DEF t
  <2> QED BY <1>1, <2>1, <2>2
<1>6. place = [k \in DOMAIN sent |-> step(place, k)]
  <2> HIDE DEF t
  <2> QED BY <1>5
<1> HIDE DEF place, t
<1>7. \A k \in 1..N : place[k] = step(place, k)
  BY <1>1, <1>6
<1> DEFINE A == {k \in 0..N : \A j \in 1..k : place[j] = target(j)}
<1>8. N \in A
  <2>1. 0 \in A
    OBVIOUS
  <2>2. ASSUME NEW m \in 1..N, m \notin A, m - 1 \in A PROVE FALSE
    <3>1. m = 1 \/ place[m - 1] = target(m - 1)
      <4>1. m # 1 => m - 1 \in 1..(m - 1)
        OBVIOUS
      <4> QED BY <2>2, <4>1
    <3>2. place[m] = target(m)
      BY <1>3, <1>7, <3>1
    <3>3. \A j \in 1..m : j \in 1..(m - 1) \/ j = m
      OBVIOUS
    <3>4. m \in A
      BY <2>2, <3>2, <3>3
    <3> QED BY <2>2, <3>4
  <2> HIDE DEF A
  <2> QED BY <2>1, <2>2, FirstFailure
<1>9. place = [k \in 1..N |-> target(k)]
  <2>1. \A k \in 1..N : place[k] = target(k)
    BY <1>8
  <2>2. \A k \in 1..N : step(place, k) = target(k)
    BY <1>7, <2>1
  <2> QED BY <1>1, <1>6, <2>2
<1>10. \A k \in 1..N : sent[k].deltaLine >= 0 /\ sent[k].deltaStart >= 0
  BY <1>3, <1>4
<1> QED BY <1>1, <1>2, <1>9, <1>10 DEF sent, target

\* In the editor's buffer every character has the one colour meant for it, whatever
\* comments and strings with whatever snippets a text has: what is sent, place by
\* place relative to the one before, comes in order and without a difference below
\* zero (collect_semantic_tokens, SemanticTokenEmitter::push).
THEOREM TokensAlwaysColourTheBuffer == Spec => []TokensColourTheBuffer
<1>1. ASSUME TextInv PROVE TokensColourTheBuffer
  <2>1. SUFFICES ASSUME NEW tokens \in Tokenizations, NEW augments \in BOOLEAN
                 PROVE  LET sent == CollectSemanticTokens(tokens, augments)
                        IN  /\ \A k \in DOMAIN sent : sent[k].deltaLine >= 0 /\ sent[k].deltaStart >= 0
                            /\ InOrder(Decoded(sent))
                            /\ \A n \in DOMAIN buffer :
                                 ColoursAt(Decoded(sent), ClientPosition(buffer, n - 1))
                                   = Meant(tokens, augments, n)
    BY DEF TokensColourTheBuffer
  <2>a. PICK L \in Nat : L = Len(text) /\ DOMAIN buffer = 1..L /\ buffer = text
    BY <1>1, BytesRise DEF TextInv
  <2> DEFINE spans == Emitted(tokens, augments)
             sent == CollectSemanticTokens(tokens, augments)
  <2>2. /\ spans \in Seq(Spans) /\ Tiles(spans, 0, Len(text))
        /\ \A n \in 1..L : IF text[n] \in Ends THEN Meant(tokens, augments, n) = {}
                           ELSE {x.colour : x \in {x \in ToSet(spans) : In(n, x)}} = Meant(tokens, augments, n)
    BY <1>1, <2>a, EmittedAre
  <2>3. sent = Encoded(Pieces(spans))
    BY DEF CollectSemanticTokens, Emitted
  <2> HIDE DEF spans, sent
  <2>b. PICK N \in Nat : \E f, g \in [1..N -> 0..L] : \E h \in [1..N -> Colours] : PiecesCome(spans, N, f, g, h)
    <3>1. \E N \in Nat : \E f, g \in [1..N -> 0..Len(text)] : \E h \in [1..N -> Colours] :
             PiecesCome(spans, N, f, g, h)
      BY <1>1, <2>2, PiecesAre
    <3> QED BY <2>a, <3>1
  <2>c. PICK f \in [1..N -> 0..L], g \in [1..N -> 0..L] : \E h \in [1..N -> Colours] : PiecesCome(spans, N, f, g, h)
    BY <2>b, Zenon
  <2>4. PICK h \in [1..N -> Colours] : PiecesCome(spans, N, f, g, h)
    BY <2>c, Zenon
  <2>5. \A k \in 1..N : f[k] \in 0..L /\ g[k] \in 0..L /\ f[k] < g[k] /\ \A j \in 1..(k - 1) : g[j] <= f[k]
    BY <2>4 DEF PiecesCome
  <2> DEFINE P == Pieces(spans)
             line(i) == Breaks(text, i)
             column(i) == ClientPosition(text, i).character
  <2>6. /\ DOMAIN P = 1..N
        /\ \A k \in 1..N : /\ P[k].start.line = line(f[k]) /\ P[k].start.character = column(f[k])
                           /\ P[k].end.character = column(g[k]) /\ P[k].colour = h[k]
    BY <2>4 DEF PiecesCome, PiecesBetween, ClientPosition
  <2> HIDE DEF P
  <2>7. /\ \A i \in 0..L : line(i) \in Nat /\ column(i) \in Nat
        /\ \A i, j \in 0..L : i <= j => line(i) <= line(j)
        /\ \A i, j \in 0..L : line(i) = line(j) => /\ column(i) < column(j) <=> i < j
                                                  /\ column(i) <= column(j) <=> i <= j
    <3>1. \A i \in 0..L : line(i) \in Nat
      BY <1>1, <2>a, BytesRise
    <3>2. \A i, j \in 0..L : i <= j => line(i) <= line(j)
      BY <1>1, <2>a, BytesRise
    <3>3. ASSUME NEW i \in 0..L, NEW j \in 0..L, line(i) = line(j)
          PROVE  /\ column(i) \in Nat
                 /\ column(i) < column(j) <=> i < j
                 /\ column(i) <= column(j) <=> i <= j
      BY <1>1, <2>a, <3>3, Columns
    <3> HIDE DEF column
    <3> QED BY <3>1, <3>2, <3>3
  <2>8. ASSUME NEW k \in 1..N PROVE \A i \in f[k]..g[k] : line(i) = line(f[k])
    <3>1. f[k] \in 0..Len(text) /\ g[k] \in (f[k] + 1)..Len(text)
      BY <2>a, <2>5
    <3>2. \A n \in (f[k] + 1)..g[k] : text[n] \notin Ends
      BY <2>4 DEF PiecesCome
    <3> QED BY <1>1, <3>1, <3>2, PiecePositions
  <2> HIDE DEF line, column
  <2>9. /\ DOMAIN sent = 1..N
        /\ \A k \in 1..N : sent[k].deltaLine >= 0 /\ sent[k].deltaStart >= 0
        /\ Decoded(sent) = [k \in 1..N |-> [line |-> line(f[k]), length |-> column(g[k]) - column(f[k]),
                                            colour |-> h[k], character |-> column(f[k])]]
    <3>1. \A k \in 1..N : /\ P[k].start.line \in Nat /\ P[k].start.character \in Nat
                          /\ P[k].end.character \in Nat
      BY <2>5, <2>6, <2>7
    <3>2. ASSUME NEW k \in 2..N
          PROVE  /\ P[k - 1].start.line <= P[k].start.line
                 /\ P[k - 1].start.line = P[k].start.line => P[k - 1].start.character <= P[k].start.character
      <4>1. PICK j \in 1..N : j = k - 1 /\ j \in 1..(k - 1) /\ k \in 1..N
        OBVIOUS
      <4>2. f[j] \in 0..L /\ f[k] \in 0..L /\ f[j] <= f[k]
        <5>1. f[j] \in 0..L /\ g[j] \in 0..L /\ f[j] < g[j] /\ f[k] \in 0..L /\ g[j] <= f[k]
          BY <2>5, <4>1
        <5> QED BY <5>1
      <4>3. /\ line(f[j]) <= line(f[k])
            /\ line(f[j]) = line(f[k]) => column(f[j]) <= column(f[k])
        BY <2>7, <4>2
      <4> QED BY <2>6, <4>1, <4>3
    <3>3. /\ DOMAIN Encoded(P) = 1..N
          /\ \A k \in 1..N : Encoded(P)[k].deltaLine >= 0 /\ Encoded(P)[k].deltaStart >= 0
          /\ Decoded(Encoded(P)) =
               [k \in 1..N |-> [line |-> P[k].start.line,
                                length |-> P[k].end.character - P[k].start.character,
                                colour |-> P[k].colour, character |-> P[k].start.character]]
      BY <2>6, <3>1, <3>2, DecodedAre
    <3>4. sent = Encoded(P)
      BY <2>3 DEF P
    <3> QED BY <2>6, <3>3, <3>4
  <2> DEFINE placed == Decoded(sent)
  <2>10. /\ DOMAIN placed = 1..N
         /\ \A k \in 1..N : /\ placed[k].line = line(f[k]) /\ placed[k].character = column(f[k])
                            /\ placed[k].length = column(g[k]) - column(f[k]) /\ placed[k].colour = h[k]
    BY <2>9
  <2> HIDE DEF placed
  <2>11. ASSUME NEW k \in 1..N
         PROVE  /\ line(g[k]) = line(f[k])
                /\ placed[k].character + placed[k].length = column(g[k])
    <3>1. g[k] \in f[k]..g[k] /\ f[k] \in 0..L /\ g[k] \in 0..L
      BY <2>5
    <3>2. column(f[k]) \in Nat /\ column(g[k]) \in Nat
      BY <2>7, <3>1
    <3>3. line(g[k]) = line(f[k])
      BY <2>8, <3>1
    <3>4. placed[k].character = column(f[k]) /\ placed[k].length = column(g[k]) - column(f[k])
      BY <2>10
    <3> QED BY <3>2, <3>3, <3>4
  <2>12. InOrder(placed)
    <3> SUFFICES ASSUME NEW k \in 2..N, placed[k].line = placed[k - 1].line
                 PROVE  placed[k - 1].character + placed[k - 1].length <= placed[k].character
      <4>1. \A k \in DOMAIN placed \ {1} : k \in 2..N
        BY <2>10
      <4> QED BY <4>1 DEF InOrder
    <3>1. PICK j \in 1..N : j = k - 1 /\ j \in 1..(k - 1) /\ k \in 1..N
      OBVIOUS
    <3>2. g[j] \in 0..L /\ f[k] \in 0..L /\ g[j] <= f[k]
      BY <2>5, <3>1
    <3>3. line(g[j]) = line(f[k])
      BY <2>10, <2>11, <3>1
    <3>4. column(g[j]) <= column(f[k])
      BY <2>7, <3>2, <3>3
    <3> QED BY <2>10, <2>11, <3>1, <3>4
  <2>13. ASSUME NEW n \in 1..L
         PROVE  ColoursAt(placed, ClientPosition(buffer, n - 1)) = Meant(tokens, augments, n)
    <3>0. n - 1 \in 0..L /\ n \in 0..L
      OBVIOUS
    <3> DEFINE K == {k \in 1..N : f[k] < n /\ n <= g[k]}
               at == ClientPosition(buffer, n - 1)
    <3>1. at.line = line(n - 1) /\ at.character = column(n - 1)
      BY <2>a DEF ClientPosition, line, column
    <3>2. ASSUME NEW k \in 1..N
          PROVE  (/\ placed[k].line = at.line /\ placed[k].character <= at.character
                  /\ at.character < placed[k].character + placed[k].length) <=> k \in K
      <4>1. f[k] \in 0..L /\ g[k] \in 0..L
        BY <2>5
      <4>2. /\ placed[k].line = line(f[k]) /\ placed[k].character = column(f[k])
            /\ placed[k].character + placed[k].length = column(g[k]) /\ line(g[k]) = line(f[k])
        BY <2>10, <2>11
      <4>3. ASSUME line(f[k]) = line(n - 1)
            PROVE  (column(f[k]) <= column(n - 1) <=> f[k] <= n - 1) /\ (column(n - 1) < column(g[k]) <=> n - 1 < g[k])
        <5>1. column(f[k]) <= column(n - 1) <=> f[k] <= n - 1
          BY <2>7, <3>0, <4>1, <4>3
        <5>2. column(n - 1) < column(g[k]) <=> n - 1 < g[k]
          BY <2>7, <3>0, <4>1, <4>2, <4>3
        <5> QED BY <5>1, <5>2
      <4>4. k \in K => line(f[k]) = line(n - 1)
        <5>1. k \in K => n - 1 \in f[k]..g[k]
          BY <3>0, <4>1
        <5> QED BY <2>8, <5>1
      <4>5. k \in K <=> f[k] <= n - 1 /\ n - 1 < g[k]
        BY <3>0, <4>1
      <4> HIDE DEF K, at
      <4> QED BY <3>1, <4>2, <4>3, <4>4, <4>5
    <3> HIDE DEF at
    <3>3. ColoursAt(placed, at) = {h[k] : k \in K}
      <4>1. ASSUME NEW c \in ColoursAt(placed, at) PROVE \E k \in K : c = h[k]
        <5>1. PICK token \in ToSet(placed) :
                /\ token.line = at.line /\ token.character <= at.character
                /\ at.character < token.character + token.length
                /\ c = token.colour
          BY DEF ColoursAt
        <5>2. PICK k \in 1..N : token = placed[k]
          BY <2>10 DEF ToSet
        <5>3. k \in K
          BY <3>2, <5>1, <5>2
        <5> QED BY <2>10, <5>1, <5>2, <5>3
      <4>2. ASSUME NEW k \in K PROVE h[k] \in ColoursAt(placed, at)
        <5>1. k \in 1..N
          OBVIOUS
        <5>2. /\ placed[k].line = at.line /\ placed[k].character <= at.character
              /\ at.character < placed[k].character + placed[k].length
          BY <3>2, <5>1
        <5>3. placed[k] \in ToSet(placed) /\ placed[k].colour = h[k]
          BY <2>10, <5>1 DEF ToSet
        <5> QED BY <5>2, <5>3 DEF ColoursAt
      <4> HIDE DEF K
      <4> QED BY <4>1, <4>2
    <3>4. ASSUME NEW k \in K PROVE text[n] \notin Ends
      <4>1. k \in 1..N /\ n \in (f[k] + 1)..g[k]
        BY <2>5
      <4> QED BY <2>4, <4>1 DEF PiecesCome
    <3>5. CASE text[n] \in Ends
      <4>1. K = {}
        BY <3>4, <3>5
      <4> HIDE DEF K
      <4>2. {h[k] : k \in K} = {}
        BY <4>1
      <4> QED BY <2>2, <3>3, <3>5, <4>2 DEF at
    <3>6. CASE text[n] \notin Ends
      <4>1. ASSUME NEW k \in K PROVE \E x \in ToSet(spans) : In(n, x) /\ x.colour = h[k]
        <5>1. k \in 1..N /\ f[k] < n /\ n <= g[k] /\ f[k] \in 0..L /\ g[k] \in 0..L
          BY <2>5
        <5>2. PICK y \in ToSet(spans) : y.from <= f[k] /\ g[k] <= y.to /\ y.colour = h[k]
          BY <2>4, <5>1 DEF PiecesCome
        <5>3. y.from \in Nat /\ y.to \in Nat
          <6>1. Len(spans) \in Nat /\ DOMAIN spans = 1..Len(spans)
            BY <2>2, LenProperties
          <6>2. \A m \in 1..Len(spans) : spans[m] \in Spans
            BY <2>2, ElementOfSeq
          <6> QED BY <6>1, <6>2 DEF ToSet, Spans
        <5>4. y.from < n /\ n <= y.to
          BY <3>0, <5>1, <5>2, <5>3
        <5> QED BY <5>2, <5>4 DEF In
      <4>2. ASSUME NEW y \in ToSet(spans), In(n, y) PROVE \E k \in K : h[k] = y.colour
        <5>1. n \in 1..Len(text)
          BY <2>a
        <5>2. \E k \in 1..N : f[k] < n /\ n <= g[k] /\ h[k] = y.colour
          BY <2>4, <3>6, <4>2, <5>1 DEF PiecesCome
        <5> QED BY <5>2
      <4> HIDE DEF K
      <4>3. {h[k] : k \in K} = {x.colour : x \in {x \in ToSet(spans) : In(n, x)}}
        BY <4>1, <4>2
      <4> QED BY <2>2, <3>3, <3>6, <4>3 DEF at
    <3> QED BY <3>5, <3>6
  <2> QED BY <2>a, <2>9, <2>12, <2>13 DEF sent, placed
<1> QED BY <1>1, TextAlwaysInv, PTL

=============================================================================
