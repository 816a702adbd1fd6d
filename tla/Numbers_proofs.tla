----------------------------- MODULE Numbers_proofs -----------------------------
(***************************************************************************)
(* Sets of numbers have a least member, and a greatest one when they are   *)
(* bounded: what every lookup that takes the first or the last of several  *)
(* rests on.  NatLessThanWellFounded stands for the induction.             *)
(***************************************************************************)
EXTENDS Naturals, FiniteSetsExt, WellFoundedInduction, TLAPS

LEMMA LeastNumber ==
  ASSUME NEW T, T \subseteq Nat, T # {}
  PROVE  \E m \in T : \A n \in T : m <= n
<1>1. IsWellFoundedOn(OpToRel(<, Nat), Nat)
  BY NatLessThanWellFounded
<1>2. PICK m \in T : \A n \in T : ~(<<n, m>> \in OpToRel(<, Nat))
  BY <1>1, WFMin, Zenon
<1>3. \A n \in T : ~(n < m)
  BY <1>2 DEF OpToRel
<1> QED BY <1>3

LEMMA GreatestNumber ==
  ASSUME NEW n \in Nat, NEW T, T \subseteq 0..n, T # {}
  PROVE  \E m \in T : \A k \in T : k <= m
<1> DEFINE back == {n - k : k \in T}
<1>0. \A k \in T : k \in Nat /\ k <= n
  OBVIOUS
<1>1. back \subseteq Nat /\ back # {}
  <2>1. \A k \in T : n - k \in Nat
    BY <1>0
  <2> QED BY <2>1
<1>2. PICK b \in back : \A c \in back : b <= c
  BY <1>1, LeastNumber
<1>3. PICK m \in T : b = n - m
  BY <1>2
<1>4. \A k \in T : n - k \in back
  OBVIOUS
<1>5. \A k \in T : n - m <= n - k
  BY <1>2, <1>3, <1>4
<1> QED BY <1>0, <1>5

LEMMA MinIsLeast ==
  ASSUME NEW T, T \subseteq Nat, T # {}
  PROVE  Min(T) \in T /\ \A n \in T : Min(T) <= n
<1>1. \E m \in T : \A n \in T : m <= n
  BY LeastNumber
<1> QED BY <1>1 DEF Min

LEMMA MaxIsGreatest ==
  ASSUME NEW n \in Nat, NEW T, T \subseteq 0..n, T # {}
  PROVE  Max(T) \in T /\ \A k \in T : k <= Max(T)
<1>1. \E m \in T : \A k \in T : m >= k
  <2>1. \A k \in T : k \in Nat
    OBVIOUS
  <2>2. PICK m \in T : \A k \in T : k <= m
    BY GreatestNumber
  <2> QED BY <2>1, <2>2
<1>2. Max(T) \in T /\ \A k \in T : Max(T) >= k
  BY <1>1 DEF Max
<1>3. \A k \in T : k \in Nat
  OBVIOUS
<1> QED BY <1>2, <1>3

\* What does not hold of every number fails for a first time.
LEMMA FirstFailure ==
  ASSUME NEW n \in Nat, NEW P, 0 \in P, n \notin P
  PROVE  \E m \in 1..n : m \notin P /\ m - 1 \in P
<1> DEFINE T == {m \in 0..n : m \notin P}
<1>1. T \subseteq Nat /\ n \in T
  OBVIOUS
<1>2. PICK m \in T : \A k \in T : m <= k
  BY <1>1, LeastNumber
<1>3. m \in 1..n /\ m \notin P
  BY <1>2
<1>4. m - 1 \notin T /\ m - 1 \in 0..n
  BY <1>2, <1>3
<1> QED BY <1>3, <1>4

=============================================================================
