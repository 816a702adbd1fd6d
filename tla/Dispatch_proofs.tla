----------------------------- MODULE Dispatch_proofs -----------------------------
(***************************************************************************)
(* Lemmas about types, ranges and dispatch, for any registry of types and  *)
(* any types a source has declared: what every analysis that resolves a    *)
(* call with them rests on.                                                *)
(***************************************************************************)
EXTENDS Dispatch, TLAPS

(* The facts about the order that the proofs rest on. *)

LEMMA Reflexive == ASSUME Forest, NEW t \in Known PROVE IsSubtype(t, t)
  BY DEF Forest, IsForest, Known, IsSubtype

LEMMA Transitive ==
  ASSUME Forest, NEW a, NEW b, NEW c, IsSubtype(a, b), IsSubtype(b, c)
  PROVE  IsSubtype(a, c)
  BY DEF Forest, IsForest, Known, IsSubtype

LEMMA Antisymmetric ==
  ASSUME Forest, NEW a, NEW b, IsSubtype(a, b), IsSubtype(b, a)
  PROVE  a = b
  BY DEF Forest, IsForest, Known, IsSubtype

LEMMA Comparable ==
  ASSUME Forest, NEW a, NEW b, NEW c, IsSubtype(a, b), IsSubtype(a, c)
  PROVE  IsSubtype(b, c) \/ IsSubtype(c, b)
  BY DEF Forest, IsForest, Known, IsSubtype

LEMMA BothKnown ==
  ASSUME Forest, NEW a, NEW b, IsSubtype(a, b)
  PROVE  a \in Known /\ b \in Known
  BY DEF Forest, IsForest, Known, IsSubtype

-----------------------------------------------------------------------------
(* A declared type goes below its parent and disturbs nothing. *)

LEMMA DeclaredOrder ==
  ASSUME Forest, NEW t, NEW parent \in Known, DeclareType(t, parent)
  PROVE  /\ Forest'
         /\ Known' = Known \cup {t} /\ t \notin Known
         /\ \A a \in Known : \A b : IsSubtype(a, b)' <=> IsSubtype(a, b)
         /\ \A b \in Known : IsSubtype(t, b)' <=> IsSubtype(parent, b)
<1>1. /\ Known' = Known \cup {t} /\ t \notin Known
      /\ up'[t] = {t} \cup up[parent]
      /\ \A a \in Known : up'[a] = up[a]
  BY DEF DeclareType, Known
<1>2. \A a \in Known : up[a] \subseteq Known
  BY DEF Forest, IsForest, Known
<1>3. Forest'
  <2>. SUFFICES ASSUME NEW s \in Known'
                PROVE  /\ s \in up'[s] /\ up'[s] \subseteq Known'
                       /\ \A a \in up'[s] :
                            /\ up'[a] \subseteq up'[s]
                            /\ s \in up'[a] => a = s
                            /\ \A b \in up'[s] : a \in up'[b] \/ b \in up'[a]
    BY DEF Forest, IsForest, Known
  <2>1. CASE s \in Known
    BY <2>1, <1>1, <1>2 DEF Forest, IsForest, Known
  <2>2. CASE s = t
    <3>1. up'[s] = {t} \cup up[parent] /\ up[parent] \subseteq Known /\ t \notin up[parent]
      BY <2>2, <1>1, <1>2
    <3>2. \A a \in up[parent] : /\ up'[a] = up[a] /\ up[a] \subseteq up[parent]
                                /\ \A b \in up[parent] : a \in up[b] \/ b \in up[a]
      BY <3>1, <1>1 DEF Forest, IsForest, Known
    <3>. QED BY <2>2, <3>1, <3>2, <1>1, <1>2
  <2>. QED BY <1>1, <2>1, <2>2
<1>4. \A a \in Known : \A b : IsSubtype(a, b)' <=> IsSubtype(a, b)
  BY <1>1 DEF IsSubtype
<1>5. \A b \in Known : IsSubtype(t, b)' <=> IsSubtype(parent, b)
  BY <1>1 DEF IsSubtype
<1>. QED BY <1>1, <1>3, <1>4, <1>5

-----------------------------------------------------------------------------
(* What a range stands for.                                                    *)

Covered(types, cover) == \A g \in types : \E h \in cover : IsSubtype(g, h)

Below(types) == {t \in Known : \E g \in types : IsSubtype(t, g)}

\* A range that covers its cones stands for what it was put together from.
LEMMA NormalDenotes ==
  ASSUME Forest, NEW P \in SUBSET Known, NEW C \in SUBSET Known, Covered(C, Minimal(C))
  PROVE  Denoted(Normal(P, C)) = P \cup Below(C)
<1>. DEFINE r == Normal(P, C)
<1>1. /\ r.exact = {p \in P : \A g \in C : ~IsSubtype(p, g)}
      /\ r.generators = Minimal(C)
      /\ r.generators \subseteq C
  BY DEF Normal, Minimal
<1>2. ASSUME NEW t \in Known PROVE Contains(r, t) <=> t \in P \cup Below(C)
  <2>1. CASE \E g \in C : IsSubtype(t, g)
    <3>1. PICK g \in C : IsSubtype(t, g)
      BY <2>1
    <3>2. PICK h \in r.generators : IsSubtype(g, h)
      BY <1>1 DEF Covered
    <3>3. IsSubtype(t, h)
      BY <3>1, <3>2, Transitive
    <3>. QED BY <2>1, <3>2, <3>3 DEF Contains, Below
  <2>2. CASE ~\E g \in C : IsSubtype(t, g)
    BY <2>2, <1>1 DEF Contains, Below
  <2>. QED BY <2>1, <2>2
<1>. QED BY <1>2 DEF Denoted, Below

-----------------------------------------------------------------------------
(* Branches come together and slots narrow what they take: Join and Meet.      *)

Apart(types) == \A g \in types : \A h \in types : IsSubtype(g, h) => g = h

\* Of two sets of cones none under another, a cone is at most one step from the
\* largest, so that no chain has to be followed.
LEMMA ApartCovered ==
  ASSUME Forest, NEW A \in SUBSET Known, NEW B \in SUBSET Known, Apart(A), Apart(B)
  PROVE  Covered(A \cup B, Minimal(A \cup B))
<1>. SUFFICES ASSUME NEW g \in A \cup B
              PROVE  \E h \in Minimal(A \cup B) : IsSubtype(g, h)
  BY DEF Covered
<1>1. CASE g \in Minimal(A \cup B)
  BY <1>1, Reflexive
<1>2. ASSUME NEW h \in A \cup B, IsSubtype(g, h), h # g
      PROVE  \E e \in Minimal(A \cup B) : IsSubtype(g, e)
  <2>1. ASSUME NEW e \in A \cup B, IsSubtype(h, e) PROVE e = h
    <3>1. IsSubtype(g, e)
      BY <1>2, <2>1, Transitive
    <3>2. e = g => h = g
      BY <1>2, <2>1, Antisymmetric
    <3>. QED BY <1>2, <2>1, <3>1, <3>2 DEF Apart
  <2>2. h \in Minimal(A \cup B)
    BY <2>1 DEF Minimal
  <2>. QED BY <1>2, <2>2
<1>. QED BY <1>1, <1>2 DEF Minimal

\* Nothing is lost or won when branches join: the join of two ranges stands for
\* what either stands for, their meet for what both do.
THEOREM JoinAndMeet ==
  ASSUME Forest, NEW left \in TypeRange, NEW right \in TypeRange,
         Apart(left.generators), Apart(right.generators)
  PROVE  /\ Denoted(Join(left, right)) = Denoted(left) \cup Denoted(right)
         /\ Denoted(Meet(left, right)) = Denoted(left) \cap Denoted(right)
<1>. DEFINE P == {p \in left.exact : Contains(right, p)}
                   \cup {p \in right.exact : Contains(left, p)}
            A == {g \in left.generators : \E h \in right.generators : IsSubtype(g, h)}
            B == {g \in right.generators : \E h \in left.generators : IsSubtype(g, h)}
<1>1. /\ left.exact \subseteq Known /\ left.generators \subseteq Known
      /\ right.exact \subseteq Known /\ right.generators \subseteq Known
  BY DEF TypeRange
<1>2. Denoted(Join(left, right))
        = (left.exact \cup right.exact) \cup Below(left.generators \cup right.generators)
  BY <1>1, ApartCovered, NormalDenotes DEF Join
<1>3. Denoted(Meet(left, right)) = P \cup Below(A \cup B)
  <2>1. /\ A \in SUBSET Known /\ B \in SUBSET Known /\ Apart(A) /\ Apart(B)
    BY <1>1 DEF Apart
  <2>2. Covered(A \cup B, Minimal(A \cup B))
    BY <2>1, ApartCovered
  <2>3. P \in SUBSET Known /\ A \cup B \in SUBSET Known
    BY <1>1
  <2>4. Meet(left, right) = Normal(P, A \cup B)
    BY DEF Meet
  <2>. HIDE DEF P, A, B
  <2>. QED BY <2>2, <2>3, <2>4, NormalDenotes
<1>4. P \cup Below(A \cup B) = Denoted(left) \cap Denoted(right)
  <2>1. ASSUME NEW t \in Known
        PROVE  t \in P \cup Below(A \cup B) <=> Contains(left, t) /\ Contains(right, t)
    <3>1. ASSUME NEW g \in left.generators, NEW h \in right.generators,
                 IsSubtype(t, g), IsSubtype(t, h)
          PROVE  t \in Below(A \cup B)
      BY <3>1, Comparable DEF Below
    <3>2. ASSUME NEW g \in A \cup B, IsSubtype(t, g)
          PROVE  Contains(left, t) /\ Contains(right, t)
      BY <3>2, Transitive DEF Contains
    <3>. QED BY <3>1, <3>2 DEF Contains, Below
  <2>2. P \subseteq Known
    BY <1>1
  <2>. QED BY <2>1, <2>2 DEF Denoted, Below
<1>. QED BY <1>1, <1>2, <1>3, <1>4 DEF Denoted, Below, Contains

-----------------------------------------------------------------------------
(* Dispatch.  A slot that meets what a method expects has a witness there, and *)
(* the witness is passed to no more methods than any other of the slot.        *)

LEMMA WitnessSound ==
  ASSUME Forest, NEW r, NEW alt \in Alternatives(r), NEW e,
         r.generators \subseteq Known, SlotMeets(alt, e)
  PROVE  Contains(r, SlotWitness(alt, e)) /\ IdentityMatches(SlotWitness(alt, e), e)
<1>1. CASE alt.upward
  <2>1. alt.id \in r.generators /\ e \in Known
        /\ (IsSubtype(e, alt.id) \/ IsSubtype(alt.id, e))
    BY <1>1 DEF SlotMeets, Alternatives
  <2>2. CASE IsSubtype(e, alt.id)
    BY <1>1, <2>1, <2>2 DEF SlotWitness, Contains, IdentityMatches
  <2>3. CASE ~IsSubtype(e, alt.id)
    BY <1>1, <2>1, <2>3, Reflexive DEF SlotWitness, Contains, IdentityMatches
  <2>. QED BY <2>2, <2>3
<1>2. CASE ~alt.upward
  BY <1>2 DEF Alternatives, SlotMeets, SlotWitness, Contains
<1>. QED BY <1>1, <1>2

LEMMA WitnessComplete ==
  ASSUME Forest, NEW r, NEW a, NEW e, r.generators \subseteq Known,
         Contains(r, a), IdentityMatches(a, e)
  PROVE  \E alt \in Alternatives(r) :
           /\ SlotMeets(alt, e)
           /\ \A d : IdentityMatches(SlotWitness(alt, e), d) => IdentityMatches(a, d)
<1>1. CASE a \in r.exact
  <2>. DEFINE alt == [upward |-> FALSE, id |-> a]
  <2>1. alt \in Alternatives(r) /\ SlotMeets(alt, e) /\ SlotWitness(alt, e) = a
    BY <1>1 DEF Alternatives, SlotMeets, SlotWitness
  <2>. QED BY <2>1
<1>2. ASSUME NEW g \in r.generators, IsSubtype(a, g)
      PROVE  \E alt \in Alternatives(r) :
               /\ SlotMeets(alt, e)
               /\ \A d : IdentityMatches(SlotWitness(alt, e), d) => IdentityMatches(a, d)
  <2>. DEFINE alt == [upward |-> TRUE, id |-> g]
  <2>0. alt \in Alternatives(r)
    BY <1>2 DEF Alternatives
  <2>1. a \in Known /\ e \in Known /\ IsSubtype(a, e)
    BY <1>2, BothKnown, Reflexive DEF IdentityMatches
  <2>2. IsSubtype(e, g) \/ IsSubtype(g, e)
    BY <1>2, <2>1, Comparable
  <2>3. SlotMeets(alt, e)
    BY <2>1, <2>2 DEF SlotMeets
  <2>4. SlotWitness(alt, e) \in Known /\ IsSubtype(a, SlotWitness(alt, e))
    BY <1>2, <2>1 DEF SlotWitness
  <2>5. ASSUME NEW d, IdentityMatches(SlotWitness(alt, e), d) PROVE IdentityMatches(a, d)
    BY <2>4, <2>5, <2>1, Transitive DEF IdentityMatches
  <2>. QED BY <2>0, <2>3, <2>5
<1>. QED BY <1>1, <1>2 DEF Contains
\* Whatever some arguments of the ranges run, a witness runs.
LEMMA RunnableHasWitness ==
  ASSUME Forest, NEW table, NEW arguments,
         \A i \in DOMAIN arguments : arguments[i].generators \subseteq Known
  PROVE  Runnable(table, arguments) \subseteq WitnessCandidates(table, arguments)
<1>. SUFFICES ASSUME NEW actual \in Concrete(arguments), NEW k \in Chosen(table, actual)
              PROVE  k \in WitnessCandidates(table, arguments)
  BY DEF Runnable
<1>. DEFINE domain == table[k].domain
            Fits(i, alt) ==
              /\ SlotMeets(alt, domain[i])
              /\ \A d : IdentityMatches(SlotWitness(alt, domain[i]), d)
                          => IdentityMatches(actual[i], d)
            product == [i \in DOMAIN arguments |->
                          CHOOSE alt \in Alternatives(arguments[i]) : Fits(i, alt)]
            witness == [i \in DOMAIN arguments |-> SlotWitness(product[i], domain[i])]
<1>1. /\ k \in DOMAIN table /\ DomainMatches(domain, actual)
      /\ \A j \in DOMAIN table : DomainMatches(table[j].domain, actual)
                                   => ~StrictlySmaller(table[j].domain, domain)
  BY DEF Chosen
<1>2. DOMAIN actual = DOMAIN arguments /\ DOMAIN domain = DOMAIN arguments
  BY <1>1 DEF Concrete, DomainMatches
<1>3. ASSUME NEW i \in DOMAIN arguments
      PROVE  product[i] \in Alternatives(arguments[i]) /\ Fits(i, product[i])
  <2>1. Contains(arguments[i], actual[i]) /\ IdentityMatches(actual[i], domain[i])
    BY <1>1, <1>2 DEF Concrete, DomainMatches
  <2>2. \E alt \in Alternatives(arguments[i]) : Fits(i, alt)
    BY <2>1, WitnessComplete
  <2>. QED BY <2>2
<1>4. product \in Products(arguments)
  BY <1>3 DEF Products
<1>5. witness \in Witnesses(table, arguments)
  <2>1. \A i \in DOMAIN arguments : SlotMeets(product[i], domain[i])
    BY <1>3
  <2>. HIDE DEF product
  <2>2. witness \in WitnessesOf(domain, arguments)
    BY <2>1, <1>4 DEF WitnessesOf
  <2>. QED BY <2>2, <1>1, <1>2 DEF Witnesses
<1>6. DomainMatches(domain, witness)
  <2>. SUFFICES ASSUME NEW i \in DOMAIN arguments
                PROVE  IdentityMatches(witness[i], domain[i])
    BY <1>2 DEF DomainMatches
  <2>1. product[i] \in Alternatives(arguments[i]) /\ SlotMeets(product[i], domain[i])
    BY <1>3
  <2>. QED BY <2>1, WitnessSound
<1>7. ASSUME NEW j \in DOMAIN table, DomainMatches(table[j].domain, witness)
      PROVE  DomainMatches(table[j].domain, actual)
  BY <1>2, <1>3, <1>7 DEF DomainMatches
<1>8. k \in Chosen(table, witness)
  BY <1>1, <1>6, <1>7 DEF Chosen
<1>. QED BY <1>5, <1>8 DEF WitnessCandidates

\* A witness is itself arguments of the ranges.
LEMMA WitnessIsConcrete ==
  ASSUME Forest, NEW table, NEW arguments,
         \A i \in DOMAIN arguments : arguments[i].generators \subseteq Known
  PROVE  Witnesses(table, arguments) \subseteq Concrete(arguments)
<1>. SUFFICES ASSUME NEW k \in DOMAIN table,
                     NEW product \in Products(arguments),
                     \A i \in DOMAIN arguments : SlotMeets(product[i], table[k].domain[i])
              PROVE  [i \in DOMAIN arguments |-> SlotWitness(product[i], table[k].domain[i])]
                       \in Concrete(arguments)
  BY DEF Witnesses, WitnessesOf
<1>. DEFINE W(i) == SlotWitness(product[i], table[k].domain[i])
<1>1. ASSUME NEW i \in DOMAIN arguments
      PROVE  /\ Contains(arguments[i], W(i))
             /\ W(i) \in arguments[i].exact \cup Denoted(arguments[i])
  <2>1. product[i] \in Alternatives(arguments[i])
    BY DEF Products
  <2>2. Contains(arguments[i], W(i))
    BY <2>1, WitnessSound
  <2>. QED BY <2>2 DEF Contains, Denoted, IsSubtype
<1>. QED BY <1>1 DEF Concrete

\* An argument without a range leaves no call to make, and no witness of one.
LEMMA NothingDiverges ==
  ASSUME NEW table, NEW arguments, NEW i \in DOMAIN arguments, arguments[i] = Diverges
  PROVE  WitnessCandidates(table, arguments) = {} /\ Runnable(table, arguments) = {}
<1>0. Alternatives(arguments[i]) = {}
  BY DEF Alternatives, Diverges
<1>1. Products(arguments) = {}
  BY <1>0 DEF Products
<1>2. Concrete(arguments) = {}
  BY DEF Concrete, Contains, Diverges
<1>3. Witnesses(table, arguments) = {}
  BY <1>1 DEF Witnesses, WitnessesOf
<1>. QED BY <1>2, <1>3 DEF WitnessCandidates, Runnable

\* The candidates hold whatever may run, and nothing else unless the types say too
\* little.
LEMMA CandidatesOfRanges ==
  ASSUME Forest, NEW table, NEW arguments,
         \A i \in DOMAIN arguments : arguments[i].generators \subseteq Known \cup SourceTypes
  PROVE  /\ Runnable(table, arguments) \subseteq Candidates(table, arguments)
         /\ ~GivesUp(arguments) => Candidates(table, arguments) = Runnable(table, arguments)
<1>1. ASSUME ~GivesUp(arguments), \A i \in DOMAIN arguments : arguments[i] # Diverges
      PROVE  WitnessCandidates(table, arguments) = Runnable(table, arguments)
  <2>1. \A i \in DOMAIN arguments : arguments[i].generators \subseteq Known
    BY <1>1 DEF GivesUp, Resolves
  <2>2. Runnable(table, arguments) \subseteq WitnessCandidates(table, arguments)
    BY <2>1, RunnableHasWitness
  <2>3. WitnessCandidates(table, arguments) \subseteq Runnable(table, arguments)
    BY <2>1, WitnessIsConcrete DEF WitnessCandidates, Runnable
  <2>. QED BY <2>2, <2>3
<1>3. ~GivesUp(arguments) => WitnessCandidates(table, arguments) = Runnable(table, arguments)
  BY <1>1, NothingDiverges
<1>2. \A k \in Runnable(table, arguments) :
        k \in DOMAIN table /\ DOMAIN table[k].domain = DOMAIN arguments
  BY DEF Runnable, Concrete, Chosen, DomainMatches
<1>. QED BY <1>2, <1>3 DEF Candidates

=============================================================================
