------------------------------ MODULE Types_proofs ------------------------------
(***************************************************************************)
(* Proofs about the machines behind the types and the names of a file.     *)
(* MethodTable, for any registry of types, any types a source declares,    *)
(* any methods and any ranges: the order stays that of a forest, ranges do *)
(* not depend on the order they are put together in, and the candidates of *)
(* a call are the methods it may run.  Imports, for any catalogue and any  *)
(* text: both ways to look a name up ask for the greatest index of a set   *)
(* of registrations.  Corpus, for any records in any order: while linking, *)
(* the index keeps what it found, so that what a callable was linked to    *)
(* stays what its references mean.  Completion, for any names, sites and   *)
(* limits: a source is fetched whole or seen to be too long, and a whole   *)
(* list stays whole when it is narrowed.                                   *)
(***************************************************************************)
EXTENDS MethodTable, Imports, Corpus, Completion, Dispatch_proofs, Numbers_proofs,
        FiniteSetTheorems, FunctionTheorems, SequenceTheorems

-----------------------------------------------------------------------------
(* A table of methods. *)

\* However the source declares its types, their order stays that of a forest.
THEOREM ForestAlways == TableSpec => []Forest
<1>1. TableInit => Forest
  BY TypesAssumption DEF TableInit, Forest
<1>2. Forest /\ [TableNext]_tableVars => Forest'
  <2>. SUFFICES ASSUME Forest, [TableNext]_tableVars PROVE Forest'
    OBVIOUS
  <2>1. CASE UNCHANGED up
    BY <2>1 DEF Forest
  <2>2. ASSUME NEW t \in SourceTypes, NEW parent \in Known, Declare(t, parent) PROVE Forest'
    BY <2>2, DeclaredOrder DEF Declare
  <2>. QED BY <2>1, <2>2 DEF TableNext, tableVars, Install, InsertPoint, InsertCone
<1>. QED BY <1>1, <1>2, PTL DEF TableSpec
-----------------------------------------------------------------------------
(* A range is what was put in it.  No finite set of types needs a largest one  *)
(* here: that every cone put in is under one the range has is kept step by     *)
(* step.                                                                       *)

RangeInv ==
  /\ Forest
  /\ points \subseteq Known /\ cones \subseteq Known
  /\ range = Normal(points, cones)
  /\ Covered(cones, Minimal(cones))

LEMMA PointInserted ==
  ASSUME RangeInv, NEW t \in Known \ points, cones = {}
  PROVE  InsertExact(range, t) = Normal(points \cup {t}, cones)
<1>1. range = [exact |-> points, generators |-> {}]
  BY DEF RangeInv, Normal, Minimal
<1>2. ~Contains(range, t)
  BY <1>1 DEF Contains
<1>3. InsertExact(range, t) = [exact |-> points \cup {t}, generators |-> {}]
  BY <1>1, <1>2 DEF InsertExact
<1>. QED BY <1>3 DEF Normal, Minimal

LEMMA ConeInserted ==
  ASSUME RangeInv, NEW t \in Known \ cones
  PROVE  /\ InsertGenerator(range, t) = Normal(points, cones \cup {t})
         /\ Covered(cones \cup {t}, Minimal(cones \cup {t}))
<1>. DEFINE old == Minimal(cones)
            new == Minimal(cones \cup {t})
<1>0. /\ Forest /\ points \subseteq Known /\ cones \subseteq Known /\ Covered(cones, old)
      /\ range.generators = old
      /\ range.exact = {p \in points : \A g \in cones : ~IsSubtype(p, g)}
      /\ range = [exact |-> range.exact, generators |-> range.generators]
      /\ old \subseteq cones
  BY DEF RangeInv, Normal, Minimal
<1>1. CASE \E e \in old : IsSubtype(t, e)
  <2>1. PICK e \in old : IsSubtype(t, e)
    BY <1>1
  <2>2. InsertGenerator(range, t) = range
    BY <1>0, <1>1 DEF InsertGenerator
  <2>3. new = old
    <3>1. t \notin new
      BY <2>1, <1>0 DEF Minimal
    <3>2. ASSUME NEW g \in old, IsSubtype(g, t) PROVE FALSE
      <4>1. IsSubtype(g, e) /\ e \in cones
        BY <3>2, <2>1, <1>0, Transitive
      <4>2. e = g
        BY <4>1 DEF Minimal
      <4>. QED BY <2>1, <3>2, <4>2, <1>0, Antisymmetric
    <3>. QED BY <3>1, <3>2 DEF Minimal
  <2>4. \A p \in points : IsSubtype(p, t) => \E g \in cones : IsSubtype(p, g)
    BY <2>1, <1>0, Transitive
  <2>5. range = Normal(points, cones \cup {t})
    BY <1>0, <2>3, <2>4 DEF Normal
  <2>6. Covered(cones \cup {t}, new)
    BY <2>1, <2>3, <1>0 DEF Covered
  <2>. QED BY <2>2, <2>5, <2>6
<1>2. CASE ~\E e \in old : IsSubtype(t, e)
  <2>1. \A g \in cones : ~IsSubtype(t, g)
    BY <1>2, <1>0, Transitive DEF Covered
  <2>2. t \in new
    BY <2>1 DEF Minimal
  <2>3. new = {e \in old : ~IsSubtype(e, t)} \cup {t}
    BY <2>1, <2>2 DEF Minimal
  <2>4. InsertGenerator(range, t)
          = [exact |-> {p \in range.exact : ~IsSubtype(p, t)}, generators |-> new]
    BY <1>0, <1>2, <2>3 DEF InsertGenerator
  <2>5. {p \in range.exact : ~IsSubtype(p, t)}
          = {p \in points : \A g \in cones \cup {t} : ~IsSubtype(p, g)}
    BY <1>0
  <2>6. ASSUME NEW g \in cones PROVE \E h \in new : IsSubtype(g, h)
    <3>1. PICK e \in old : IsSubtype(g, e)
      BY <1>0 DEF Covered
    <3>2. CASE IsSubtype(e, t)
      BY <3>1, <3>2, <2>2, <1>0, Transitive
    <3>3. CASE ~IsSubtype(e, t)
      BY <3>1, <3>3, <2>3
    <3>. QED BY <3>2, <3>3
  <2>7. Covered(cones \cup {t}, new)
    BY <2>2, <2>6, <1>0, Reflexive DEF Covered
  <2>. QED BY <2>4, <2>5, <2>7 DEF Normal
<1>. QED BY <1>1, <1>2
\* Declaring a type changes nothing about ranges of the types known before.
LEMMA RangeKept ==
  ASSUME RangeInv, NEW t \in SourceTypes, NEW parent \in Known, Declare(t, parent)
  PROVE  RangeInv'
<1>1. /\ Forest' /\ Known' = Known \cup {t}
      /\ \A a \in Known : \A b : IsSubtype(a, b)' <=> IsSubtype(a, b)
      /\ range' = range /\ points' = points /\ cones' = cones
  BY DeclaredOrder DEF RangeInv, Declare
<1>2. \A a \in Known : \A b : up'[a] = up[a]
  BY DEF Declare, DeclareType, Known
<1>3. Minimal(cones)' = Minimal(cones)
  BY <1>1 DEF RangeInv, Minimal
<1>4. Normal(points, cones)' = Normal(points, cones)
  BY <1>1, <1>3 DEF RangeInv, Normal
<1>5. Covered(cones, Minimal(cones))'
  BY <1>1, <1>3 DEF RangeInv, Covered
<1>. QED BY <1>1, <1>4, <1>5 DEF RangeInv

LEMMA RangeInvAlways == TableSpec => []RangeInv
<1>1. TableInit => RangeInv
  BY TypesAssumption DEF TableInit, RangeInv, Forest, Normal, Minimal, Covered, Diverges
<1>2. RangeInv /\ [TableNext]_tableVars => RangeInv'
  <2>. SUFFICES ASSUME RangeInv, [TableNext]_tableVars PROVE RangeInv'
    OBVIOUS
  <2>1. CASE UNCHANGED <<up, range, points, cones>>
    BY <2>1 DEF RangeInv, Forest, Normal, Minimal, Covered, IsSubtype, Known
  <2>2. ASSUME NEW t \in SourceTypes, NEW parent \in Known, Declare(t, parent)
        PROVE  RangeInv'
    BY <2>2, RangeKept
  <2>3. ASSUME NEW t \in Known, InsertPoint(t) PROVE RangeInv'
    <3>1. range' = Normal(points \cup {t}, cones) /\ t \in Known \ points /\ cones = {}
      BY <2>3, PointInserted DEF InsertPoint
    <3>2. up' = up /\ points' = points \cup {t} /\ cones' = {}
      BY <2>3, <3>1 DEF InsertPoint
    <3>. QED BY <3>1, <3>2
             DEF RangeInv, Forest, Normal, Minimal, Covered, IsSubtype, Known
  <2>4. ASSUME NEW t \in Known, InsertCone(t) PROVE RangeInv'
    <3>1. /\ range' = Normal(points, cones \cup {t})
          /\ Covered(cones \cup {t}, Minimal(cones \cup {t}))
      BY <2>4, ConeInserted DEF InsertCone
    <3>2. up' = up /\ points' = points /\ cones' = cones \cup {t}
      BY <2>4 DEF InsertCone
    <3>. QED BY <3>1, <3>2
             DEF RangeInv, Forest, Normal, Minimal, Covered, IsSubtype, Known
  <2>. QED BY <2>1, <2>2, <2>3, <2>4 DEF TableNext, tableVars, Install
<1>. QED BY <1>1, <1>2, PTL DEF TableSpec

\* A range stands for what was put in it, in whatever order that came: the
\* order a hash set gives TypeRange::new its types in cannot be seen.
THEOREM RangesAreTheirContents == TableSpec => []RangeIsItsContents
<1>1. RangeInv => RangeIsItsContents
  BY NormalDenotes DEF RangeInv, RangeIsItsContents, Below
<1>. QED BY <1>1, RangeInvAlways, PTL

\* Every variable keeps its type: in particular a range never holds a type the
\* table does not know.
THEOREM TableTypeCorrect == TableSpec => []TableTypeOK
<1>. DEFINE Methods == [domain : Domains, codomain : Nat]
            TableInv ==
              /\ Known \subseteq DOMAIN BaseUp \cup SourceTypes
              /\ up = [t \in Known |-> up[t]]
              /\ installed \in Seq(Methods)
              /\ Len(installed) <= MaxInstalled
<1>1. TableInit => TableInv
  BY TypesAssumption, MethodTableAssumption DEF TableInit, Known
<1>2. TableInv /\ [TableNext]_tableVars => TableInv'
  <2>. SUFFICES ASSUME TableInv, [TableNext]_tableVars PROVE TableInv'
    OBVIOUS
  <2>1. CASE UNCHANGED <<up, installed>>
    BY <2>1 DEF Known
  <2>2. ASSUME NEW t \in SourceTypes, NEW parent \in Known, Declare(t, parent)
        PROVE  TableInv'
    BY <2>2 DEF Declare, DeclareType, Known
  <2>3. ASSUME NEW domain \in Domains, Install(domain) PROVE TableInv'
    <3>1. Len(installed) \in Nat /\ Len(installed) < MaxInstalled
      BY <2>3 DEF Install
    <3>2. [domain |-> domain, codomain |-> Len(installed) + 1] \in Methods
      BY <3>1
    <3>3. installed' \in Seq(Methods) /\ Len(installed') = Len(installed) + 1
      BY <2>3, <3>2 DEF Install
    <3>. QED BY <2>3, <3>1, <3>3, MethodTableAssumption DEF Install, Known
  <2>. QED BY <2>1, <2>2, <2>3 DEF TableNext, tableVars, InsertPoint, InsertCone
<1>3. TableInv /\ RangeInv => TableTypeOK
  <2>. SUFFICES ASSUME TableInv, RangeInv PROVE TableTypeOK
    OBVIOUS
  <2>1. up \in [Known -> SUBSET Known]
    BY DEF RangeInv, Forest, IsForest, Known
  <2>2. range \in TypeRange
    BY DEF RangeInv, TypeRange, Normal, Minimal
  <2>. QED BY <2>1, <2>2 DEF TableTypeOK, RangeInv
<1>. QED BY <1>1, <1>2, <1>3, RangeInvAlways, PTL DEF TableSpec

\* Whatever types are declared, whatever methods are installed and whatever is
\* known of the arguments, no method that may run is left out of a call's
\* candidates, and where every type is known and the products are within their
\* bound none is there that cannot run:
\* the witnesses of the slots stand for all the arguments the ranges hold.
THEOREM CandidatesAlwaysRunnable == TableSpec => []CandidatesAreRunnable
<1>1. RangeInv => CandidatesAreRunnable
  <2>. SUFFICES ASSUME RangeInv, NEW call \in Calls
                PROVE  \A i \in DOMAIN call : call[i].generators \subseteq Known \cup SourceTypes
    BY CandidatesOfRanges DEF RangeInv, CandidatesAreRunnable
  <2>1. range.generators \subseteq Known
    BY DEF RangeInv, Normal, Minimal
  <2>2. \A t : ExactType(t).generators \subseteq Known
    BY DEF ExactType
  <2>3. \A t \in Known \cup SourceTypes : UpwardType(t).generators \subseteq Known \cup SourceTypes
    BY DEF UpwardType
  <2>4. CASE call = <<range>>
    BY <2>1, <2>4
  <2>5. ASSUME NEW r, r.generators \subseteq Known \cup SourceTypes, call = <<r, range>>
        PROVE  \A i \in DOMAIN call : call[i].generators \subseteq Known \cup SourceTypes
    BY <2>1, <2>5
  <2>. QED BY <2>2, <2>3, <2>4, <2>5 DEF Calls
<1>. QED BY <1>1, RangeInvAlways, PTL

-----------------------------------------------------------------------------
(* Sets of numbers. *)

\* How many members of a set of numbers are no less than one of them.
Rank(T, i) == Cardinality({j \in T : j >= i})

\* Ranks go down as numbers go up, and every rank is somebody's.
LEMMA RankFalls ==
  ASSUME NEW n \in Nat, NEW T, T \subseteq 1..n, NEW i \in T, NEW j \in T, i < j
  PROVE  Rank(T, j) < Rank(T, i)
<1> DEFINE above(k) == {l \in T : l >= k}
<1>1. IsFiniteSet(T)
  <2>1. IsFiniteSet(1..n)
    BY FS_Interval
  <2> QED BY <2>1, FS_Subset
<1>2. IsFiniteSet(above(i)) /\ above(j) \in SUBSET above(i) /\ above(j) # above(i)
  <2>0. \A k \in T : k \in Nat
    OBVIOUS
  <2>1. /\ above(i) \in SUBSET T
        /\ \A k \in above(j) : k \in above(i)
        /\ i \in above(i) /\ i \notin above(j)
    BY <2>0
  <2> QED BY <1>1, <2>1, FS_Subset
<1>3. /\ Cardinality(above(j)) <= Cardinality(above(i))
      /\ Cardinality(above(j)) # Cardinality(above(i))
  BY <1>2, FS_Subset
<1>4. Cardinality(above(i)) \in Nat /\ Cardinality(above(j)) \in Nat
  BY <1>2, FS_Subset, FS_CardinalityType
<1> HIDE DEF above
<1>5. Cardinality(above(j)) < Cardinality(above(i))
  BY <1>3, <1>4
<1> QED BY <1>5 DEF Rank, above

LEMMA RankedFrom ==
  ASSUME NEW n \in Nat, NEW T, T \subseteq 1..n
  PROVE  /\ Cardinality(T) \in Nat
         /\ \A i \in T : Rank(T, i) \in 1..Cardinality(T)
         /\ \A k \in 1..Cardinality(T) : \E i \in T : Rank(T, i) = k
<1>1. IsFiniteSet(T)
  <2>1. IsFiniteSet(1..n)
    BY FS_Interval
  <2> QED BY <2>1, FS_Subset
<1>2. Cardinality(T) \in Nat
  BY <1>1, FS_CardinalityType
<1>3. ASSUME NEW i \in T PROVE Rank(T, i) \in 1..Cardinality(T)
  <2> DEFINE above == {j \in T : j >= i}
  <2>1. above \in SUBSET T /\ i \in above
    OBVIOUS
  <2>2. /\ IsFiniteSet(above) /\ Cardinality(above) <= Cardinality(T)
    BY <1>1, <2>1, FS_Subset
  <2>3. Cardinality(above) \in Nat /\ Cardinality(above) # 0
    BY <2>1, <2>2, FS_CardinalityType, FS_EmptySet
  <2> HIDE DEF above
  <2>4. Cardinality(above) \in 1..Cardinality(T)
    BY <1>2, <2>2, <2>3
  <2> QED BY <2>4 DEF Rank, above
<1> DEFINE r == [i \in T |-> Rank(T, i)]
<1>4. r \in Injection(T, 1..Cardinality(T))
  <2>1. r \in [T -> 1..Cardinality(T)]
    BY <1>3
  <2>2. ASSUME NEW i \in T, NEW j \in T, i # j PROVE Rank(T, i) # Rank(T, j)
    <3>1. i \in Nat /\ j \in Nat /\ Rank(T, i) \in Nat /\ Rank(T, j) \in Nat
      BY <1>2, <1>3
    <3>2. CASE i < j
      <4>1. Rank(T, j) < Rank(T, i)
        BY <3>2, RankFalls
      <4> QED BY <3>1, <4>1
    <3>3. CASE j < i
      <4>1. Rank(T, i) < Rank(T, j)
        BY <3>3, RankFalls
      <4> QED BY <3>1, <4>1
    <3> QED BY <2>2, <3>1, <3>2, <3>3
  <2>3. \A i, j \in T : r[i] = r[j] => i = j
    BY <2>2
  <2> HIDE DEF r
  <2> QED BY <2>1, <2>3, Fun_IsInj
<1>5. IsFiniteSet(1..Cardinality(T)) /\ Cardinality(1..Cardinality(T)) = Cardinality(T)
  BY <1>2, FS_Interval
<1>6. r \in Surjection(T, 1..Cardinality(T))
  BY <1>4, <1>5, FS_Injection
<1>7. \A k \in 1..Cardinality(T) : \E i \in T : r[i] = k
  BY <1>6 DEF Surjection
<1> QED BY <1>2, <1>3, <1>7

-----------------------------------------------------------------------------
(* The registrations. *)

Registration == [package : DOMAIN Catalog, from : Nat]

ImportsInv ==
  /\ registrations \in Seq(Registration)
  /\ opened \in Seq([package : DOMAIN Catalog, at : Nat])
  /\ \A i \in DOMAIN opened : opened[i].at <= Len(registrations)
  /\ place \in Nat
  /\ defined \in [ExportedNames -> Nat]

\* A registration is added at the end, if at all.
LEMMA RegisteredTyped ==
  ASSUME NEW registered \in Seq(Registration), NEW package \in DOMAIN Catalog, NEW from \in Nat
  PROVE  /\ Registered(registered, package, from) \in Seq(Registration)
         /\ Len(Registered(registered, package, from)) >= Len(registered)
<1>1. [package |-> package, from |-> from] \in Registration
  BY DEF Registration
<1>2. /\ Append(registered, [package |-> package, from |-> from]) \in Seq(Registration)
      /\ Len(Append(registered, [package |-> package, from |-> from])) = Len(registered) + 1
      /\ Len(registered) \in Nat
  BY <1>1, AppendProperties, LenProperties
<1> QED BY <1>2 DEF Registered

LEMMA ImportsInvInit == ImportsInit => ImportsInv
<1> SUFFICES ASSUME ImportsInit PROVE ImportsInv
  OBVIOUS
<1>1. registrations \in Seq(Registration)
  <2>1. /\ Baseline \in Seq(DOMAIN Catalog) /\ Len(Baseline) \in Nat
        /\ DOMAIN Baseline = 1..Len(Baseline)
    BY RegistryAssumption, LenProperties
  <2>2. \A i \in 1..Len(Baseline) : Baseline[i] \in DOMAIN Catalog
    BY <2>1, ElementOfSeq
  <2>3. AtStart \in [1..Len(Baseline) -> Registration]
    BY <2>1, <2>2 DEF AtStart, Registration
  <2> QED BY <2>1, <2>3, SeqDef DEF ImportsInit
<1>2. opened \in Seq([package : DOMAIN Catalog, at : Nat])
  BY DEF ImportsInit
<1>3. DOMAIN opened = {}
  BY DEF ImportsInit
<1> QED BY <1>1, <1>2, <1>3 DEF ImportsInit, ImportsInv

LEMMA ImportsInvStep == ImportsInv /\ [ImportsNext]_importVars => ImportsInv'
<1> SUFFICES ASSUME ImportsInv, [ImportsNext]_importVars PROVE ImportsInv'
  OBVIOUS
<1> DEFINE Opened == [package : DOMAIN Catalog, at : Nat]
<1>0. /\ registrations \in Seq(Registration) /\ Len(registrations) \in Nat
      /\ opened \in Seq(Opened) /\ Len(opened) \in Nat /\ DOMAIN opened = 1..Len(opened)
      /\ \A i \in 1..Len(opened) :
           opened[i] \in Opened /\ opened[i].at <= Len(registrations)
  BY LenProperties, ElementOfSeq DEF ImportsInv
<1>1. ASSUME NEW package \in DOMAIN Catalog, OpenImport(package) PROVE ImportsInv'
  <2> DEFINE m == [package |-> package, at |-> Len(registrations)]
  <2>1. m \in Opened /\ m.at = Len(registrations)
    BY <1>0
  <2>2. opened' = Append(opened, m) /\ registrations' = registrations
    BY <1>1 DEF OpenImport
  <2> HIDE DEF m
  <2>3. /\ opened' \in Seq(Opened) /\ Len(opened') = Len(opened) + 1
        /\ \A i \in 1..Len(opened) : opened'[i] = opened[i]
        /\ opened'[Len(opened) + 1] = m
    BY <1>0, <2>1, <2>2, AppendProperties
  <2>4. DOMAIN opened' = 1..(Len(opened) + 1)
    BY <2>3, LenProperties
  <2>5. \A i \in DOMAIN opened' : opened'[i].at <= Len(registrations')
    BY <1>0, <2>1, <2>2, <2>3, <2>4
  <2> QED BY <1>1, <2>2, <2>3, <2>5 DEF OpenImport, ImportsInv
<1>2. CASE CloseImport
  <2> DEFINE last == opened[Len(opened)]
             before == SubSeq(registrations, 1, last.at)
             inside == SubSeq(registrations, last.at + 1, Len(registrations))
             registered == Registered(before, last.package, place)
  <2>1. opened # <<>> /\ Len(opened) # 0
    BY <1>0, <1>2, EmptySeq DEF CloseImport
  <2>2. last \in Opened /\ last.at <= Len(registrations)
    BY <1>0, <2>1
  <2>3. last.at \in Nat /\ last.package \in DOMAIN Catalog
    BY <2>2
  <2>4. registrations' = registered \o inside /\ opened' = SubSeq(opened, 1, Len(opened) - 1)
    BY <1>2 DEF CloseImport
  <2> HIDE DEF last
  <2>5. before \in Seq(Registration) /\ Len(before) = last.at
    BY <1>0, <2>2, <2>3, SubSeqProperties, ElementOfSeq
  <2>6. /\ inside \in Seq(Registration)
        /\ Len(inside) = Len(registrations) - last.at
    <3>1. last.at + 1 \in Int /\ \A i \in (last.at + 1)..Len(registrations) :
            registrations[i] \in Registration
      BY <1>0, <2>3, ElementOfSeq
    <3>2. /\ inside \in Seq(Registration)
          /\ Len(inside) = IF last.at + 1 <= Len(registrations)
                           THEN Len(registrations) - (last.at + 1) + 1 ELSE 0
      BY <1>0, <3>1, SubSeqProperties
    <3> QED BY <1>0, <2>2, <2>3, <3>2
  <2> HIDE DEF before, inside
  <2>7. registered \in Seq(Registration) /\ Len(registered) >= last.at /\ Len(registered) \in Nat
    BY <2>3, <2>5, RegisteredTyped, LenProperties DEF ImportsInv
  <2> HIDE DEF registered
  <2>8. /\ registrations' \in Seq(Registration)
        /\ Len(registrations') = Len(registered) + Len(inside)
    BY <2>4, <2>6, <2>7, ConcatProperties
  <2>9. Len(registrations') >= Len(registrations)
    BY <1>0, <2>3, <2>6, <2>7, <2>8
  <2>10. /\ opened' \in Seq(Opened) /\ Len(opened') = Len(opened) - 1
         /\ \A i \in 1..(Len(opened) - 1) : opened'[i] = opened[i]
    <3>1. \A i \in 1..(Len(opened) - 1) : opened[i] \in Opened
      BY <1>0
    <3>2. /\ SubSeq(opened, 1, Len(opened) - 1) \in Seq(Opened)
          /\ Len(SubSeq(opened, 1, Len(opened) - 1)) =
               IF 1 <= Len(opened) - 1 THEN Len(opened) - 1 - 1 + 1 ELSE 0
          /\ \A i \in 1..(Len(opened) - 1 - 1 + 1) :
               SubSeq(opened, 1, Len(opened) - 1)[i] = opened[1 + i - 1]
      BY <1>0, <3>1, SubSeqProperties
    <3> QED BY <1>0, <2>1, <2>4, <3>2
  <2>11. \A i \in DOMAIN opened' : opened'[i].at <= Len(registrations')
    <3>1. DOMAIN opened' = 1..(Len(opened) - 1)
      BY <2>10, LenProperties
    <3>2. \A i \in 1..(Len(opened) - 1) : opened[i].at \in Nat /\ opened[i].at <= Len(registrations)
      BY <1>0
    <3>3. Len(registrations') \in Nat
      BY <2>8, LenProperties
    <3>4. ASSUME NEW i \in 1..(Len(opened) - 1)
          PROVE  opened'[i].at <= Len(registrations')
      <4>1. opened'[i] = opened[i]
        BY <2>10
      <4>2. opened[i].at \in Nat /\ opened[i].at <= Len(registrations)
        BY <3>2
      <4> QED BY <1>0, <2>9, <3>3, <4>1, <4>2
    <3> QED BY <3>1, <3>4
  <2>12. place' = place + 1 /\ defined' = defined
    BY <1>2 DEF CloseImport
  <2>13. place' \in Nat /\ defined' \in [ExportedNames -> Nat]
    BY <2>12 DEF ImportsInv
  <2> QED BY <2>8, <2>10, <2>11, <2>13, Zenon DEF ImportsInv
<1>3. ASSUME NEW name \in ExportedNames, Define(name) PROVE ImportsInv'
  BY <1>3 DEF Define, ImportsInv
<1>4. CASE UNCHANGED importVars
  BY <1>4 DEF importVars, ImportsInv
<1> QED BY <1>1, <1>2, <1>3, <1>4 DEF ImportsNext

-----------------------------------------------------------------------------
(* Looking a name up. *)

Having(name, position) ==
  {i \in EffectiveAt(position) : name \in DOMAIN Catalog[registrations[i].package]}

\* registration_for_name_at gives the last registration that has the name.
LEMMA RegistrationIsLast ==
  ASSUME ImportsInv, NEW name, NEW position \in Nat
  PROVE  /\ Len(registrations) \in Nat
         /\ EffectiveAt(position) \subseteq 1..Len(registrations)
         /\ \A i \in 1..Len(registrations) : registrations[i].from \in Nat
         /\ Having(name, position) = {} => RegistrationFor(name, position) = 0
         /\ Having(name, position) # {} =>
              /\ RegistrationFor(name, position) \in Having(name, position)
              /\ \A j \in Having(name, position) : j <= RegistrationFor(name, position)
<1>1. /\ Len(registrations) \in Nat /\ DOMAIN registrations = 1..Len(registrations)
      /\ \A i \in 1..Len(registrations) : registrations[i] \in Registration
  BY LenProperties, ElementOfSeq DEF ImportsInv
<1>2. /\ EffectiveAt(position) \subseteq 1..Len(registrations)
      /\ Having(name, position) \subseteq 1..Len(registrations)
  BY <1>1 DEF EffectiveAt, Having
<1>3. RegistrationFor(name, position) =
        IF Having(name, position) = {} THEN 0
        ELSE CHOOSE i \in Having(name, position) : \A j \in Having(name, position) : j <= i
  BY DEF RegistrationFor, Having
<1>4. ASSUME Having(name, position) # {}
      PROVE  /\ RegistrationFor(name, position) \in Having(name, position)
             /\ \A j \in Having(name, position) : j <= RegistrationFor(name, position)
  <2>1. \E m \in Having(name, position) : \A k \in Having(name, position) : k <= m
    BY <1>1, <1>2, <1>4, GreatestNumber, SMTT(30)
  <2> QED BY <1>3, <1>4, <2>1, Zenon
<1> QED BY <1>1, <1>2, <1>3, <1>4 DEF Registration

\* The last registration of each package, of those in effect.
Latest(position) ==
  {i \in EffectiveAt(position) :
     \A j \in EffectiveAt(position) :
       j > i => registrations[j].package # registrations[i].package}

\* records_by_precedence_at lists them from the last down.
LEMMA PrecedenceIs ==
  ASSUME ImportsInv, NEW position \in Nat
  PROVE  /\ Cardinality(Latest(position)) \in Nat
         /\ DOMAIN Precedence(position) = 1..Cardinality(Latest(position))
         /\ \A i \in Latest(position) :
              /\ Rank(Latest(position), i) \in DOMAIN Precedence(position)
              /\ Precedence(position)[Rank(Latest(position), i)] = registrations[i].package
         /\ \A k \in DOMAIN Precedence(position) :
              \E i \in Latest(position) : Rank(Latest(position), i) = k
<1> DEFINE L == Latest(position)
<1>1. Len(registrations) \in Nat /\ L \subseteq 1..Len(registrations)
  BY RegistrationIsLast DEF Latest
<1>2. Precedence(position) =
        [k \in 1..Cardinality(L) |->
           registrations[CHOOSE i \in L : Cardinality({j \in L : j >= i}) = k].package]
  BY DEF Precedence, Latest
<1> HIDE DEF L
<1>3. /\ Cardinality(L) \in Nat
      /\ \A i \in L : Rank(L, i) \in 1..Cardinality(L)
      /\ \A k \in 1..Cardinality(L) : \E i \in L : Rank(L, i) = k
  BY <1>1, RankedFrom
<1>4. ASSUME NEW i \in L PROVE Precedence(position)[Rank(L, i)] = registrations[i].package
  <2>1. (CHOOSE l \in L : Rank(L, l) = Rank(L, i)) \in L
        /\ Rank(L, CHOOSE l \in L : Rank(L, l) = Rank(L, i)) = Rank(L, i)
    OBVIOUS
  <2> DEFINE c == CHOOSE l \in L : Rank(L, l) = Rank(L, i)
  <2>2. c \in L /\ Rank(L, c) = Rank(L, i)
    BY <2>1
  <2> HIDE DEF c
  <2>3. c = i
    <3>1. c \in Nat /\ i \in Nat /\ Rank(L, i) \in Nat
      BY <1>1, <1>3, <2>2
    <3>2. CASE c < i
      <4>1. Rank(L, i) < Rank(L, c)
        BY <1>1, <2>2, <3>2, RankFalls
      <4> QED BY <2>2, <3>1, <4>1
    <3>3. CASE i < c
      <4>1. Rank(L, c) < Rank(L, i)
        BY <1>1, <2>2, <3>3, RankFalls
      <4> QED BY <2>2, <3>1, <4>1
    <3> QED BY <3>1, <3>2, <3>3
  <2>4. Precedence(position)[Rank(L, i)] = registrations[c].package
    BY <1>2, <1>3 DEF Rank, c
  <2> QED BY <2>3, <2>4
<1> QED BY <1>2, <1>3, <1>4 DEF L

\* The two ways to look a name up agree.
LEMMA FirstListed ==
  ASSUME ImportsInv
  PROVE  LookupTakesTheFirstListed
<1> SUFFICES ASSUME NEW name \in ExportedNames, NEW position \in 1..place
             PROVE  LET listed == Precedence(position)
                        having == {k \in DOMAIN listed : name \in DOMAIN Catalog[listed[k]]}
                    IN  ObjectAt(name, position) =
                          IF having = {} THEN NoObject
                          ELSE Catalog[listed[CHOOSE k \in having :
                                                \A l \in having : k <= l]][name]
  BY DEF LookupTakesTheFirstListed
<1> DEFINE L == Latest(position)
           H == Having(name, position)
           listed == Precedence(position)
           having == {k \in DOMAIN listed : name \in DOMAIN Catalog[listed[k]]}
           last == RegistrationFor(name, position)
<1>1. position \in Nat
  BY DEF ImportsInv
<1>2. /\ Cardinality(L) \in Nat /\ DOMAIN listed = 1..Cardinality(L)
      /\ \A i \in L : Rank(L, i) \in DOMAIN listed /\ listed[Rank(L, i)] = registrations[i].package
      /\ \A k \in DOMAIN listed : \E i \in L : Rank(L, i) = k
  BY <1>1, PrecedenceIs
<1>3. /\ Len(registrations) \in Nat
      /\ L \subseteq 1..Len(registrations) /\ H \subseteq 1..Len(registrations)
  BY <1>1, RegistrationIsLast DEF Latest, Having
<1>4. /\ H = {} => last = 0
      /\ H # {} => last \in H /\ \A j \in H : j <= last
  BY <1>1, RegistrationIsLast
<1>5. \A i \in L : i \in H <=> Rank(L, i) \in having
  BY <1>2 DEF Having, Latest
<1>6. CASE H = {}
  <2>1. having = {}
    BY <1>2, <1>5, <1>6
  <2> QED BY <1>4, <1>6, <2>1 DEF ObjectAt
<1>7. CASE H # {}
  <2>1. last \in H /\ last \in Nat /\ last # 0
    BY <1>3, <1>4, <1>7
  <2>2. last \in L
    <3> SUFFICES ASSUME NEW j \in EffectiveAt(position), j > last,
                        registrations[j].package = registrations[last].package
                 PROVE  FALSE
      BY <2>1 DEF Latest, Having
    <3>1. j \in H
      BY <2>1 DEF Having
    <3>2. j <= last /\ j \in Nat
      BY <1>3, <1>4, <1>7, <3>1
    <3> QED BY <2>1, <3>2
  <2>3. Rank(L, last) \in having
    BY <1>5, <2>1, <2>2
  <2> HIDE DEF L, H, last
  <2>4. ASSUME NEW k \in having PROVE Rank(L, last) <= k
    <3>1. PICK i \in L : Rank(L, i) = k
      BY <1>2
    <3>2. i \in H
      BY <1>5, <3>1
    <3>3. i <= last /\ i \in Nat
      BY <1>3, <1>4, <1>7, <3>2
    <3>4. CASE i = last
      BY <1>2, <3>1, <3>4
    <3>5. CASE i < last
      <4>1. Rank(L, last) < Rank(L, i)
        BY <1>3, <2>2, <3>5, RankFalls
      <4>2. Rank(L, last) \in Nat /\ Rank(L, i) \in Nat
        BY <1>2, <2>2
      <4> QED BY <3>1, <4>1, <4>2
    <3> QED BY <2>1, <3>3, <3>4, <3>5
  <2>5. \A k \in having : k \in Nat
    BY <1>2
  <2> DEFINE first == CHOOSE k \in having : \A l \in having : k <= l
  <2> HIDE DEF having
  <2>6. first \in having /\ \A l \in having : first <= l
    BY <2>3, <2>4
  <2>7. first = Rank(L, last)
    BY <2>3, <2>4, <2>5, <2>6
  <2>8. listed[first] = registrations[last].package
    BY <1>2, <2>2, <2>7
  <2>9. ObjectAt(name, position) = Catalog[registrations[last].package][name]
    BY <2>1 DEF ObjectAt, last
  <2> QED BY <2>3, <2>8, <2>9 DEF having
<1> QED BY <1>6, <1>7

\* What is in effect last names the object, if no import is inside another.
LEMMA LastNames ==
  ASSUME ImportsInv
  PROVE  LastOneNamesIt
<1> SUFFICES ASSUME InTextOrder, NEW name \in ExportedNames, NEW position \in 1..place
             PROVE  LET after == {i \in DOMAIN registrations :
                          /\ name \in DOMAIN Catalog[registrations[i].package]
                          /\ registrations[i].from \in (defined[name] + 1)..position}
                    IN  /\ ShadowsSource(name, defined[name], position) = (after # {})
                        /\ after # {} =>
                             \E i \in after :
                               /\ \A j \in after : registrations[j].from <= registrations[i].from
                               /\ ObjectAt(name, position) =
                                    Catalog[registrations[i].package][name]
  BY DEF LastOneNamesIt
<1> DEFINE H == Having(name, position)
           last == RegistrationFor(name, position)
           after == {i \in DOMAIN registrations :
                       /\ name \in DOMAIN Catalog[registrations[i].package]
                       /\ registrations[i].from \in (defined[name] + 1)..position}
<1>1. position \in Nat /\ defined[name] \in Nat
  BY DEF ImportsInv
<1>2. /\ Len(registrations) \in Nat /\ DOMAIN registrations = 1..Len(registrations)
      /\ \A i \in 1..Len(registrations) : registrations[i].from \in Nat
      /\ H \subseteq 1..Len(registrations)
      /\ H = {} => last = 0
      /\ H # {} => last \in H /\ \A j \in H : j <= last
  BY <1>1, RegistrationIsLast, LenProperties DEF ImportsInv, Having
<1>3. \A i : i \in after <=> i \in H /\ registrations[i].from > defined[name]
  BY <1>1, <1>2 DEF Having, EffectiveAt
<1>4. ASSUME NEW i \in after
      PROVE  /\ last \in after
             /\ registrations[i].from <= registrations[last].from
  <2>1. i \in H /\ registrations[i].from > defined[name]
    BY <1>3
  <2>2. last \in H /\ i <= last
    BY <1>2, <2>1
  <2>3. registrations[i].from <= registrations[last].from
    <3>1. CASE i = last
      BY <1>2, <2>1, <3>1
    <3>2. CASE i < last
      BY <1>2, <2>1, <2>2, <3>2 DEF InTextOrder
    <3> QED BY <1>2, <2>1, <2>2, <3>1, <3>2
  <2>4. /\ registrations[i].from \in Nat /\ registrations[last].from \in Nat
    BY <1>2, <2>1, <2>2
  <2> HIDE DEF last, after, H
  <2>5. registrations[last].from > defined[name]
    BY <1>1, <2>1, <2>3, <2>4
  <2> QED BY <1>3, <2>2, <2>3, <2>5
<1>5. ShadowsSource(name, defined[name], position) <=> last # 0 /\ registrations[last].from > defined[name]
  BY DEF ShadowsSource
<1>6. last \in H => last # 0
  BY <1>2
<1>7. ShadowsSource(name, defined[name], position) <=> after # {}
  <2>1. ASSUME ShadowsSource(name, defined[name], position) PROVE last \in after
    <3>1. last # 0 /\ registrations[last].from > defined[name]
      BY <1>5, <2>1
    <3>2. last \in H
      BY <1>2, <3>1
    <3> HIDE DEF last, after, H
    <3> QED BY <1>3, <3>1, <3>2
  <2>2. ASSUME after # {} PROVE ShadowsSource(name, defined[name], position)
    <3>1. last \in after
      BY <1>4, <2>2
    <3> HIDE DEF last, after, H
    <3> QED BY <1>3, <1>5, <1>6, <3>1
  <2> QED BY <2>1, <2>2
<1>8. after # {} =>
        /\ last \in after
        /\ \A j \in after : registrations[j].from <= registrations[last].from
        /\ ObjectAt(name, position) = Catalog[registrations[last].package][name]
  <2> SUFFICES ASSUME after # {}
               PROVE  /\ last \in after
                      /\ \A j \in after : registrations[j].from <= registrations[last].from
                      /\ ObjectAt(name, position) = Catalog[registrations[last].package][name]
    OBVIOUS
  <2>1. last \in after /\ \A j \in after : registrations[j].from <= registrations[last].from
    BY <1>4
  <2>2. last # 0
    BY <1>3, <1>6, <2>1
  <2> QED BY <2>1, <2>2 DEF ObjectAt
<1>9. ShadowsSource(name, defined[name], position) \in BOOLEAN
  BY DEF ShadowsSource
<1> HIDE DEF last, after
<1>10. ShadowsSource(name, defined[name], position) = (after # {})
  BY <1>7, <1>9
<1> QED BY <1>8, <1>10 DEF after

THEOREM ImportsAlwaysInv == ImportsSpec => []ImportsInv
  BY ImportsInvInit, ImportsInvStep, PTL DEF ImportsSpec

\* Wherever imports are, one after the other or one inside another, resolving a
\* name and the first of the listed records that has it are one object; and it
\* is what was included last before the place, if imports take effect in the
\* order they are registered.
THEOREM NamesAlwaysResolved == ImportsSpec => []NamesAreResolved
<1>1. ImportsInv => NamesAreResolved
  BY FirstListed, LastNames DEF NamesAreResolved
<1> QED BY <1>1, ImportsAlwaysInv, PTL

-----------------------------------------------------------------------------
(* The loading of the corpus: what linking does to an index. *)

LoadedIds == {raw.id : raw \in Loaded}

\* The record of a placeholder.
Placeholder(id) == Rec(TRUE, PackageId(id.package), id)

\* An index the references of the file can be linked in: the records that are not of
\* the file are placeholders, and until a placeholder takes its name over, a reference
\* finds what it means.
Linkable(idx) ==
  /\ idx = [records |-> idx.records, by_name |-> idx.by_name, opaque |-> idx.opaque]
  /\ NoType \notin DOMAIN idx.records
  /\ \A raw \in Loaded : /\ raw.id \in DOMAIN idx.records
                         /\ idx.records[raw.id].type = (raw.kind = "type")
                         /\ DOMAIN idx.records[raw.id] = {"type", "package", "parent"}
                         /\ {raw.id.name} \cup raw.aliases \subseteq DOMAIN idx.by_name
  /\ \A id \in DOMAIN idx.records : id \notin LoadedIds => idx.records[id] = Placeholder(id)
  /\ \A n \in DOMAIN idx.by_name : idx.by_name[n] \in DOMAIN idx.records
  /\ \A ref \in DOMAIN idx.opaque :
       /\ ref \in TypeRefs /\ idx.opaque[ref] = Opaque(ref)
       /\ Opaque(ref) \in DOMAIN idx.records
       /\ ~TakenOver(ref) => InFile(ref) /\ RecordOf(ref).kind # "type"
  /\ \A ref \in Refs : ~TakenOver(ref) =>
       /\ InFile(ref) => Find(idx, ref) = RecordOf(ref).id
       /\ ~InFile(ref) => Find(idx, ref) \in {NoType, Missing(ref)}

\* Linking keeps the records and the opaque types; a name may go over to a placeholder.
Grows(idx, new) ==
  /\ \A id \in DOMAIN idx.records : id \in DOMAIN new.records /\ new.records[id] = idx.records[id]
  /\ \A n \in DOMAIN idx.by_name :
       /\ n \in DOMAIN new.by_name
       /\ new.by_name[n] = idx.by_name[n] \/ IsType(new, new.by_name[n])
  /\ \A ref \in DOMAIN idx.opaque : ref \in DOMAIN new.opaque

\* A reference has its type, or has something.
HasType(idx, ref) == ref \in DOMAIN idx.opaque \/ IsType(idx, Find(idx, ref))
HasObject(idx, ref) == ref \in DOMAIN idx.opaque \/ Find(idx, ref) # NoType

\* What the lines of a file are.
LinesOK ==
  /\ lines \in Seq(RawRecords)
  /\ \A i, j \in 1..Len(lines) : lines[i].id = lines[j].id => i = j

LEMMA FileRefs ==
  ASSUME LinesOK
  PROVE  /\ Loaded \subseteq RawRecords /\ Refs \subseteq References /\ TypeRefs \subseteq Refs
         /\ \A raw \in Loaded : raw.id.package # Bare /\ raw.id.package # Unresolved /\ raw.id # NoType
         /\ \A ref \in Refs : ref # NoType /\ Opaque(ref) # NoType /\ Missing(ref) # NoType
<1>1. Loaded \subseteq RawRecords
  BY ElementOfSeq, LenProperties DEF LinesOK, Loaded
<1>2. TypeRefs \subseteq Refs
  BY DEF Refs
<1>3. Refs \subseteq References
  BY <1>1 DEF Refs, TypeRefs, Parents, References
<1>4. \A raw \in Loaded : raw.id.package # Bare /\ raw.id.package # Unresolved /\ raw.id # NoType
  BY <1>1, CorpusAssumption
<1>5. \A ref \in Refs : ref # NoType /\ Opaque(ref) # NoType
  BY <1>3, CorpusAssumption
<1>6. \A ref \in Refs : Missing(ref) # NoType
  BY <1>5 DEF Missing
<1> QED BY <1>1, <1>2, <1>3, <1>4, <1>5, <1>6

\* The lines that have a name, and those that have it as an alias.
OwnName(n) == {i \in DOMAIN lines : lines[i].id.name = n}
Aliased(n) == {i \in DOMAIN lines : n \in lines[i].aliases}

\* The line a name is for.
IsNamed(n, i) ==
  \/ i \in OwnName(n) /\ \A j \in OwnName(n) : j <= i
  \/ OwnName(n) = {} /\ i \in Aliased(n) /\ \A j \in Aliased(n) : i <= j

LEMMA NamedIs ==
  ASSUME LinesOK, NEW n
  PROVE  /\ OwnName(n) \cup Aliased(n) # {} => \E i \in 1..Len(lines) : IsNamed(n, i)
         /\ \A i \in 1..Len(lines) : IsNamed(n, i) => Named(n) = lines[i]
<1>1. DOMAIN lines = 1..Len(lines) /\ Len(lines) \in Nat
  BY LenProperties DEF LinesOK
<1>2. OwnName(n) \subseteq 1..Len(lines) /\ Aliased(n) \subseteq 1..Len(lines)
  BY <1>1 DEF OwnName, Aliased
<1>3. ASSUME OwnName(n) \cup Aliased(n) # {} PROVE \E i \in 1..Len(lines) : IsNamed(n, i)
  <2>1. CASE OwnName(n) # {}
    <3>1. OwnName(n) \subseteq 0..Len(lines)
      BY <1>1, <1>2
    <3>2. \E i \in OwnName(n) : \A j \in OwnName(n) : j <= i
      BY <1>1, <2>1, <3>1, GreatestNumber
    <3> QED BY <1>2, <3>2 DEF IsNamed
  <2>2. CASE OwnName(n) = {}
    <3>1. Aliased(n) \subseteq Nat /\ Aliased(n) # {}
      BY <1>1, <1>2, <1>3, <2>2
    <3>2. \E i \in Aliased(n) : \A j \in Aliased(n) : i <= j
      BY <3>1, LeastNumber
    <3> QED BY <1>2, <2>2, <3>2 DEF IsNamed
  <2> QED BY <2>1, <2>2
<1>4. ASSUME NEW i \in 1..Len(lines), IsNamed(n, i) PROVE Named(n) = lines[i]
  <2>1. Named(n) = IF OwnName(n) # {} THEN lines[CHOOSE k \in OwnName(n) : \A j \in OwnName(n) : j <= k]
                   ELSE lines[CHOOSE k \in Aliased(n) : \A j \in Aliased(n) : k <= j]
    BY DEF Named, OwnName, Aliased
  <2>2. CASE i \in OwnName(n) /\ \A j \in OwnName(n) : j <= i
    <3>1. \A k \in OwnName(n) : (\A j \in OwnName(n) : j <= k) => k = i
      BY <1>1, <1>2, <2>2
    <3>2. (CHOOSE k \in OwnName(n) : \A j \in OwnName(n) : j <= k) = i
      BY <2>2, <3>1
    <3> QED BY <2>1, <2>2, <3>2
  <2>3. CASE OwnName(n) = {} /\ i \in Aliased(n) /\ \A j \in Aliased(n) : i <= j
    <3>1. \A k \in Aliased(n) : (\A j \in Aliased(n) : k <= j) => k = i
      BY <1>1, <1>2, <2>3
    <3>2. (CHOOSE k \in Aliased(n) : \A j \in Aliased(n) : k <= j) = i
      BY <2>3, <3>1
    <3> QED BY <2>1, <2>3, <3>2
  <2> QED BY <1>4, <2>2, <2>3 DEF IsNamed
<1> QED BY <1>3, <1>4

\* The record of a reference into the file is of the file.
LEMMA RecordInFile ==
  ASSUME LinesOK, NEW ref, InFile(ref)
  PROVE  /\ RecordOf(ref) \in Loaded
         /\ ref.package # Bare => RecordOf(ref).id = ref
<1>1. CASE ref.package # Bare
  <2>1. \E raw \in Loaded : raw.id = ref
    BY <1>1 DEF InFile
  <2> QED BY <1>1, <2>1 DEF RecordOf
<1>2. CASE ref.package = Bare
  <2>1. DOMAIN lines = 1..Len(lines)
    BY LenProperties DEF LinesOK
  <2>2. OwnName(ref.name) \cup Aliased(ref.name) # {}
    BY <1>2 DEF InFile, Loaded, OwnName, Aliased
  <2>3. PICK i \in 1..Len(lines) : Named(ref.name) = lines[i]
    BY <2>2, NamedIs
  <2> QED BY <1>2, <2>1, <2>3 DEF RecordOf, Loaded
<1> QED BY <1>1, <1>2

\* A record that is found is one of the index.
LEMMA FoundIs ==
  ASSUME NEW idx, Linkable(idx), NEW ref, Find(idx, ref) # NoType
  PROVE  Find(idx, ref) \in DOMAIN idx.records
BY DEF Find, Linkable

\* A record is of the file, or a placeholder and a type.
LEMMA RecordIs ==
  ASSUME LinesOK, NEW idx, Linkable(idx), NEW id \in DOMAIN idx.records
  PROVE  /\ id \notin LoadedIds => idx.records[id] = Placeholder(id) /\ IsType(idx, id)
         /\ \A raw \in Loaded : raw.id = id => (IsType(idx, id) <=> raw.kind = "type")
         /\ DOMAIN idx.records[id] = {"type", "package", "parent"}
<1>1. CASE id \notin LoadedIds
  <2>1. idx.records[id] = Placeholder(id)
    BY <1>1 DEF Linkable
  <2>2. IsType(idx, id) /\ DOMAIN idx.records[id] = {"type", "package", "parent"}
    BY <2>1 DEF IsType, Placeholder, Rec
  <2> QED BY <1>1, <2>1, <2>2 DEF LoadedIds
<1>2. CASE id \in LoadedIds
  <2>1. PICK raw \in Loaded : raw.id = id
    BY <1>2 DEF LoadedIds
  <2>2. \A other \in Loaded : other.id = id => (IsType(idx, id) <=> other.kind = "type")
    BY DEF Linkable, IsType
  <2>3. DOMAIN idx.records[id] = {"type", "package", "parent"}
    BY <2>1 DEF Linkable
  <2> QED BY <1>2, <2>2, <2>3
<1> QED BY <1>1, <1>2

LEMMA MissingIs ==
  ASSUME LinesOK, NEW idx, Linkable(idx), NEW ref \in Refs, ~InFile(ref)
  PROVE  /\ Missing(ref) \notin LoadedIds /\ Missing(ref) # NoType
         /\ ref.package = Bare => Missing(ref).name = ref.name
         /\ ref.package # Bare => Missing(ref) = ref
<1>1. \A raw \in Loaded : raw.id.package # Unresolved
  BY FileRefs
<1>2. Missing(ref) \notin LoadedIds
  BY <1>1 DEF Missing, Opaque, LoadedIds, InFile, Ref
<1>3. Missing(ref) # NoType
  BY FileRefs
<1>4. ref.package = Bare => Missing(ref).name = ref.name
  BY DEF Missing, Opaque, Ref
<1> QED BY <1>2, <1>3, <1>4 DEF Missing

LEMMA OpaqueIs ==
  ASSUME LinesOK, NEW ref \in Refs
  PROVE  Opaque(ref) \notin LoadedIds /\ Opaque(ref) # NoType
<1>1. \A raw \in Loaded : raw.id.package # Unresolved
  BY FileRefs
<1> QED BY <1>1, FileRefs DEF Opaque, LoadedIds, Ref

\* What is not in the index is not in the file.
LEMMA NotFoundNotInFile ==
  ASSUME LinesOK, NEW idx, Linkable(idx), NEW ref \in Refs, Find(idx, ref) = NoType
  PROVE  ~InFile(ref)
<1> SUFFICES ASSUME InFile(ref) PROVE FALSE
  OBVIOUS
<1>1. CASE ref.package = Bare
  <2>1. ref.name \in DOMAIN idx.by_name
    BY <1>1 DEF InFile, Linkable
  <2>2. Find(idx, ref) \in DOMAIN idx.records
    BY <1>1, <2>1 DEF Find, Linkable
  <2> QED BY <2>2 DEF Linkable
<1>2. CASE ref.package # Bare
  <2>1. ref \in DOMAIN idx.records
    BY <1>2 DEF InFile, Linkable
  <2>2. Find(idx, ref) = ref
    BY <1>2, <2>1 DEF Find
  <2> QED BY <2>2, FileRefs
<1> QED BY <1>1, <1>2

\* The index with a placeholder for a reference that names nothing.
WithMissing(idx, ref) == Insert(idx, Missing(ref), Placeholder(Missing(ref)), {})

IsIndex(idx) == idx = [records |-> idx.records, by_name |-> idx.by_name, opaque |-> idx.opaque]

LEMMA IndexEdits ==
  ASSUME NEW idx, IsIndex(idx), NEW r, NEW n, NEW o
  PROVE  /\ [idx EXCEPT !.records = r, !.by_name = n]
              = [records |-> r, by_name |-> n, opaque |-> idx.opaque]
         /\ [idx EXCEPT !.records = r, !.opaque = o]
              = [records |-> r, by_name |-> idx.by_name, opaque |-> o]
         /\ [idx EXCEPT !.records = r]
              = [records |-> r, by_name |-> idx.by_name, opaque |-> idx.opaque]
<1>1. PICK R, N, O : idx = [records |-> R, by_name |-> N, opaque |-> O]
  BY DEF IsIndex
<1>2. idx.records = R /\ idx.by_name = N /\ idx.opaque = O
  BY <1>1
<1>3. [idx EXCEPT !.records = r] = [records |-> r, by_name |-> N, opaque |-> O]
  BY <1>1
<1> DEFINE new == [records |-> r, by_name |-> N, opaque |-> O]
<1>4. [new EXCEPT !.by_name = n] = [records |-> r, by_name |-> n, opaque |-> O]
      /\ [new EXCEPT !.opaque = o] = [records |-> r, by_name |-> N, opaque |-> o]
  OBVIOUS
<1>5. [idx EXCEPT !.records = r] = new
  BY <1>3
<1> HIDE DEF new
<1>6. [[idx EXCEPT !.records = r] EXCEPT !.by_name = n] = [new EXCEPT !.by_name = n]
      /\ [[idx EXCEPT !.records = r] EXCEPT !.opaque = o] = [new EXCEPT !.opaque = o]
  BY <1>5, Zenon
<1> QED BY <1>2, <1>3, <1>4, <1>6

LEMMA WithMissingIs ==
  ASSUME LinesOK, NEW idx, Linkable(idx), NEW ref \in Refs, Find(idx, ref) = NoType
  PROVE  LET new == WithMissing(idx, ref)
             id == Missing(ref)
         IN  /\ DOMAIN new.records = DOMAIN idx.records \cup {id}
             /\ new.records[id] = Placeholder(id)
             /\ \A other \in DOMAIN idx.records : new.records[other] = idx.records[other]
             /\ DOMAIN new.by_name = DOMAIN idx.by_name \cup {id.name}
             /\ new.by_name[id.name] = id
             /\ \A n \in DOMAIN idx.by_name : n # id.name => new.by_name[n] = idx.by_name[n]
             /\ new.opaque = idx.opaque
             /\ new = [records |-> new.records, by_name |-> new.by_name, opaque |-> new.opaque]
<1> DEFINE new == WithMissing(idx, ref)
           id == Missing(ref)
<1>1. ~InFile(ref) /\ id \notin LoadedIds
  BY NotFoundNotInFile, MissingIs
<1>2. new.records = Put(idx.records, id, Placeholder(id))
      /\ new.by_name = PutNew(Put(idx.by_name, id.name, id), {}, id)
      /\ new.opaque = idx.opaque
      /\ new = [records |-> new.records, by_name |-> new.by_name, opaque |-> new.opaque]
  <2>1. idx = [records |-> idx.records, by_name |-> idx.by_name, opaque |-> idx.opaque]
    BY DEF Linkable
  <2> DEFINE rs == Put(idx.records, Missing(ref), Placeholder(Missing(ref)))
             ns == PutNew(Put(idx.by_name, Missing(ref).name, Missing(ref)), {}, Missing(ref))
  <2>3. WithMissing(idx, ref) = [idx EXCEPT !.records = rs, !.by_name = ns]
    BY DEF WithMissing, Insert
  <2> HIDE DEF rs, ns
  <2>4. WithMissing(idx, ref) = [records |-> rs, by_name |-> ns, opaque |-> idx.opaque]
    BY <2>1, <2>3, IndexEdits, Zenon DEF IsIndex
  <2>2. WithMissing(idx, ref)
          = [records |-> Put(idx.records, Missing(ref), Placeholder(Missing(ref))),
             by_name |-> PutNew(Put(idx.by_name, Missing(ref).name, Missing(ref)), {}, Missing(ref)),
             opaque |-> idx.opaque]
    BY <2>4, Zenon DEF rs, ns
  <2> QED BY <2>2
<1> HIDE DEF new, id
<1>3. /\ DOMAIN new.records = DOMAIN idx.records \cup {id} /\ new.records[id] = Placeholder(id)
      /\ \A other \in DOMAIN idx.records : other # id => new.records[other] = idx.records[other]
  BY <1>2 DEF Put
<1>4. id \in DOMAIN idx.records => idx.records[id] = Placeholder(id)
  BY <1>1 DEF Linkable
<1>5. /\ DOMAIN new.by_name = DOMAIN idx.by_name \cup {id.name} /\ new.by_name[id.name] = id
      /\ \A n \in DOMAIN idx.by_name : n # id.name => new.by_name[n] = idx.by_name[n]
  BY <1>2 DEF Put, PutNew
<1>6. \A other \in DOMAIN idx.records : new.records[other] = idx.records[other]
  BY <1>3, <1>4
<1> QED BY <1>2, <1>3, <1>5, <1>6 DEF new, id

\* A placeholder answers to its reference, and takes no name from a reference that
\* is not taken over.
LEMMA MissingIsLinked ==
  ASSUME LinesOK, NEW idx, Linkable(idx), NEW ref \in Refs, ref \notin DOMAIN idx.opaque,
         Find(idx, ref) = NoType
  PROVE  LET new == WithMissing(idx, ref)
         IN  Linkable(new) /\ Grows(idx, new) /\ HasType(new, ref) /\ new.opaque = idx.opaque
<1> DEFINE new == WithMissing(idx, ref)
           id == Missing(ref)
<1>1. /\ DOMAIN new.records = DOMAIN idx.records \cup {id}
      /\ new.records[id] = Placeholder(id)
      /\ \A other \in DOMAIN idx.records : new.records[other] = idx.records[other]
      /\ DOMAIN new.by_name = DOMAIN idx.by_name \cup {id.name}
      /\ new.by_name[id.name] = id
      /\ \A n \in DOMAIN idx.by_name : n # id.name => new.by_name[n] = idx.by_name[n]
      /\ new.opaque = idx.opaque
      /\ new = [records |-> new.records, by_name |-> new.by_name, opaque |-> new.opaque]
  BY WithMissingIs
<1>2. ~InFile(ref)
  BY NotFoundNotInFile
<1>3. /\ id \notin LoadedIds /\ id # NoType
      /\ ref.package = Bare => id.name = ref.name
      /\ ref.package # Bare => id = ref
  BY <1>2, MissingIs
<1> HIDE DEF new, id
<1>4. IsType(new, id)
  BY <1>1 DEF IsType, Placeholder, Rec
<1>5. Find(new, ref) = id
  BY <1>1, <1>3 DEF Find
<1>6. Grows(idx, new)
  BY <1>1, <1>4 DEF Grows
<1>7. ASSUME NEW r \in Refs, ~TakenOver(r)
      PROVE  /\ InFile(r) => Find(new, r) = RecordOf(r).id
             /\ ~InFile(r) => Find(new, r) \in {NoType, Missing(r)}
  <2>1. /\ InFile(r) => Find(idx, r) = RecordOf(r).id
        /\ ~InFile(r) => Find(idx, r) \in {NoType, Missing(r)}
    BY <1>7 DEF Linkable
  <2>2. CASE r.package # Bare
    <3>1. InFile(r) => r \in DOMAIN new.records /\ RecordOf(r).id = r
      <4> SUFFICES ASSUME InFile(r) PROVE r \in DOMAIN new.records /\ RecordOf(r).id = r
        OBVIOUS
      <4>1. RecordOf(r) \in Loaded /\ RecordOf(r).id = r
        BY <2>2, RecordInFile
      <4> QED BY <1>1, <4>1 DEF Linkable
    <3>2. Missing(r) = r
      BY <2>2 DEF Missing
    <3> QED BY <2>2, <3>1, <3>2 DEF Find
  <2>3. CASE r.package = Bare /\ r.name # id.name
    <3>1. Find(new, r) = Find(idx, r)
      BY <1>1, <2>3 DEF Find
    <3> QED BY <2>1, <3>1
  <2>4. CASE r.package = Bare /\ r.name = id.name
    <3>1. ref.package = Bare
      BY <1>2, <1>3, <1>7, <2>4 DEF TakenOver
    <3>2. r.name = ref.name /\ Find(idx, r) = NoType
      BY <1>3, <2>4, <3>1 DEF Find
    <3>3. ~InFile(r)
      BY <3>2, NotFoundNotInFile
    <3>4. Find(new, r) = id
      BY <1>1, <2>4 DEF Find
    <3>5. Missing(r) = id
      BY <2>4, <3>1, <3>2 DEF Missing, Opaque, id
    <3> QED BY <3>3, <3>4, <3>5
  <2> QED BY <2>2, <2>3, <2>4
<1>8. Linkable(new)
  <2>1. NoType \notin DOMAIN new.records
    BY <1>1, <1>3 DEF Linkable
  <2>2. \A raw \in Loaded : /\ raw.id \in DOMAIN new.records
                            /\ new.records[raw.id].type = (raw.kind = "type")
                            /\ DOMAIN new.records[raw.id] = {"type", "package", "parent"}
                            /\ {raw.id.name} \cup raw.aliases \subseteq DOMAIN new.by_name
    <3> SUFFICES ASSUME NEW raw \in Loaded
                 PROVE  /\ raw.id \in DOMAIN new.records
                        /\ new.records[raw.id].type = (raw.kind = "type")
                        /\ DOMAIN new.records[raw.id] = {"type", "package", "parent"}
                        /\ {raw.id.name} \cup raw.aliases \subseteq DOMAIN new.by_name
      OBVIOUS
    <3>1. /\ raw.id \in DOMAIN idx.records
          /\ idx.records[raw.id].type = (raw.kind = "type")
          /\ DOMAIN idx.records[raw.id] = {"type", "package", "parent"}
          /\ {raw.id.name} \cup raw.aliases \subseteq DOMAIN idx.by_name
      BY DEF Linkable
    <3>2. new.records[raw.id] = idx.records[raw.id] /\ raw.id \in DOMAIN new.records
      BY <1>1, <3>1
    <3>3. {raw.id.name} \cup raw.aliases \subseteq DOMAIN new.by_name
      BY <1>1, <3>1
    <3> QED BY <3>1, <3>2, <3>3
  <2>3. \A other \in DOMAIN new.records : other \notin LoadedIds => new.records[other] = Placeholder(other)
    BY <1>1 DEF Linkable
  <2>4. \A n \in DOMAIN new.by_name : new.by_name[n] \in DOMAIN new.records
    BY <1>1 DEF Linkable
  <2>5. \A r \in DOMAIN new.opaque :
          /\ r \in TypeRefs /\ new.opaque[r] = Opaque(r)
          /\ Opaque(r) \in DOMAIN new.records
          /\ ~TakenOver(r) => InFile(r) /\ RecordOf(r).kind # "type"
    BY <1>1 DEF Linkable
  <2> QED BY <1>1, <1>7, <2>1, <2>2, <2>3, <2>4, <2>5 DEF Linkable
<1>9. HasType(new, ref)
  BY <1>4, <1>5 DEF HasType
<1> QED BY <1>1, <1>6, <1>8, <1>9 DEF new

\* The index with an opaque type for a reference to an object that is no type.
WithOpaque(idx, ref) ==
  [idx EXCEPT !.records = Put(@, Opaque(ref), Placeholder(Opaque(ref))),
              !.opaque = Put(@, ref, Opaque(ref))]

LEMMA OpaqueIsLinked ==
  ASSUME LinesOK, NEW idx, Linkable(idx), NEW ref \in TypeRefs, ref \notin DOMAIN idx.opaque,
         Find(idx, ref) # NoType, ~IsType(idx, Find(idx, ref))
  PROVE  LET new == WithOpaque(idx, ref)
         IN  Linkable(new) /\ Grows(idx, new) /\ HasType(new, ref)
<1> DEFINE new == WithOpaque(idx, ref)
           id == Opaque(ref)
           rs == Put(idx.records, id, Placeholder(id))
           os == Put(idx.opaque, ref, id)
<1>1. ref \in Refs /\ id \notin LoadedIds /\ id # NoType
  BY FileRefs, OpaqueIs
<1>2. new = [records |-> rs, by_name |-> idx.by_name, opaque |-> os]
  <2>1. IsIndex(idx)
    BY DEF Linkable, IsIndex
  <2>2. new = [idx EXCEPT !.records = rs, !.opaque = os]
    BY DEF WithOpaque
  <2> HIDE DEF rs, os, new
  <2> QED BY <2>1, <2>2, IndexEdits, Zenon
<1> HIDE DEF new, id
<1>3. /\ new.records = rs /\ new.by_name = idx.by_name /\ new.opaque = os
      /\ new = [records |-> new.records, by_name |-> new.by_name, opaque |-> new.opaque]
  <2> HIDE DEF rs, os
  <2> QED BY <1>2
<1>4. /\ DOMAIN new.records = DOMAIN idx.records \cup {id} /\ new.records[id] = Placeholder(id)
      /\ \A other \in DOMAIN idx.records : other # id => new.records[other] = idx.records[other]
  BY <1>3 DEF Put
<1>5. id \in DOMAIN idx.records => idx.records[id] = Placeholder(id)
  BY <1>1 DEF Linkable
<1>6. \A other \in DOMAIN idx.records : new.records[other] = idx.records[other]
  BY <1>4, <1>5
<1>7. /\ DOMAIN new.opaque = DOMAIN idx.opaque \cup {ref} /\ new.opaque[ref] = id
      /\ \A r \in DOMAIN idx.opaque : new.opaque[r] = idx.opaque[r]
  BY <1>3 DEF Put
<1>8. Grows(idx, new)
  BY <1>3, <1>4, <1>6, <1>7 DEF Grows
<1>9. \A r : \/ Find(idx, r) = Find(new, r)
             \/ r.package # Bare /\ Find(idx, r) = NoType /\ Find(new, r) = r
  BY <1>3, <1>4 DEF Find
<1>10. ASSUME ~TakenOver(ref) PROVE InFile(ref) /\ RecordOf(ref).kind # "type"
  <2>1. Find(idx, ref) \in DOMAIN idx.records
    BY FoundIs
  <2>2. Find(idx, ref) \in LoadedIds
    BY <2>1, RecordIs
  <2>3. InFile(ref)
    <3> SUFFICES ASSUME ~InFile(ref) PROVE FALSE
      OBVIOUS
    <3>1. Find(idx, ref) = Missing(ref)
      BY <1>1, <1>10 DEF Linkable
    <3> QED BY <1>1, <2>2, <3>1, MissingIs
  <2>4. Find(idx, ref) = RecordOf(ref).id /\ RecordOf(ref) \in Loaded
    BY <1>1, <1>10, <2>3, RecordInFile DEF Linkable
  <2>5. RecordOf(ref).kind # "type"
    BY <2>1, <2>4, RecordIs
  <2> QED BY <2>3, <2>5
<1>11. Linkable(new)
  <2>1. NoType \notin DOMAIN new.records
    BY <1>1, <1>4 DEF Linkable
  <2>2. \A raw \in Loaded : /\ raw.id \in DOMAIN new.records
                            /\ new.records[raw.id].type = (raw.kind = "type")
                            /\ DOMAIN new.records[raw.id] = {"type", "package", "parent"}
                            /\ {raw.id.name} \cup raw.aliases \subseteq DOMAIN new.by_name
    <3> SUFFICES ASSUME NEW raw \in Loaded
                 PROVE  /\ raw.id \in DOMAIN new.records
                        /\ new.records[raw.id].type = (raw.kind = "type")
                        /\ DOMAIN new.records[raw.id] = {"type", "package", "parent"}
                        /\ {raw.id.name} \cup raw.aliases \subseteq DOMAIN new.by_name
      OBVIOUS
    <3>1. /\ raw.id \in DOMAIN idx.records
          /\ idx.records[raw.id].type = (raw.kind = "type")
          /\ DOMAIN idx.records[raw.id] = {"type", "package", "parent"}
          /\ {raw.id.name} \cup raw.aliases \subseteq DOMAIN idx.by_name
      BY DEF Linkable
    <3>2. new.records[raw.id] = idx.records[raw.id] /\ raw.id \in DOMAIN new.records
      BY <1>4, <1>6, <3>1
    <3> QED BY <1>3, <3>1, <3>2
  <2>3. \A other \in DOMAIN new.records : other \notin LoadedIds => new.records[other] = Placeholder(other)
    BY <1>4, <1>6 DEF Linkable
  <2>4. \A n \in DOMAIN new.by_name : new.by_name[n] \in DOMAIN new.records
    BY <1>3, <1>4 DEF Linkable
  <2>5. ASSUME NEW r \in DOMAIN new.opaque
        PROVE  /\ r \in TypeRefs /\ new.opaque[r] = Opaque(r)
               /\ Opaque(r) \in DOMAIN new.records
               /\ ~TakenOver(r) => InFile(r) /\ RecordOf(r).kind # "type"
    <3>1. CASE r = ref
      BY <1>4, <1>7, <1>10, <3>1 DEF id
    <3>2. CASE r # ref
      BY <1>4, <1>7, <3>2 DEF Linkable
    <3> QED BY <3>1, <3>2
  <2>6. ASSUME NEW r \in Refs, ~TakenOver(r)
        PROVE  /\ InFile(r) => Find(new, r) = RecordOf(r).id
               /\ ~InFile(r) => Find(new, r) \in {NoType, Missing(r)}
    <3>1. /\ InFile(r) => Find(idx, r) = RecordOf(r).id
          /\ ~InFile(r) => Find(idx, r) \in {NoType, Missing(r)}
      BY <2>6 DEF Linkable
    <3>2. Find(idx, r) = NoType => ~InFile(r)
      BY NotFoundNotInFile
    <3>3. r.package # Bare => Missing(r) = r
      BY DEF Missing
    <3> QED BY <1>9, <3>1, <3>2, <3>3
  <2> QED BY <1>3, <2>1, <2>2, <2>3, <2>4, <2>5, <2>6 DEF Linkable
<1>12. HasType(new, ref)
  BY <1>7 DEF HasType
<1> QED BY <1>8, <1>11, <1>12 DEF new

-----------------------------------------------------------------------------
(* The loading of the corpus: an index that grows. *)

LEMMA GrowsSame ==
  ASSUME NEW idx
  PROVE  Grows(idx, idx)
BY DEF Grows

LEMMA GrowsOn ==
  ASSUME NEW a, NEW b, NEW c, Grows(a, b), Grows(b, c)
  PROVE  Grows(a, c)
<1>1. \A id \in DOMAIN a.records : id \in DOMAIN c.records /\ c.records[id] = a.records[id]
  BY DEF Grows
<1>2. \A id : IsType(b, id) => IsType(c, id)
  BY DEF Grows, IsType
<1>3. ASSUME NEW n \in DOMAIN a.by_name
      PROVE  n \in DOMAIN c.by_name /\ (c.by_name[n] = a.by_name[n] \/ IsType(c, c.by_name[n]))
  <2>1. n \in DOMAIN b.by_name /\ (b.by_name[n] = a.by_name[n] \/ IsType(b, b.by_name[n]))
    BY DEF Grows
  <2>2. n \in DOMAIN c.by_name /\ (c.by_name[n] = b.by_name[n] \/ IsType(c, c.by_name[n]))
    BY <2>1 DEF Grows
  <2> QED BY <1>2, <2>1, <2>2
<1>4. \A ref \in DOMAIN a.opaque : ref \in DOMAIN c.opaque
  BY DEF Grows
<1> QED BY <1>1, <1>3, <1>4 DEF Grows

LEMMA TypesStay ==
  ASSUME NEW idx, Linkable(idx), NEW new, Grows(idx, new)
  PROVE  /\ \A id : IsType(idx, id) => IsType(new, id)
         /\ \A ref : HasType(idx, ref) => HasType(new, ref)
<1>1. \A id : IsType(idx, id) => IsType(new, id)
  BY DEF Grows, IsType
<1>2. ASSUME NEW ref, HasType(idx, ref) PROVE HasType(new, ref)
  <2>1. CASE ref \in DOMAIN idx.opaque
    BY <2>1 DEF Grows, HasType
  <2>2. CASE ref \notin DOMAIN idx.opaque
    <3>1. IsType(idx, Find(idx, ref)) /\ Find(idx, ref) # NoType
      BY <1>2, <2>2 DEF HasType, IsType, Linkable
    <3>2. CASE ref.package = Bare
      <4>1. ref.name \in DOMAIN idx.by_name /\ Find(idx, ref) = idx.by_name[ref.name]
        BY <3>1, <3>2 DEF Find
      <4>2. ref.name \in DOMAIN new.by_name
            /\ (new.by_name[ref.name] = idx.by_name[ref.name] \/ IsType(new, new.by_name[ref.name]))
        BY <4>1 DEF Grows
      <4>3. IsType(new, Find(new, ref))
        BY <1>1, <3>1, <3>2, <4>1, <4>2 DEF Find
      <4> QED BY <4>3 DEF HasType
    <3>3. CASE ref.package # Bare
      <4>1. ref \in DOMAIN idx.records /\ Find(idx, ref) = ref
        BY <3>1, <3>3 DEF Find
      <4>2. Find(new, ref) = ref
        BY <3>3, <4>1 DEF Find, Grows
      <4> QED BY <1>1, <3>1, <4>1, <4>2 DEF HasType
    <3> QED BY <3>2, <3>3
  <2> QED BY <2>1, <2>2
<1> QED BY <1>1, <1>2

LEMMA ObjectsStay ==
  ASSUME NEW idx, Linkable(idx), NEW new, Linkable(new), Grows(idx, new), NEW ref, HasObject(idx, ref)
  PROVE  HasObject(new, ref)
<1>1. CASE ref \in DOMAIN idx.opaque
  BY <1>1 DEF Grows, HasObject
<1>2. CASE ref \notin DOMAIN idx.opaque
  <2>1. Find(idx, ref) # NoType
    BY <1>2 DEF HasObject
  <2>2. Find(new, ref) \in DOMAIN new.records
    <3>1. CASE ref.package = Bare
      <4>1. ref.name \in DOMAIN new.by_name
        BY <2>1, <3>1 DEF Find, Grows
      <4> QED BY <3>1, <4>1 DEF Find, Linkable
    <3>2. CASE ref.package # Bare
      BY <2>1, <3>2 DEF Find, Grows
    <3> QED BY <3>1, <3>2
  <2> QED BY <2>2 DEF HasObject, Linkable
<1> QED BY <1>1, <1>2

\* Resolving a reference links it and keeps what was linked.
LEMMA WithTypeLinks ==
  ASSUME LinesOK, NEW idx, Linkable(idx), NEW ref \in TypeRefs
  PROVE  LET new == WithType(idx, ref)
         IN  Linkable(new) /\ Grows(idx, new) /\ HasType(new, ref)
<1>1. CASE HasType(idx, ref)
  <2>1. WithType(idx, ref) = idx
    BY <1>1 DEF HasType, WithType
  <2> QED BY <1>1, <2>1, GrowsSame
<1>2. CASE ~HasType(idx, ref) /\ Find(idx, ref) = NoType
  <2>1. WithType(idx, ref) = WithMissing(idx, ref)
    BY <1>2 DEF HasType, WithType, WithMissing, Placeholder
  <2>2. ref \in Refs /\ ref \notin DOMAIN idx.opaque
    BY <1>2, FileRefs DEF HasType
  <2> QED BY <1>2, <2>1, <2>2, MissingIsLinked
<1>3. CASE ~HasType(idx, ref) /\ Find(idx, ref) # NoType
  <2>1. WithType(idx, ref) = WithOpaque(idx, ref)
    BY <1>3 DEF HasType, WithType, WithOpaque, Placeholder
  <2>2. ref \notin DOMAIN idx.opaque /\ ~IsType(idx, Find(idx, ref))
    BY <1>3 DEF HasType
  <2> QED BY <1>3, <2>1, <2>2, OpaqueIsLinked
<1> QED BY <1>1, <1>2, <1>3

LEMMA WithObjectLinks ==
  ASSUME LinesOK, NEW idx, Linkable(idx), NEW ref \in Refs
  PROVE  LET new == WithObject(idx, ref)
         IN  Linkable(new) /\ Grows(idx, new) /\ HasObject(new, ref)
<1>1. CASE HasObject(idx, ref)
  <2>1. WithObject(idx, ref) = idx
    BY <1>1 DEF HasObject, WithObject
  <2> QED BY <1>1, <2>1, GrowsSame
<1>2. CASE ~HasObject(idx, ref)
  <2>1. ref \notin DOMAIN idx.opaque /\ Find(idx, ref) = NoType
    BY <1>2 DEF HasObject
  <2>2. ~IsType(idx, Find(idx, ref))
    BY <2>1 DEF IsType, Linkable
  <2>3. WithObject(idx, ref) = WithMissing(idx, ref)
    BY <2>1, <2>2 DEF WithObject, WithType, WithMissing, Placeholder
  <2> DEFINE new == WithMissing(idx, ref)
  <2>4. Linkable(new) /\ Grows(idx, new) /\ HasType(new, ref)
    BY <2>1, MissingIsLinked
  <2> HIDE DEF new
  <2>5. HasObject(new, ref)
    BY <2>4 DEF HasType, HasObject, IsType, Linkable
  <2> QED BY <2>3, <2>4, <2>5 DEF new
<1> QED BY <1>1, <1>2

\* What a linked reference gives is the type, or the object, that it means.
LEMMA TypeAtIs ==
  ASSUME LinesOK, NEW idx, Linkable(idx), NEW ref \in Refs, HasType(idx, ref)
  PROVE  /\ IsType(idx, TypeAt(idx, ref)) /\ TypeAt(idx, ref) # NoType
         /\ ~TakenOver(ref) => TypeAt(idx, ref) = TypeMeant(ref)
<1>1. CASE ref \in DOMAIN idx.opaque
  <2>1. /\ TypeAt(idx, ref) = Opaque(ref) /\ Opaque(ref) \in DOMAIN idx.records
        /\ ~TakenOver(ref) => InFile(ref) /\ RecordOf(ref).kind # "type"
    BY <1>1 DEF TypeAt, Linkable
  <2>2. IsType(idx, Opaque(ref)) /\ Opaque(ref) # NoType
    BY <2>1, OpaqueIs, RecordIs
  <2> QED BY <2>1, <2>2 DEF TypeMeant
<1>2. CASE ref \notin DOMAIN idx.opaque
  <2>1. TypeAt(idx, ref) = Find(idx, ref) /\ IsType(idx, Find(idx, ref))
    BY <1>2 DEF TypeAt, HasType
  <2>2. Find(idx, ref) # NoType /\ Find(idx, ref) \in DOMAIN idx.records
    BY <2>1 DEF IsType, Linkable
  <2>3. ASSUME ~TakenOver(ref) PROVE Find(idx, ref) = TypeMeant(ref)
    <3>1. CASE InFile(ref)
      <4>1. Find(idx, ref) = RecordOf(ref).id /\ RecordOf(ref) \in Loaded
        BY <2>3, <3>1, RecordInFile DEF Linkable
      <4>2. RecordOf(ref).kind = "type"
        BY <2>1, <2>2, <4>1, RecordIs
      <4> QED BY <3>1, <4>1, <4>2 DEF TypeMeant
    <3>2. CASE ~InFile(ref)
      BY <2>2, <2>3, <3>2 DEF Linkable, TypeMeant
    <3> QED BY <3>1, <3>2
  <2> QED BY <2>1, <2>2, <2>3
<1> QED BY <1>1, <1>2

LEMMA ObjectAtIs ==
  ASSUME LinesOK, NEW idx, Linkable(idx), NEW ref \in Refs, HasObject(idx, ref),
         ref \in TypeRefs => HasType(idx, ref)
  PROVE  /\ TypeAt(idx, ref) \in DOMAIN idx.records
         /\ ~TakenOver(ref) => TypeAt(idx, ref) = ObjectMeant(ref)
<1>1. CASE ref \in TypeRefs
  <2>1. IsType(idx, TypeAt(idx, ref)) /\ (~TakenOver(ref) => TypeAt(idx, ref) = TypeMeant(ref))
    BY <1>1, TypeAtIs
  <2> QED BY <1>1, <2>1 DEF ObjectMeant, IsType
<1>2. CASE ref \notin TypeRefs
  <2>1. ref \notin DOMAIN idx.opaque
    BY <1>2 DEF Linkable
  <2>2. TypeAt(idx, ref) = Find(idx, ref) /\ Find(idx, ref) # NoType
    BY <2>1 DEF TypeAt, HasObject
  <2>3. Find(idx, ref) \in DOMAIN idx.records
    BY <2>2, FoundIs
  <2>4. ASSUME ~TakenOver(ref) PROVE Find(idx, ref) = ObjectMeant(ref)
    BY <1>2, <2>2, <2>4 DEF Linkable, ObjectMeant, TypeMeant
  <2> QED BY <2>2, <2>3, <2>4
<1> QED BY <1>1, <1>2

-----------------------------------------------------------------------------
(* The loading of the corpus: the references of one record. *)

\* What WithTypes does with one reference.
Announced(idx, ref) == IF ConcreteType(ref) THEN WithType(idx, ref) ELSE idx

LEMMA WithTypesUnfold ==
  ASSUME NEW idx, NEW refs, Len(refs) \in Nat
  PROVE  \E after : /\ after[0] = idx
                    /\ \A k \in 1..Len(refs) : after[k] = Announced(after[k - 1], refs[k])
                    /\ WithTypes(idx, refs) = after[Len(refs)]
<1> DEFINE N == Len(refs)
           step(f, k) == IF k = 0 THEN idx ELSE Announced(f[k - 1], refs[k])
           upTo(k, f) == f = [j \in 0..k |-> step(f, j)]
           P == {k \in 0..N : \E f : upTo(k, f)}
<1>1. N \in P
  <2>1. 0 \in P
    <3> DEFINE f == [j \in 0..0 |-> idx]
    <3>1. f = [j \in 0..0 |-> step(f, j)]
      <4>1. \A j \in 0..0 : step(f, j) = idx
        OBVIOUS
      <4> QED BY <4>1
    <3>2. 0 \in 0..N /\ upTo(0, f)
      BY <3>1
    <3> HIDE DEF upTo, f
    <3> QED BY <3>2
  <2>2. ASSUME NEW m \in 1..N, m \notin P, m - 1 \in P PROVE FALSE
    <3>1. PICK f : upTo(m - 1, f)
      BY <2>2
    <3>2. \A j \in 0..(m - 1) : f[j] = step(f, j)
      BY <3>1
    <3> DEFINE h == [j \in 0..m |-> IF j = m THEN step(f, j) ELSE f[j]]
    <3>3. ASSUME NEW j \in 0..m PROVE h[j] = step(h, j)
      <4>1. h[j] = step(f, j)
        <5>1. CASE j = m
          BY <5>1
        <5>2. CASE j # m
          <6>1. j \in 0..(m - 1)
            BY <5>2
          <6> QED BY <3>2, <5>2, <6>1
        <5> QED BY <5>1, <5>2
      <4>2. j > 0 => h[j - 1] = f[j - 1]
        OBVIOUS
      <4> HIDE DEF h
      <4> QED BY <4>1, <4>2
    <3>4. h = [j \in 0..m |-> h[j]]
      OBVIOUS
    <3> HIDE DEF step, h
    <3>5. h = [j \in 0..m |-> step(h, j)]
      BY <3>3, <3>4
    <3>6. upTo(m, h) /\ m \in 0..N
      BY <3>5, <2>2
    <3> QED BY <2>2, <3>6
  <2> HIDE DEF P
  <2> QED BY <2>1, <2>2, FirstFailure
<1> DEFINE after == CHOOSE f : f = [j \in 0..N |-> step(f, j)]
<1>2. after = [j \in 0..N |-> step(after, j)]
  <2>1. \E f : f = [j \in 0..N |-> step(f, j)]
    BY <1>1
  <2> HIDE DEF step
  <2> QED BY <2>1
<1>3. WithTypes(idx, refs) = after[N]
  BY DEF WithTypes, Announced
<1> HIDE DEF after
<1>4. \A j \in 0..N : after[j] = step(after, j)
  BY <1>2
<1>5. after[0] = idx
  BY <1>4
<1>6. \A k \in 1..N : after[k] = Announced(after[k - 1], refs[k])
  BY <1>4
<1> QED BY <1>3, <1>5, <1>6

LEMMA WithObjectsUnfold ==
  ASSUME NEW idx, NEW refs, Len(refs) \in Nat
  PROVE  \E after : /\ after[0] = idx
                    /\ \A k \in 1..Len(refs) : after[k] = WithObject(after[k - 1], refs[k])
                    /\ WithObjects(idx, refs) = after[Len(refs)]
<1> DEFINE N == Len(refs)
           step(f, k) == IF k = 0 THEN idx ELSE WithObject(f[k - 1], refs[k])
           upTo(k, f) == f = [j \in 0..k |-> step(f, j)]
           P == {k \in 0..N : \E f : upTo(k, f)}
<1>1. N \in P
  <2>1. 0 \in P
    <3> DEFINE f == [j \in 0..0 |-> idx]
    <3>1. f = [j \in 0..0 |-> step(f, j)]
      <4>1. \A j \in 0..0 : step(f, j) = idx
        OBVIOUS
      <4> QED BY <4>1
    <3>2. 0 \in 0..N /\ upTo(0, f)
      BY <3>1
    <3> HIDE DEF upTo, f
    <3> QED BY <3>2
  <2>2. ASSUME NEW m \in 1..N, m \notin P, m - 1 \in P PROVE FALSE
    <3>1. PICK f : upTo(m - 1, f)
      BY <2>2
    <3>2. \A j \in 0..(m - 1) : f[j] = step(f, j)
      BY <3>1
    <3> DEFINE h == [j \in 0..m |-> IF j = m THEN step(f, j) ELSE f[j]]
    <3>3. ASSUME NEW j \in 0..m PROVE h[j] = step(h, j)
      <4>1. h[j] = step(f, j)
        <5>1. CASE j = m
          BY <5>1
        <5>2. CASE j # m
          <6>1. j \in 0..(m - 1)
            BY <5>2
          <6> QED BY <3>2, <5>2, <6>1
        <5> QED BY <5>1, <5>2
      <4>2. j > 0 => h[j - 1] = f[j - 1]
        OBVIOUS
      <4> HIDE DEF h
      <4> QED BY <4>1, <4>2
    <3>4. h = [j \in 0..m |-> h[j]]
      OBVIOUS
    <3> HIDE DEF step, h
    <3>5. h = [j \in 0..m |-> step(h, j)]
      BY <3>3, <3>4
    <3>6. upTo(m, h) /\ m \in 0..N
      BY <3>5, <2>2
    <3> QED BY <2>2, <3>6
  <2> HIDE DEF P
  <2> QED BY <2>1, <2>2, FirstFailure
<1> DEFINE after == CHOOSE f : f = [j \in 0..N |-> step(f, j)]
<1>2. after = [j \in 0..N |-> step(after, j)]
  <2>1. \E f : f = [j \in 0..N |-> step(f, j)]
    BY <1>1
  <2> HIDE DEF step
  <2> QED BY <2>1
<1>3. WithObjects(idx, refs) = after[N]
  BY DEF WithObjects
<1> HIDE DEF after
<1>4. \A j \in 0..N : after[j] = step(after, j)
  BY <1>2
<1>5. after[0] = idx
  BY <1>4
<1>6. \A k \in 1..N : after[k] = WithObject(after[k - 1], refs[k])
  BY <1>4
<1> QED BY <1>3, <1>5, <1>6

LEMMA WithTypesLinks ==
  ASSUME LinesOK, NEW idx, Linkable(idx), NEW refs, Len(refs) \in Nat,
         \A k \in 1..Len(refs) : ConcreteType(refs[k]) => refs[k] \in TypeRefs
  PROVE  LET new == WithTypes(idx, refs)
         IN  /\ Linkable(new) /\ Grows(idx, new)
             /\ \A k \in 1..Len(refs) : ConcreteType(refs[k]) => HasType(new, refs[k])
<1>1. PICK after : /\ after[0] = idx
                   /\ \A k \in 1..Len(refs) : after[k] = Announced(after[k - 1], refs[k])
                   /\ WithTypes(idx, refs) = after[Len(refs)]
  BY WithTypesUnfold
<1> DEFINE done(k) == /\ Linkable(after[k]) /\ Grows(idx, after[k])
                      /\ \A j \in 1..k : ConcreteType(refs[j]) => HasType(after[k], refs[j])
           P == {k \in 0..Len(refs) : done(k)}
<1>2. 0 \in P
  BY <1>1, GrowsSame
<1>3. ASSUME NEW m \in 1..Len(refs), m \notin P, m - 1 \in P PROVE FALSE
  <2>1. done(m - 1) /\ m - 1 \in 0..Len(refs)
    BY <1>3
  <2>2. after[m] = Announced(after[m - 1], refs[m])
    BY <1>1
  <2>3. /\ Linkable(after[m]) /\ Grows(after[m - 1], after[m])
        /\ ConcreteType(refs[m]) => HasType(after[m], refs[m])
    <3>1. CASE ConcreteType(refs[m])
      <4>1. after[m] = WithType(after[m - 1], refs[m]) /\ refs[m] \in TypeRefs
        BY <2>2, <3>1 DEF Announced
      <4> QED BY <2>1, <4>1, WithTypeLinks
    <3>2. CASE ~ConcreteType(refs[m])
      <4>1. after[m] = after[m - 1]
        BY <2>2, <3>2 DEF Announced
      <4> QED BY <2>1, <3>2, <4>1, GrowsSame
    <3> QED BY <3>1, <3>2
  <2>4. Grows(idx, after[m])
    BY <2>1, <2>3, GrowsOn
  <2>5. \A j \in 1..m : ConcreteType(refs[j]) => HasType(after[m], refs[j])
    <3> SUFFICES ASSUME NEW j \in 1..m, ConcreteType(refs[j]) PROVE HasType(after[m], refs[j])
      OBVIOUS
    <3>1. CASE j = m
      BY <2>3, <3>1
    <3>2. CASE j # m
      <4>1. j \in 1..(m - 1)
        BY <3>2
      <4>2. HasType(after[m - 1], refs[j])
        BY <2>1, <4>1
      <4> QED BY <2>1, <2>3, <4>2, TypesStay
    <3> QED BY <3>1, <3>2
  <2>6. done(m) /\ m \in 0..Len(refs)
    BY <2>3, <2>4, <2>5
  <2> HIDE DEF done
  <2> QED BY <1>3, <2>6
<1>4. Len(refs) \in P
  <2> HIDE DEF P
  <2> QED BY <1>2, <1>3, FirstFailure
<1>5. done(Len(refs))
  BY <1>4
<1> QED BY <1>1, <1>5

LEMMA WithObjectsLinks ==
  ASSUME LinesOK, NEW idx, Linkable(idx), NEW refs, Len(refs) \in Nat,
         \A k \in 1..Len(refs) : refs[k] \in Refs
  PROVE  LET new == WithObjects(idx, refs)
         IN  /\ Linkable(new) /\ Grows(idx, new)
             /\ \A k \in 1..Len(refs) : HasObject(new, refs[k])
<1>1. PICK after : /\ after[0] = idx
                   /\ \A k \in 1..Len(refs) : after[k] = WithObject(after[k - 1], refs[k])
                   /\ WithObjects(idx, refs) = after[Len(refs)]
  BY WithObjectsUnfold, ZenonT(30)
<1> DEFINE done(k) == /\ Linkable(after[k]) /\ Grows(idx, after[k])
                      /\ \A j \in 1..k : HasObject(after[k], refs[j])
           P == {k \in 0..Len(refs) : done(k)}
<1>2. 0 \in P
  BY <1>1, GrowsSame
<1>3. ASSUME NEW m \in 1..Len(refs), m \notin P, m - 1 \in P PROVE FALSE
  <2>1. done(m - 1) /\ m - 1 \in 0..Len(refs)
    BY <1>3
  <2>2. after[m] = WithObject(after[m - 1], refs[m]) /\ refs[m] \in Refs
    BY <1>1
  <2>3. Linkable(after[m]) /\ Grows(after[m - 1], after[m]) /\ HasObject(after[m], refs[m])
    BY <2>1, <2>2, WithObjectLinks
  <2>4. Grows(idx, after[m])
    BY <2>1, <2>3, GrowsOn
  <2>5. \A j \in 1..m : HasObject(after[m], refs[j])
    <3> SUFFICES ASSUME NEW j \in 1..m PROVE HasObject(after[m], refs[j])
      OBVIOUS
    <3>1. CASE j = m
      BY <2>3, <3>1
    <3>2. CASE j # m
      <4>1. j \in 1..(m - 1)
        BY <3>2
      <4>2. HasObject(after[m - 1], refs[j])
        BY <2>1, <4>1
      <4> QED BY <2>1, <2>3, <4>2, ObjectsStay
    <3> QED BY <3>1, <3>2
  <2>6. done(m) /\ m \in 0..Len(refs)
    BY <2>3, <2>4, <2>5
  <2> HIDE DEF done
  <2> QED BY <1>3, <2>6
<1>4. Len(refs) \in P
  <2> HIDE DEF P
  <2> QED BY <1>2, <1>3, FirstFailure
<1>5. done(Len(refs))
  BY <1>4
<1> QED BY <1>1, <1>5

-----------------------------------------------------------------------------
(* The loading of the corpus: the invariant. *)

\* What reading leaves: the records of the lines, by their names.
ReadIndex(idx) ==
  /\ IsIndex(idx) /\ DOMAIN idx.opaque = {} /\ DOMAIN idx.records = LoadedIds
  /\ \A raw \in Loaded :
       idx.records[raw.id] = Rec(raw.kind = "type", PackageId(raw.id.package), NoType)
  /\ \A n : n \in DOMAIN idx.by_name <=> OwnName(n) \cup Aliased(n) # {}
  /\ \A n, i : n \in DOMAIN idx.by_name /\ i \in 1..Len(lines) /\ IsNamed(n, i) =>
       idx.by_name[n] = lines[i].id

\* A record whose parent is the type its reference means; while linking, the reference
\* still has a type.
ParentIs(idx, raw) ==
  /\ IsType(idx, idx.records[raw.id].parent)
  /\ ~TakenOver(raw.parent) => idx.records[raw.id].parent = TypeMeant(raw.parent)
LinkedParent(idx, raw) == ParentIs(idx, raw) /\ HasType(idx, raw.parent)

KnownTypes(idx, raw) ==
  \A k \in 1..Len(raw.codomains) : ConcreteType(raw.codomains[k]) => HasType(idx, raw.codomains[k])

LinkedSlots(idx, raw, slots) ==
  /\ DOMAIN slots.codomains = DOMAIN raw.codomains /\ DOMAIN slots.domains = DOMAIN raw.domains
  /\ \A k \in DOMAIN raw.codomains :
       /\ slots.codomains[k] = NoType <=> ~ConcreteType(raw.codomains[k])
       /\ ConcreteType(raw.codomains[k]) => IsType(idx, slots.codomains[k])
       /\ ConcreteType(raw.codomains[k]) /\ ~TakenOver(raw.codomains[k]) =>
            slots.codomains[k] = TypeMeant(raw.codomains[k])
  /\ \A k \in DOMAIN raw.domains :
       /\ slots.domains[k] \in DOMAIN idx.records
       /\ ~TakenOver(raw.domains[k]) => slots.domains[k] = ObjectMeant(raw.domains[k])

\* The lines whose parents, and those whose codomains, have been linked.
Parented ==
  {i \in 1..Len(lines) : \/ phase \in {"codomains", "callables", "packages"}
                         \/ phase = "parents" /\ i <= pending}
Announcing ==
  {i \in 1..Len(lines) : \/ phase \in {"callables", "packages"}
                         \/ phase = "codomains" /\ i <= pending}

LinkingPhases == {"parents", "codomains", "callables", "packages"}

CorpusInv ==
  /\ LinesOK /\ pending \in Nat /\ phase \in LinkingPhases \cup {"read", "ready"}
  /\ DOMAIN links \subseteq LoadedIds
  /\ phase = "read" => ReadIndex(index) /\ DOMAIN links = {}
  /\ phase \in LinkingPhases =>
       /\ Linkable(index)
       /\ \A i \in Parented : lines[i].kind = "type" => LinkedParent(index, lines[i])
       /\ \A i \in Announcing : KnownTypes(index, lines[i])
       /\ \A raw \in Loaded : raw.id \in DOMAIN links => LinkedSlots(index, raw, links[raw.id])
  /\ phase = "ready" =>
       /\ RegistryIsClosed
       /\ \A raw \in Loaded : /\ raw.kind = "type" => ParentIs(index, raw)
                              /\ raw.id \in DOMAIN links => LinkedSlots(index, raw, links[raw.id])

LEMMA SameLines ==
  ASSUME lines' = lines
  PROVE  /\ LinesOK' <=> LinesOK
         /\ Loaded' = Loaded /\ LoadedIds' = LoadedIds
         /\ \A idx : ReadIndex(idx)' <=> ReadIndex(idx)
         /\ \A idx : Linkable(idx)' <=> Linkable(idx)
         /\ \A idx, raw : ParentIs(idx, raw)' <=> ParentIs(idx, raw)
         /\ \A idx, raw : LinkedParent(idx, raw)' <=> LinkedParent(idx, raw)
         /\ \A idx, raw : KnownTypes(idx, raw)' <=> KnownTypes(idx, raw)
         /\ \A idx, raw, slots : LinkedSlots(idx, raw, slots)' <=> LinkedSlots(idx, raw, slots)
<1>1. LinesOK' <=> LinesOK
  BY DEF LinesOK
<1>2. Loaded' = Loaded /\ LoadedIds' = LoadedIds
  BY DEF Loaded, LoadedIds
<1>3. \A n : OwnName(n)' = OwnName(n) /\ Aliased(n)' = Aliased(n)
  BY DEF OwnName, Aliased
<1>4. \A n, i : IsNamed(n, i)' <=> IsNamed(n, i)
  BY <1>3 DEF IsNamed
<1>5. \A idx : ReadIndex(idx)' <=> ReadIndex(idx)
  BY <1>2, <1>3, <1>4 DEF ReadIndex
<1>6. TypeRefs' = TypeRefs /\ Refs' = Refs
  BY <1>2 DEF TypeRefs, Refs, Parents
<1>7. \A ref : /\ InFile(ref)' <=> InFile(ref)
               /\ RecordOf(ref)' = RecordOf(ref)
  BY <1>2 DEF InFile, RecordOf, Named
<1>8. \A ref : TakenOver(ref)' <=> TakenOver(ref)
  BY <1>6, <1>7 DEF TakenOver
<1>9. \A ref : TypeMeant(ref)' = TypeMeant(ref)
  BY <1>7 DEF TypeMeant
<1>10. \A ref : ObjectMeant(ref)' = ObjectMeant(ref)
  BY <1>6, <1>7, <1>9 DEF ObjectMeant
<1>11. \A idx : Linkable(idx)' <=> Linkable(idx)
  BY <1>2, <1>6, <1>7, <1>8 DEF Linkable
<1>12. \A idx, raw : /\ ParentIs(idx, raw)' <=> ParentIs(idx, raw)
                     /\ LinkedParent(idx, raw)' <=> LinkedParent(idx, raw)
  BY <1>8, <1>9 DEF ParentIs, LinkedParent
<1>13. \A idx, raw : KnownTypes(idx, raw)' <=> KnownTypes(idx, raw)
  BY DEF KnownTypes
<1>14. \A idx, raw, slots : LinkedSlots(idx, raw, slots)' <=> LinkedSlots(idx, raw, slots)
  BY <1>8, <1>9, <1>10 DEF LinkedSlots
<1> QED BY <1>1, <1>2, <1>5, <1>11, <1>12, <1>13, <1>14

\* What is linked stays so while the index grows.
LEMMA LinksStay ==
  ASSUME NEW idx, Linkable(idx), NEW new, Grows(idx, new)
  PROVE  /\ \A raw \in Loaded : LinkedParent(idx, raw) => LinkedParent(new, raw)
         /\ \A raw : KnownTypes(idx, raw) => KnownTypes(new, raw)
         /\ \A raw, slots : LinkedSlots(idx, raw, slots) => LinkedSlots(new, raw, slots)
<1>1. /\ \A id : IsType(idx, id) => IsType(new, id)
      /\ \A ref : HasType(idx, ref) => HasType(new, ref)
  BY TypesStay
<1>2. \A id \in DOMAIN idx.records : id \in DOMAIN new.records /\ new.records[id] = idx.records[id]
  BY DEF Grows
<1>3. \A raw \in Loaded : raw.id \in DOMAIN idx.records
  BY DEF Linkable
<1>4. \A raw \in Loaded : LinkedParent(idx, raw) => LinkedParent(new, raw)
  BY <1>1, <1>2, <1>3 DEF LinkedParent, ParentIs
<1>5. \A raw : KnownTypes(idx, raw) => KnownTypes(new, raw)
  BY <1>1 DEF KnownTypes
<1>6. \A raw, slots : LinkedSlots(idx, raw, slots) => LinkedSlots(new, raw, slots)
  BY <1>1, <1>2 DEF LinkedSlots
<1> QED BY <1>4, <1>5, <1>6

\* What reading leaves can be linked.
LEMMA ReadIsLinkable ==
  ASSUME LinesOK, ReadIndex(index)
  PROVE  Linkable(index)
<1>1. NoType \notin DOMAIN index.records
  BY FileRefs DEF ReadIndex, LoadedIds
<1>2. DOMAIN lines = 1..Len(lines)
  BY LenProperties DEF LinesOK
<1>3. \A raw \in Loaded : /\ raw.id \in DOMAIN index.records
                          /\ index.records[raw.id].type = (raw.kind = "type")
                          /\ DOMAIN index.records[raw.id] = {"type", "package", "parent"}
  <2> SUFFICES ASSUME NEW raw \in Loaded
               PROVE  /\ raw.id \in DOMAIN index.records
                      /\ index.records[raw.id].type = (raw.kind = "type")
                      /\ DOMAIN index.records[raw.id] = {"type", "package", "parent"}
    OBVIOUS
  <2>1. index.records[raw.id] = Rec(raw.kind = "type", PackageId(raw.id.package), NoType)
    BY DEF ReadIndex
  <2>2. raw.id \in DOMAIN index.records
    BY DEF ReadIndex, LoadedIds
  <2>3. \A t, p, q : Rec(t, p, q).type = t
    BY Zenon DEF Rec
  <2>4. \A t, p, q : DOMAIN Rec(t, p, q) = {"type", "package", "parent"}
    BY DEF Rec
  <2> DEFINE is == raw.kind = "type"
             pkg == PackageId(raw.id.package)
             rec == index.records[raw.id]
  <2>5. rec = Rec(is, pkg, NoType)
    BY <2>1
  <2>6. Rec(is, pkg, NoType).type = is /\ DOMAIN Rec(is, pkg, NoType) = {"type", "package", "parent"}
    <3> HIDE DEF is, pkg
    <3> QED BY <2>3, <2>4
  <2>7. rec.type = is /\ DOMAIN rec = {"type", "package", "parent"}
    <3> HIDE DEF is, pkg, rec
    <3> QED BY <2>5, <2>6, Zenon
  <2> QED BY <2>2, <2>7
<1>4. \A raw \in Loaded : {raw.id.name} \cup raw.aliases \subseteq DOMAIN index.by_name
  <2> SUFFICES ASSUME NEW raw \in Loaded, NEW n \in {raw.id.name} \cup raw.aliases
               PROVE  n \in DOMAIN index.by_name
    OBVIOUS
  <2>1. OwnName(n) \cup Aliased(n) # {}
    BY DEF Loaded, OwnName, Aliased
  <2> QED BY <2>1 DEF ReadIndex
<1>5. ASSUME NEW n \in DOMAIN index.by_name
      PROVE  index.by_name[n] \in DOMAIN index.records /\ index.by_name[n] = Named(n).id
  <2>1. PICK i \in 1..Len(lines) : IsNamed(n, i)
    BY NamedIs DEF ReadIndex
  <2>2. index.by_name[n] = lines[i].id /\ Named(n) = lines[i]
    BY <2>1, NamedIs DEF ReadIndex
  <2> QED BY <1>2, <2>2 DEF ReadIndex, LoadedIds, Loaded
<1>6. ASSUME NEW ref \in Refs
      PROVE  /\ InFile(ref) => Find(index, ref) = RecordOf(ref).id
             /\ ~InFile(ref) => Find(index, ref) = NoType
  <2>1. CASE ref.package = Bare
    <3>1. ref.name \in DOMAIN index.by_name <=> InFile(ref)
      <4>1. InFile(ref) <=> OwnName(ref.name) \cup Aliased(ref.name) # {}
        BY <2>1 DEF InFile, Loaded, OwnName, Aliased
      <4> QED BY <4>1 DEF ReadIndex
    <3> QED BY <1>5, <2>1, <3>1 DEF Find, RecordOf
  <2>2. CASE ref.package # Bare
    <3>1. ref \in DOMAIN index.records <=> InFile(ref)
      BY <2>2 DEF InFile, ReadIndex, LoadedIds
    <3>2. InFile(ref) => RecordOf(ref).id = ref
      BY <2>2, RecordInFile
    <3> QED BY <2>2, <3>1, <3>2 DEF Find
  <2> QED BY <2>1, <2>2
<1>7. index = [records |-> index.records, by_name |-> index.by_name, opaque |-> index.opaque]
      /\ DOMAIN index.opaque = {} /\ DOMAIN index.records = LoadedIds
  BY DEF ReadIndex, IsIndex
<1> QED BY <1>1, <1>3, <1>4, <1>5, <1>6, <1>7 DEF Linkable

LEMMA CorpusStarts ==
  ASSUME CorpusInit
  PROVE  CorpusInv
<1>1. lines = <<>> /\ phase = "read" /\ pending = 0 /\ links = <<>> /\ Len(lines) = 0
      /\ lines \in Seq(RawRecords) /\ DOMAIN lines = {} /\ DOMAIN links = {}
  BY EmptySeq DEF CorpusInit
<1>2. index.records = <<>> /\ index.by_name = <<>> /\ index.opaque = <<>> /\ IsIndex(index)
  BY DEF CorpusInit, IsIndex
<1>3. Loaded = {} /\ LoadedIds = {}
  BY <1>1 DEF Loaded, LoadedIds
<1>4. \A n : OwnName(n) = {} /\ Aliased(n) = {}
  BY <1>1 DEF OwnName, Aliased
<1>5. LinesOK
  BY <1>1 DEF LinesOK
<1>6. ReadIndex(index)
  BY <1>1, <1>2, <1>3, <1>4 DEF ReadIndex
<1> QED BY <1>1, <1>3, <1>5, <1>6 DEF CorpusInv, LinkingPhases

LEMMA ReadRecordStep ==
  ASSUME CorpusInv, NEW raw \in RawRecords, ReadRecord(raw)
  PROVE  CorpusInv'
<1> DEFINE N == Len(lines)
           rec == Rec(raw.kind = "type", PackageId(raw.id.package), NoType)
           rs == Put(index.records, raw.id, rec)
           ns == PutNew(Put(index.by_name, raw.id.name, raw.id), raw.aliases, raw.id)
<1>1. /\ LinesOK /\ ReadIndex(index) /\ DOMAIN links = {} /\ pending \in Nat /\ phase = "read"
      /\ phase' = "read" /\ pending' = pending /\ links' = links
      /\ lines' = Append(lines, raw)
      /\ \A other \in Loaded : other.id # raw.id
      /\ index' = Insert(index, raw.id, rec, raw.aliases)
  BY DEF CorpusInv, ReadRecord
<1>2. /\ N \in Nat /\ DOMAIN lines = 1..N /\ lines \in Seq(RawRecords)
      /\ lines' \in Seq(RawRecords) /\ Len(lines') = N + 1 /\ DOMAIN lines' = 1..(N + 1)
      /\ lines'[N + 1] = raw /\ \A i \in 1..N : lines'[i] = lines[i]
  BY <1>1, AppendProperties, LenProperties DEF LinesOK
<1> HIDE DEF N
<1>3. Loaded' = Loaded \cup {raw} /\ raw.id \notin LoadedIds /\ LoadedIds' = LoadedIds \cup {raw.id}
  <2>1. Loaded' = Loaded \cup {raw}
    BY <1>2 DEF Loaded
  <2> QED BY <1>1, <2>1 DEF LoadedIds
<1>4. \A n : /\ OwnName(n)' = IF raw.id.name = n THEN OwnName(n) \cup {N + 1} ELSE OwnName(n)
             /\ Aliased(n)' = IF n \in raw.aliases THEN Aliased(n) \cup {N + 1} ELSE Aliased(n)
             /\ OwnName(n) \subseteq 1..N /\ Aliased(n) \subseteq 1..N
  BY <1>2 DEF OwnName, Aliased
<1>5. LinesOK'
  <2>1. \A i \in 1..N : lines[i].id # raw.id
    BY <1>1, <1>2 DEF Loaded
  <2>2. \A i, j \in 1..(N + 1) : lines'[i].id = lines'[j].id => i = j
    <3> SUFFICES ASSUME NEW i \in 1..(N + 1), NEW j \in 1..(N + 1), lines'[i].id = lines'[j].id
                 PROVE  i = j
      OBVIOUS
    <3>1. CASE i \in 1..N /\ j \in 1..N
      BY <1>1, <1>2, <3>1 DEF LinesOK, N
    <3>2. CASE i = N + 1 /\ j \in 1..N
      BY <1>2, <2>1, <3>2
    <3>3. CASE i \in 1..N /\ j = N + 1
      BY <1>2, <2>1, <3>3
    <3> QED BY <1>2, <3>1, <3>2, <3>3
  <2> QED BY <1>2, <2>2 DEF LinesOK
<1>6. IsIndex(index) /\ index.by_name = index.by_name
  BY <1>1 DEF ReadIndex
<1>7. index' = [records |-> rs, by_name |-> ns, opaque |-> index.opaque]
  <2>1. index' = [index EXCEPT !.records = rs, !.by_name = ns]
    BY <1>1, <1>6 DEF Insert, IsIndex
  <2> HIDE DEF rs, ns
  <2> QED BY <1>6, <2>1, IndexEdits
<1>8. index'.records = rs /\ index'.by_name = ns /\ index'.opaque = index.opaque /\ IsIndex(index)'
  <2> HIDE DEF rs, ns
  <2> QED BY <1>7 DEF IsIndex
<1>9. DOMAIN index'.records = LoadedIds' /\ DOMAIN index'.opaque = {}
  BY <1>1, <1>3, <1>8 DEF Put, ReadIndex
<1>10. ASSUME NEW r \in Loaded'
       PROVE  index'.records[r.id] = Rec(r.kind = "type", PackageId(r.id.package), NoType)
  <2> HIDE DEF rec
  <2>1. \A id \in LoadedIds : rs[id] = index.records[id]
    BY <1>1, <1>3 DEF Put, ReadIndex
  <2>2. rs[raw.id] = rec
    BY DEF Put
  <2> HIDE DEF rs
  <2>3. CASE r = raw
    BY <1>8, <2>2, <2>3 DEF rec
  <2>4. CASE r # raw
    <3>1. r \in Loaded /\ r.id \in LoadedIds
      BY <1>3, <2>4 DEF LoadedIds
    <3>2. index.records[r.id] = Rec(r.kind = "type", PackageId(r.id.package), NoType)
      BY <1>1, <3>1 DEF ReadIndex
    <3> QED BY <1>8, <2>1, <3>1, <3>2
  <2> QED BY <2>3, <2>4
<1>11. /\ DOMAIN ns = DOMAIN index.by_name \cup {raw.id.name} \cup raw.aliases
       /\ ns[raw.id.name] = raw.id
       /\ \A n \in DOMAIN index.by_name : n # raw.id.name => ns[n] = index.by_name[n]
       /\ \A n \in raw.aliases : n \notin DOMAIN index.by_name => ns[n] = raw.id
  BY DEF Put, PutNew
<1> HIDE DEF ns, rs, rec
<1>12. \A n : n \in DOMAIN index'.by_name <=> OwnName(n)' \cup Aliased(n)' # {}
  <2> TAKE n
  <2>1. n \in DOMAIN index.by_name <=> OwnName(n) \cup Aliased(n) # {}
    BY <1>1 DEF ReadIndex
  <2>2. n \in DOMAIN index'.by_name <=>
          n \in DOMAIN index.by_name \/ n = raw.id.name \/ n \in raw.aliases
    BY <1>8, <1>11
  <2> QED BY <1>4, <2>1, <2>2
<1>13. ASSUME NEW n, NEW i \in 1..(N + 1), n \in DOMAIN index'.by_name, IsNamed(n, i)'
       PROVE  index'.by_name[n] = lines'[i].id
  <2> DEFINE H == OwnName(n)
             A == Aliased(n)
             HH == OwnName(n)'
             AA == Aliased(n)'
  <2>1. \/ i \in HH /\ \A j \in HH : j <= i
        \/ HH = {} /\ i \in AA /\ \A j \in AA : i <= j
    BY <1>13 DEF IsNamed
  <2>2. /\ H \subseteq 1..N /\ A \subseteq 1..N
        /\ raw.id.name = n => HH = H \cup {N + 1}
        /\ raw.id.name # n => HH = H
        /\ n \in raw.aliases => AA = A \cup {N + 1}
        /\ n \notin raw.aliases => AA = A
    BY <1>4
  <2>3. n \in DOMAIN index.by_name <=> H \cup A # {}
    BY <1>1 DEF ReadIndex
  <2>4. \A k \in 1..N : n \in DOMAIN index.by_name /\ IsNamed(n, k) => index.by_name[n] = lines[k].id
    BY <1>1 DEF ReadIndex, N
  <2>5. \A k : (\/ k \in H /\ \A j \in H : j <= k
                \/ H = {} /\ k \in A /\ \A j \in A : k <= j) => IsNamed(n, k)
    BY DEF IsNamed
  <2> HIDE DEF H, A, HH, AA
  <2>6. CASE raw.id.name = n
    <3>1. i = N + 1
      BY <1>2, <2>1, <2>2, <2>6
    <3> QED BY <1>2, <1>8, <1>11, <2>6, <3>1
  <2>7. CASE raw.id.name # n /\ n \notin DOMAIN index.by_name
    <3>1. n \in raw.aliases /\ H = {} /\ A = {}
      BY <1>8, <1>11, <1>13, <2>3, <2>7
    <3>2. i = N + 1
      BY <2>1, <2>2, <2>7, <3>1
    <3> QED BY <1>2, <1>8, <1>11, <2>7, <3>1, <3>2
  <2>8. CASE raw.id.name # n /\ n \in DOMAIN index.by_name
    <3>1. CASE H # {}
      <4>1. i \in H /\ \A j \in H : j <= i
        BY <2>1, <2>2, <2>8, <3>1
      <4> QED BY <1>2, <1>8, <1>11, <2>2, <2>4, <2>5, <2>8, <4>1
    <3>2. CASE H = {}
      <4>1. i \in AA /\ (\A j \in AA : i <= j) /\ A \subseteq AA
        BY <2>1, <2>2, <2>8, <3>2
      <4>2. PICK j \in A : j \in 1..N /\ i <= j
        BY <2>2, <2>3, <2>8, <3>2, <4>1
      <4>3. i \in A
        BY <1>2, <2>2, <4>1, <4>2
      <4> QED BY <1>2, <1>8, <1>11, <2>2, <2>4, <2>5, <2>8, <3>2, <4>1, <4>3
    <3> QED BY <3>1, <3>2
  <2> QED BY <2>6, <2>7, <2>8
<1>14. ReadIndex(index)'
  BY <1>2, <1>8, <1>9, <1>10, <1>12, <1>13 DEF ReadIndex
<1> QED BY <1>1, <1>5, <1>14 DEF CorpusInv, LinkingPhases

LEMMA PhaseAfter ==
  LET after(p) == Phases[1 + CHOOSE i \in DOMAIN Phases : Phases[i] = p]
  IN  /\ after("read") = "parents" /\ after("parents") = "codomains"
      /\ after("codomains") = "callables" /\ after("callables") = "packages"
<1>1. DOMAIN Phases = 1..6
  BY DEF Phases
<1>2. (CHOOSE i \in DOMAIN Phases : Phases[i] = "read") = 1
  BY <1>1 DEF Phases
<1>3. (CHOOSE i \in DOMAIN Phases : Phases[i] = "parents") = 2
  BY <1>1 DEF Phases
<1>4. (CHOOSE i \in DOMAIN Phases : Phases[i] = "codomains") = 3
  BY <1>1 DEF Phases
<1>5. (CHOOSE i \in DOMAIN Phases : Phases[i] = "callables") = 4
  BY <1>1 DEF Phases
<1>6. Phases[1 + 1] = "parents" /\ Phases[1 + 2] = "codomains"
      /\ Phases[1 + 3] = "callables" /\ Phases[1 + 4] = "packages"
  BY DEF Phases
<1> QED BY <1>2, <1>3, <1>4, <1>5, <1>6

\* The parts of the invariant that a step which leaves the lines as they are has to keep.
LEMMA LinkingStep ==
  ASSUME CorpusInv, lines' = lines, pending' \in Nat, phase' \in LinkingPhases,
         Linkable(index'), DOMAIN links' \subseteq LoadedIds,
         \A i \in Parented' : lines[i].kind = "type" => LinkedParent(index', lines[i]),
         \A i \in Announcing' : KnownTypes(index', lines[i]),
         \A raw \in Loaded : raw.id \in DOMAIN links' => LinkedSlots(index', raw, links'[raw.id])
  PROVE  CorpusInv'
<1>1. /\ LinesOK' /\ Loaded' = Loaded /\ LoadedIds' = LoadedIds
  BY SameLines DEF CorpusInv
<1>2. Linkable(index)'
  BY SameLines
<1>3. \A i \in Parented' : lines'[i].kind = "type" => LinkedParent(index, lines[i])'
  BY SameLines
<1>4. \A i \in Announcing' : KnownTypes(index, lines[i])'
  BY SameLines
<1>5. \A raw \in Loaded' : raw.id \in DOMAIN links' => LinkedSlots(index, raw, links[raw.id])'
  BY <1>1, SameLines
<1>6. phase' # "read" /\ phase' # "ready"
  BY DEF LinkingPhases
<1> QED BY <1>1, <1>2, <1>3, <1>4, <1>5, <1>6 DEF CorpusInv

LEMMA NextPhaseStep ==
  ASSUME CorpusInv, NextPhase
  PROVE  CorpusInv'
<1>1. /\ LinesOK /\ pending \in Nat /\ DOMAIN links \subseteq LoadedIds
      /\ lines' = lines /\ index' = index /\ links' = links /\ pending' = 0
      /\ phase \in {"read", "parents", "codomains", "callables"}
      /\ phase = "read" \/ pending = Len(lines)
  BY DEF CorpusInv, NextPhase, LinkingPhases
<1>2. /\ phase = "read" => phase' = "parents"
      /\ phase = "parents" => phase' = "codomains"
      /\ phase = "codomains" => phase' = "callables"
      /\ phase = "callables" => phase' = "packages"
  BY PhaseAfter DEF NextPhase
<1>3. Len(lines) \in Nat
  BY LenProperties DEF CorpusInv, LinesOK
<1>4. CASE phase = "read"
  <2>1. Linkable(index) /\ DOMAIN links = {}
    BY <1>4, ReadIsLinkable DEF CorpusInv
  <2>2. Parented' = {} /\ Announcing' = {}
    BY <1>1, <1>2, <1>3, <1>4 DEF Parented, Announcing
  <2> QED BY <1>1, <1>2, <1>4, <2>1, <2>2, LinkingStep DEF LinkingPhases
<1>5. CASE phase # "read"
  <2>1. /\ Linkable(index)
        /\ \A i \in Parented : lines[i].kind = "type" => LinkedParent(index, lines[i])
        /\ \A i \in Announcing : KnownTypes(index, lines[i])
        /\ \A raw \in Loaded : raw.id \in DOMAIN links => LinkedSlots(index, raw, links[raw.id])
    BY <1>1, <1>5 DEF CorpusInv, LinkingPhases
  <2>2. Parented' \subseteq Parented /\ Announcing' \subseteq Announcing
    BY <1>1, <1>2, <1>3, <1>5 DEF Parented, Announcing
  <2>3. phase' \in LinkingPhases
    BY <1>1, <1>2 DEF LinkingPhases
  <2> QED BY <1>1, <2>1, <2>2, <2>3, LinkingStep
<1> QED BY <1>4, <1>5

\* The line a phase links next, and its references.
LEMMA LineIs ==
  ASSUME CorpusInv, NEW p \in LinkingPhases, Linking(p)
  PROVE  /\ pending + 1 \in 1..Len(lines) /\ Line = lines[pending + 1] /\ Line \in Loaded
         /\ Line.id \in LoadedIds
         /\ Line.kind = "type" => Line.parent \in TypeRefs
         /\ Len(Line.codomains) \in Nat /\ DOMAIN Line.codomains = 1..Len(Line.codomains)
         /\ Len(Line.domains) \in Nat /\ DOMAIN Line.domains = 1..Len(Line.domains)
         /\ \A k \in 1..Len(Line.codomains) :
              ConcreteType(Line.codomains[k]) => Line.codomains[k] \in TypeRefs
         /\ \A k \in 1..Len(Line.domains) : Line.domains[k] \in Refs
<1>1. LinesOK /\ pending \in Nat /\ pending < Len(lines)
  BY DEF CorpusInv, Linking
<1>2. pending + 1 \in 1..Len(lines) /\ DOMAIN lines = 1..Len(lines)
  BY <1>1, LenProperties DEF LinesOK
<1>3. Line = lines[pending + 1] /\ Line \in Loaded /\ Line \in RawRecords
  BY <1>1, <1>2, FileRefs DEF Line, Loaded
<1> HIDE DEF Line
<1>4. Line.codomains \in Seq(References) /\ Line.domains \in Seq(References)
  BY <1>3, CorpusAssumption
<1>5. /\ Len(Line.codomains) \in Nat /\ DOMAIN Line.codomains = 1..Len(Line.codomains)
      /\ Len(Line.domains) \in Nat /\ DOMAIN Line.domains = 1..Len(Line.domains)
  BY <1>4, LenProperties
<1>6. \A k \in 1..Len(Line.codomains) :
        ConcreteType(Line.codomains[k]) => Line.codomains[k] \in TypeRefs
  BY <1>3, <1>5 DEF TypeRefs, Range
<1>7. \A k \in 1..Len(Line.domains) : Line.domains[k] \in Refs
  BY <1>3, <1>5 DEF Refs, Range
<1>8. Line.kind = "type" => Line.parent \in TypeRefs
  BY <1>3 DEF TypeRefs, Parents
<1> QED BY <1>2, <1>3, <1>5, <1>6, <1>7, <1>8 DEF LoadedIds

\* What a step that has linked one more line has to show.
LEMMA OneMoreLine ==
  ASSUME CorpusInv, NEW p \in LinkingPhases, Linking(p), phase' = phase, lines' = lines,
         Linkable(index'), DOMAIN links' \subseteq LoadedIds,
         p = "parents" =>
           \A raw \in Loaded : \/ raw.kind = "type" /\ LinkedParent(index, raw) /\ raw # Line
                               \/ raw.kind = "type" /\ raw = Line
                => LinkedParent(index', raw),
         p # "parents" => Grows(index, index'),
         p = "codomains" => KnownTypes(index', Line),
         \A raw, slots : LinkedSlots(index, raw, slots) => LinkedSlots(index', raw, slots),
         \A raw \in Loaded : raw.id \in DOMAIN links' =>
            \/ raw.id \in DOMAIN links /\ links'[raw.id] = links[raw.id]
            \/ LinkedSlots(index', raw, links'[raw.id])
  PROVE  CorpusInv'
<1>1. /\ LinesOK /\ pending \in Nat /\ phase = p /\ Linkable(index)
      /\ pending' = pending + 1 /\ pending' \in Nat
      /\ \A i \in Parented : lines[i].kind = "type" => LinkedParent(index, lines[i])
      /\ \A i \in Announcing : KnownTypes(index, lines[i])
      /\ \A raw \in Loaded : raw.id \in DOMAIN links => LinkedSlots(index, raw, links[raw.id])
  BY DEF CorpusInv, Linking
<1>2. pending + 1 \in 1..Len(lines) /\ Line = lines[pending + 1] /\ Len(lines) \in Nat
      /\ DOMAIN lines = 1..Len(lines)
  BY LineIs, LenProperties DEF CorpusInv, LinesOK
<1> HIDE DEF Line
<1>3. /\ p = "parents" => Parented' \subseteq Parented \cup {pending + 1} /\ Announcing' = {}
                          /\ pending + 1 \notin Parented
      /\ p = "codomains" => Parented' \subseteq Parented
                            /\ Announcing' \subseteq Announcing \cup {pending + 1}
      /\ p \in {"callables", "packages"} =>
           Parented' \subseteq Parented /\ Announcing' \subseteq Announcing
  BY <1>1, <1>2 DEF Parented, Announcing
<1>4. \A i \in Parented' \cup Announcing' : lines[i] \in Loaded
  BY <1>1, <1>2 DEF Parented, Announcing, Loaded
<1>5. \A i \in Parented' : lines[i].kind = "type" => LinkedParent(index', lines[i])
  <2> SUFFICES ASSUME NEW i \in Parented', lines[i].kind = "type"
               PROVE  LinkedParent(index', lines[i])
    OBVIOUS
  <2>1. CASE p = "parents"
    <3>1. CASE i = pending + 1
      BY <1>2, <1>4, <2>1, <3>1
    <3>2. CASE i # pending + 1
      <4>1. i \in Parented /\ i \in 1..Len(lines)
        BY <1>3, <2>1, <3>2 DEF Parented
      <4>2. lines[i] # Line
        BY <1>1, <1>2, <3>2, <4>1 DEF LinesOK
      <4> QED BY <1>1, <1>4, <2>1, <4>1, <4>2
    <3> QED BY <3>1, <3>2
  <2>2. CASE p # "parents"
    <3>1. i \in Parented
      BY <1>3, <2>2 DEF LinkingPhases
    <3>2. \A raw \in Loaded : LinkedParent(index, raw) => LinkedParent(index', raw)
      BY <1>1, <2>2, LinksStay
    <3> QED BY <1>1, <1>4, <3>1, <3>2
  <2> QED BY <2>1, <2>2
<1>6. \A i \in Announcing' : KnownTypes(index', lines[i])
  <2> SUFFICES ASSUME NEW i \in Announcing' PROVE KnownTypes(index', lines[i])
    OBVIOUS
  <2>1. p # "parents"
    BY <1>3
  <2>2. \A raw : KnownTypes(index, raw) => KnownTypes(index', raw)
    BY <1>1, <2>1, LinksStay
  <2>3. CASE i \in Announcing
    BY <1>1, <2>2, <2>3
  <2>4. CASE i \notin Announcing
    <3>1. p = "codomains" /\ i = pending + 1
      BY <1>3, <2>1, <2>4 DEF LinkingPhases
    <3> QED BY <1>2, <3>1
  <2> QED BY <2>3, <2>4
<1>7. \A raw \in Loaded : raw.id \in DOMAIN links' => LinkedSlots(index', raw, links'[raw.id])
  BY <1>1
<1>8. phase' \in LinkingPhases
  BY <1>1
<1> QED BY <1>1, <1>5, <1>6, <1>7, <1>8, LinkingStep

LEMMA AnnounceTypesStep ==
  ASSUME CorpusInv, AnnounceTypes
  PROVE  CorpusInv'
<1>1. /\ "codomains" \in LinkingPhases /\ Linking("codomains") /\ phase = "codomains"
      /\ index' = WithTypes(index, Line.codomains)
      /\ phase' = phase /\ lines' = lines /\ links' = links
      /\ LinesOK /\ Linkable(index) /\ DOMAIN links \subseteq LoadedIds
  BY DEF CorpusInv, AnnounceTypes, LinkingPhases, Linking
<1>2. /\ Len(Line.codomains) \in Nat
      /\ \A k \in 1..Len(Line.codomains) :
           ConcreteType(Line.codomains[k]) => Line.codomains[k] \in TypeRefs
  BY <1>1, LineIs
<1> HIDE DEF Line
<1>3. /\ Linkable(index') /\ Grows(index, index')
      /\ \A k \in 1..Len(Line.codomains) :
           ConcreteType(Line.codomains[k]) => HasType(index', Line.codomains[k])
  BY <1>1, <1>2, WithTypesLinks
<1>4. KnownTypes(index', Line)
  BY <1>3 DEF KnownTypes
<1>5. \A raw, slots : LinkedSlots(index, raw, slots) => LinkedSlots(index', raw, slots)
  BY <1>1, <1>3, LinksStay
<1> QED BY <1>1, <1>3, <1>4, <1>5, OneMoreLine

\* The index after a record has been given its parent.
WithParent(idx, id, parent) == [idx EXCEPT !.records[id].parent = parent]

LEMMA WithParentIs ==
  ASSUME NEW idx, IsIndex(idx), NEW id \in DOMAIN idx.records, NEW v,
         DOMAIN idx.records[id] = {"type", "package", "parent"}
  PROVE  LET new == WithParent(idx, id, v)
         IN  /\ IsIndex(new) /\ new.by_name = idx.by_name /\ new.opaque = idx.opaque
             /\ DOMAIN new.records = DOMAIN idx.records
             /\ \A k \in DOMAIN idx.records : k # id => new.records[k] = idx.records[k]
             /\ new.records[id].parent = v
             /\ new.records[id].type = idx.records[id].type
             /\ DOMAIN new.records[id] = {"type", "package", "parent"}
<1> DEFINE rec == [idx.records[id] EXCEPT !.parent = v]
           rs == [idx.records EXCEPT ![id] = rec]
<1>1. /\ rec.parent = v /\ DOMAIN rec = {"type", "package", "parent"}
      /\ rec.type = idx.records[id].type
  <2>1. \A r : DOMAIN r = {"type", "package", "parent"} =>
          /\ [r EXCEPT !.parent = v].parent = v
          /\ DOMAIN [r EXCEPT !.parent = v] = {"type", "package", "parent"}
    OBVIOUS
  <2>2. \A r : DOMAIN r = {"type", "package", "parent"} => [r EXCEPT !.parent = v].type = r.type
    BY Zenon
  <2> QED BY <2>1, <2>2
<1>2. WithParent(idx, id, v) = [records |-> rs, by_name |-> idx.by_name, opaque |-> idx.opaque]
  <2>1. WithParent(idx, id, v) = [idx EXCEPT !.records = rs]
    BY DEF WithParent
  <2> HIDE DEF rs
  <2> QED BY <2>1, IndexEdits
<1> HIDE DEF rec
<1>3. /\ DOMAIN rs = DOMAIN idx.records /\ rs[id] = rec
      /\ \A k \in DOMAIN idx.records : k # id => rs[k] = idx.records[k]
  OBVIOUS
<1> HIDE DEF rs
<1>4. IsIndex(WithParent(idx, id, v))
  BY <1>2 DEF IsIndex
<1> QED BY <1>1, <1>2, <1>3, <1>4

\* A parent changes nothing of what a reference finds.
LEMMA WithParentLinks ==
  ASSUME LinesOK, NEW idx, Linkable(idx), NEW id \in LoadedIds, NEW v
  PROVE  LET new == WithParent(idx, id, v)
         IN  /\ Linkable(new)
             /\ DOMAIN new.records = DOMAIN idx.records
             /\ \A k \in DOMAIN idx.records : k # id => new.records[k] = idx.records[k]
             /\ new.records[id].parent = v
             /\ \A k : IsType(new, k) <=> IsType(idx, k)
             /\ \A ref : HasType(new, ref) <=> HasType(idx, ref)
<1> DEFINE new == WithParent(idx, id, v)
<1>1. /\ IsIndex(idx) /\ id \in DOMAIN idx.records
      /\ DOMAIN idx.records[id] = {"type", "package", "parent"}
  BY DEF Linkable, IsIndex, LoadedIds
<1>2. /\ IsIndex(new) /\ new.by_name = idx.by_name /\ new.opaque = idx.opaque
      /\ DOMAIN new.records = DOMAIN idx.records
      /\ \A k \in DOMAIN idx.records : k # id => new.records[k] = idx.records[k]
      /\ new.records[id].parent = v
      /\ new.records[id].type = idx.records[id].type
      /\ DOMAIN new.records[id] = {"type", "package", "parent"}
  BY <1>1, WithParentIs
<1> HIDE DEF new
<1>3. \A ref : Find(new, ref) = Find(idx, ref)
  BY <1>2 DEF Find
<1>4. \A k : IsType(new, k) <=> IsType(idx, k)
  <2> TAKE k
  <2>1. CASE k = id
    BY <1>1, <1>2, <2>1, Zenon DEF IsType
  <2>2. CASE k # id
    BY <1>2, <2>2 DEF IsType
  <2> QED BY <2>1, <2>2
<1>5. \A ref : HasType(new, ref) <=> HasType(idx, ref)
  BY <1>2, <1>3, <1>4 DEF HasType
<1>6. Linkable(new)
  <2>1. new = [records |-> new.records, by_name |-> new.by_name, opaque |-> new.opaque]
        /\ NoType \notin DOMAIN new.records
    BY <1>2 DEF IsIndex, Linkable
  <2>2. \A raw \in Loaded : /\ raw.id \in DOMAIN new.records
                            /\ new.records[raw.id].type = (raw.kind = "type")
                            /\ DOMAIN new.records[raw.id] = {"type", "package", "parent"}
                            /\ {raw.id.name} \cup raw.aliases \subseteq DOMAIN new.by_name
    <3> SUFFICES ASSUME NEW raw \in Loaded
                 PROVE  /\ raw.id \in DOMAIN new.records
                        /\ new.records[raw.id].type = (raw.kind = "type")
                        /\ DOMAIN new.records[raw.id] = {"type", "package", "parent"}
                        /\ {raw.id.name} \cup raw.aliases \subseteq DOMAIN new.by_name
      OBVIOUS
    <3>1. /\ raw.id \in DOMAIN idx.records
          /\ idx.records[raw.id].type = (raw.kind = "type")
          /\ DOMAIN idx.records[raw.id] = {"type", "package", "parent"}
          /\ {raw.id.name} \cup raw.aliases \subseteq DOMAIN idx.by_name
      BY DEF Linkable
    <3>2. raw.id \in DOMAIN new.records /\ {raw.id.name} \cup raw.aliases \subseteq DOMAIN new.by_name
      BY <1>2, <3>1
    <3>3. new.records[raw.id].type = idx.records[raw.id].type
      BY <1>2, <3>1, Zenon
    <3>4. DOMAIN new.records[raw.id] = {"type", "package", "parent"}
      BY <1>2, <3>1
    <3>5. new.records[raw.id].type = (raw.kind = "type")
      BY <3>1, <3>3, Zenon
    <3> QED BY <3>2, <3>4, <3>5, Zenon
  <2>3. \A k \in DOMAIN new.records : k \notin LoadedIds => new.records[k] = Placeholder(k)
    BY <1>2 DEF Linkable
  <2>4. \A n \in DOMAIN new.by_name : new.by_name[n] \in DOMAIN new.records
    BY <1>2 DEF Linkable
  <2>5. \A ref \in DOMAIN new.opaque :
          /\ ref \in TypeRefs /\ new.opaque[ref] = Opaque(ref)
          /\ Opaque(ref) \in DOMAIN new.records
          /\ ~TakenOver(ref) => InFile(ref) /\ RecordOf(ref).kind # "type"
    BY <1>2 DEF Linkable
  <2>6. \A ref \in Refs : ~TakenOver(ref) =>
          /\ InFile(ref) => Find(new, ref) = RecordOf(ref).id
          /\ ~InFile(ref) => Find(new, ref) \in {NoType, Missing(ref)}
    BY <1>3 DEF Linkable
  <2> QED BY <2>1, <2>2, <2>3, <2>4, <2>5, <2>6 DEF Linkable
<1> QED BY <1>2, <1>4, <1>5, <1>6 DEF new

LEMMA LinkParentStep ==
  ASSUME CorpusInv, LinkParent
  PROVE  CorpusInv'
<1>1. /\ "parents" \in LinkingPhases /\ Linking("parents") /\ phase = "parents"
      /\ phase' = phase /\ lines' = lines /\ links' = links
      /\ LinesOK /\ Linkable(index) /\ DOMAIN links \subseteq LoadedIds
  BY DEF CorpusInv, LinkParent, LinkingPhases, Linking
<1>2. Line \in Loaded /\ Line.id \in LoadedIds /\ (Line.kind = "type" => Line.parent \in TypeRefs)
  BY <1>1, LineIs
<1>3. \A raw \in Loaded : raw # Line => raw.id # Line.id
  BY <1>1, <1>2, LenProperties DEF LinesOK, Loaded
<1>4. CASE Line.kind # "type"
  <2>1. index' = index
    BY <1>4 DEF LinkParent
  <2> HIDE DEF Line
  <2> QED BY <1>1, <1>4, <2>1, OneMoreLine
<1>5. CASE Line.kind = "type"
  <2> DEFINE idx == WithType(index, Line.parent)
             v == TypeAt(idx, Line.parent)
  <2>1. index' = WithParent(idx, Line.id, v)
    BY <1>5 DEF LinkParent, WithParent
  <2> HIDE DEF Line
  <2>2. Linkable(idx) /\ Grows(index, idx) /\ HasType(idx, Line.parent) /\ Line.parent \in Refs
    BY <1>1, <1>2, <1>5, WithTypeLinks, FileRefs
  <2>3. IsType(idx, v) /\ (~TakenOver(Line.parent) => v = TypeMeant(Line.parent))
    BY <1>1, <2>2, TypeAtIs
  <2> HIDE DEF idx, v
  <2>4. /\ Linkable(index')
        /\ DOMAIN index'.records = DOMAIN idx.records
        /\ \A k \in DOMAIN idx.records : k # Line.id => index'.records[k] = idx.records[k]
        /\ index'.records[Line.id].parent = v
        /\ \A k : IsType(index', k) <=> IsType(idx, k)
        /\ \A ref : HasType(index', ref) <=> HasType(idx, ref)
    BY <1>1, <1>2, <2>1, <2>2, WithParentLinks
  <2>5. /\ \A raw \in Loaded : LinkedParent(index, raw) => LinkedParent(idx, raw)
        /\ \A raw, slots : LinkedSlots(index, raw, slots) => LinkedSlots(idx, raw, slots)
    BY <1>1, <2>2, LinksStay
  <2>6. LinkedParent(index', Line)
    BY <2>2, <2>3, <2>4 DEF LinkedParent, ParentIs
  <2>7. ASSUME NEW raw \in Loaded, raw # Line, LinkedParent(index, raw)
        PROVE  LinkedParent(index', raw)
    <3>1. LinkedParent(idx, raw) /\ raw.id # Line.id /\ raw.id \in DOMAIN idx.records
      BY <1>3, <2>2, <2>5, <2>7 DEF Linkable
    <3>2. index'.records[raw.id] = idx.records[raw.id]
      BY <2>4, <3>1
    <3> QED BY <2>4, <3>1, <3>2 DEF LinkedParent, ParentIs
  <2>8. \A raw, slots : LinkedSlots(index, raw, slots) => LinkedSlots(index', raw, slots)
    BY <2>4, <2>5 DEF LinkedSlots
  <2> QED BY <1>1, <2>4, <2>6, <2>7, <2>8, OneMoreLine
<1> QED BY <1>4, <1>5

LEMMA LinkCallableStep ==
  ASSUME CorpusInv, LinkCallable
  PROVE  CorpusInv'
<1> DEFINE known == WithTypes(index, Line.codomains)
           idx == WithObjects(known, Line.domains)
           given(ref) == IF ConcreteType(ref) THEN TypeAt(idx, ref) ELSE NoType
           slots == [codomains |-> [i \in DOMAIN Line.codomains |-> given(Line.codomains[i])],
                     domains |-> [i \in DOMAIN Line.domains |-> TypeAt(idx, Line.domains[i])]]
<1>1. /\ "callables" \in LinkingPhases /\ Linking("callables") /\ phase = "callables"
      /\ phase' = phase /\ lines' = lines
      /\ LinesOK /\ Linkable(index) /\ DOMAIN links \subseteq LoadedIds
  BY DEF CorpusInv, LinkCallable, LinkingPhases, Linking
<1>2. /\ Line \in Loaded /\ Line.id \in LoadedIds
      /\ Len(Line.codomains) \in Nat /\ DOMAIN Line.codomains = 1..Len(Line.codomains)
      /\ Len(Line.domains) \in Nat /\ DOMAIN Line.domains = 1..Len(Line.domains)
      /\ \A k \in 1..Len(Line.codomains) :
           ConcreteType(Line.codomains[k]) => Line.codomains[k] \in TypeRefs
      /\ \A k \in 1..Len(Line.domains) : Line.domains[k] \in Refs
  BY <1>1, LineIs
<1>3. /\ Line.kind # "callable" => index' = index /\ links' = links
      /\ Line.kind = "callable" => index' = idx /\ links' = Put(links, Line.id, slots)
  BY DEF LinkCallable
<1>4. \A raw \in Loaded : raw # Line => raw.id # Line.id
  BY <1>1, <1>2, LenProperties DEF LinesOK, Loaded
<1> HIDE DEF Line
<1>5. CASE Line.kind # "callable"
  BY <1>1, <1>3, <1>5, GrowsSame, OneMoreLine
<1>6. CASE Line.kind = "callable"
  <2>1. /\ Linkable(known) /\ Grows(index, known)
        /\ \A k \in 1..Len(Line.codomains) :
             ConcreteType(Line.codomains[k]) => HasType(known, Line.codomains[k])
    BY <1>1, <1>2, WithTypesLinks
  <2> HIDE DEF known
  <2>2. /\ Linkable(idx) /\ Grows(known, idx)
        /\ \A k \in 1..Len(Line.domains) : HasObject(idx, Line.domains[k])
    BY <1>1, <1>2, <2>1, WithObjectsLinks
  <2> HIDE DEF idx
  <2>3. Grows(index, idx)
    BY <2>1, <2>2, GrowsOn
  <2>4. \A ref \in TypeRefs : HasType(idx, ref)
    <3>1. /\ \A ref : HasType(index, ref) => HasType(idx, ref)
      BY <1>1, <2>3, TypesStay
    <3>2. ASSUME NEW raw \in Loaded
          PROVE  (raw.kind = "type" => HasType(index, raw.parent)) /\ KnownTypes(index, raw)
      <4>1. PICK i \in 1..Len(lines) : raw = lines[i]
        BY <1>1, LenProperties DEF Loaded, LinesOK
      <4>2. i \in Parented /\ i \in Announcing
        BY <1>1 DEF Parented, Announcing
      <4>3. raw.kind = "type" => LinkedParent(index, raw)
        BY <1>1, <4>1, <4>2 DEF CorpusInv, LinkingPhases
      <4>4. KnownTypes(index, raw)
        BY <1>1, <4>1, <4>2 DEF CorpusInv, LinkingPhases
      <4> QED BY <4>3, <4>4 DEF LinkedParent
    <3>3. ASSUME NEW ref \in TypeRefs PROVE HasType(index, ref)
      <4>1. CASE ref \in Parents
        BY <3>2, <4>1 DEF Parents
      <4>2. CASE ref \notin Parents
        <5>1. PICK raw \in Loaded : ref \in Range(raw.codomains) /\ ConcreteType(ref)
          BY <4>2 DEF TypeRefs
        <5>2. raw.codomains \in Seq(References)
          BY <1>1, FileRefs, CorpusAssumption
        <5>3. PICK k \in 1..Len(raw.codomains) : ref = raw.codomains[k]
          BY <5>1, <5>2, LenProperties DEF Range
        <5> QED BY <3>2, <5>1, <5>3 DEF KnownTypes
      <4> QED BY <4>1, <4>2
    <3> QED BY <3>1, <3>3
  <2>5. /\ slots.codomains = [i \in DOMAIN Line.codomains |-> given(Line.codomains[i])]
        /\ slots.domains = [i \in DOMAIN Line.domains |-> TypeAt(idx, Line.domains[i])]
    OBVIOUS
  <2> HIDE DEF slots
  <2>6. ASSUME NEW k \in DOMAIN Line.codomains
        PROVE  /\ slots.codomains[k] = NoType <=> ~ConcreteType(Line.codomains[k])
               /\ ConcreteType(Line.codomains[k]) => IsType(idx, slots.codomains[k])
               /\ ConcreteType(Line.codomains[k]) /\ ~TakenOver(Line.codomains[k]) =>
                    slots.codomains[k] = TypeMeant(Line.codomains[k])
    <3>1. slots.codomains[k] = given(Line.codomains[k])
      BY <2>5
    <3>2. CASE ConcreteType(Line.codomains[k])
      <4>1. Line.codomains[k] \in TypeRefs /\ Line.codomains[k] \in Refs
        BY <1>1, <1>2, <3>2, FileRefs
      <4>2. slots.codomains[k] = TypeAt(idx, Line.codomains[k])
        BY <3>1, <3>2
      <4> HIDE DEF given
      <4> QED BY <1>1, <2>2, <2>4, <3>2, <4>1, <4>2, TypeAtIs
    <3>3. CASE ~ConcreteType(Line.codomains[k])
      BY <3>1, <3>3
    <3> QED BY <3>2, <3>3
  <2> HIDE DEF given
  <2>7. ASSUME NEW k \in DOMAIN Line.domains
        PROVE  /\ slots.domains[k] \in DOMAIN idx.records
               /\ ~TakenOver(Line.domains[k]) => slots.domains[k] = ObjectMeant(Line.domains[k])
    <3>1. slots.domains[k] = TypeAt(idx, Line.domains[k])
      BY <2>5
    <3>2. Line.domains[k] \in Refs /\ HasObject(idx, Line.domains[k])
      BY <1>2, <2>2
    <3> QED BY <1>1, <2>2, <2>4, <3>1, <3>2, ObjectAtIs
  <2>8. LinkedSlots(idx, Line, slots)
    BY <2>5, <2>6, <2>7 DEF LinkedSlots
  <2>9. \A raw, s : LinkedSlots(index, raw, s) => LinkedSlots(idx, raw, s)
    BY <1>1, <2>3, LinksStay
  <2>10. /\ index' = idx /\ DOMAIN links' \subseteq LoadedIds
         /\ links'[Line.id] = slots
         /\ \A id \in DOMAIN links' : id # Line.id => id \in DOMAIN links /\ links'[id] = links[id]
    BY <1>1, <1>2, <1>3, <1>6 DEF Put
  <2>11. \A raw \in Loaded : raw.id \in DOMAIN links' =>
            \/ raw.id \in DOMAIN links /\ links'[raw.id] = links[raw.id]
            \/ LinkedSlots(index', raw, links'[raw.id])
    BY <1>4, <2>8, <2>10
  <2> QED BY <1>1, <2>2, <2>3, <2>9, <2>10, <2>11, OneMoreLine
<1> QED BY <1>5, <1>6

\* The index with a record for every package that has none.
WithPackages(idx, new) ==
  [idx EXCEPT
     !.records = [id \in DOMAIN idx.records \cup new |->
                    IF id \in new THEN Rec(FALSE, id, NoType) ELSE idx.records[id]],
     !.by_name = [n \in DOMAIN idx.by_name \cup {id.name : id \in new} |->
                    IF n \in {id.name : id \in new} THEN PackageId(n) ELSE idx.by_name[n]]]

LEMMA WithPackagesIs ==
  ASSUME NEW idx, IsIndex(idx), NEW new, new \cap DOMAIN idx.records = {}
  PROVE  LET after == WithPackages(idx, new)
         IN  /\ DOMAIN after.records = DOMAIN idx.records \cup new
             /\ \A id \in DOMAIN idx.records : after.records[id] = idx.records[id]
             /\ \A id \in new : after.records[id] = Rec(FALSE, id, NoType)
<1> DEFINE rs == [id \in DOMAIN idx.records \cup new |->
                    IF id \in new THEN Rec(FALSE, id, NoType) ELSE idx.records[id]]
           ns == [n \in DOMAIN idx.by_name \cup {id.name : id \in new} |->
                    IF n \in {id.name : id \in new} THEN PackageId(n) ELSE idx.by_name[n]]
<1>1. WithPackages(idx, new) = [idx EXCEPT !.records = rs, !.by_name = ns]
  BY DEF WithPackages
<1>2. /\ DOMAIN rs = DOMAIN idx.records \cup new
      /\ \A id \in DOMAIN idx.records : rs[id] = idx.records[id]
      /\ \A id \in new : rs[id] = Rec(FALSE, id, NoType)
  OBVIOUS
<1> HIDE DEF rs, ns
<1>3. WithPackages(idx, new).records = rs
  BY <1>1, IndexEdits
<1> QED BY <1>2, <1>3

LEMMA AddPackagesStep ==
  ASSUME CorpusInv, AddPackages
  PROVE  CorpusInv'
<1> DEFINE new == ReferencedPackages \ DOMAIN index.records
<1>1. /\ LinesOK /\ Linkable(index) /\ DOMAIN links \subseteq LoadedIds /\ pending \in Nat
      /\ phase = "packages" /\ phase' = "ready"
      /\ lines' = lines /\ pending' = pending /\ links' = links
      /\ \A raw \in Loaded : raw.id \in DOMAIN links => LinkedSlots(index, raw, links[raw.id])
  BY DEF CorpusInv, AddPackages, LinkingPhases
<1>2. ASSUME NEW raw \in Loaded, raw.kind = "type" PROVE ParentIs(index, raw)
  <2>1. PICK i \in 1..Len(lines) : raw = lines[i]
    BY <1>1, LenProperties DEF Loaded, LinesOK
  <2>2. i \in Parented
    BY <1>1 DEF Parented
  <2> QED BY <1>1, <1>2, <2>1, <2>2 DEF CorpusInv, LinkingPhases, LinkedParent
<1>3. index' = WithPackages(index, new)
  BY DEF AddPackages, WithPackages
<1>4. \A id \in DOMAIN index.records : index.records[id].package \in DOMAIN index.records \cup new
  BY DEF ReferencedPackages
<1>5. new \cap DOMAIN index.records = {}
  OBVIOUS
<1> HIDE DEF new
<1>6. /\ DOMAIN index'.records = DOMAIN index.records \cup new
      /\ \A id \in DOMAIN index.records : index'.records[id] = index.records[id]
      /\ \A id \in new : index'.records[id] = Rec(FALSE, id, NoType)
  <2>1. IsIndex(index)
    BY <1>1 DEF Linkable, IsIndex
  <2> HIDE DEF WithPackages
  <2>2. LET after == WithPackages(index, new)
        IN  /\ DOMAIN after.records = DOMAIN index.records \cup new
            /\ \A id \in DOMAIN index.records : after.records[id] = index.records[id]
            /\ \A id \in new : after.records[id] = Rec(FALSE, id, NoType)
    BY <1>5, <2>1, WithPackagesIs
  <2> QED BY <1>3, <2>2
<1>7. \A id : IsType(index, id) => IsType(index', id)
  BY <1>6, Zenon DEF IsType
<1>8. ASSUME NEW raw \in Loaded PROVE raw.kind = "type" => ParentIs(index', raw)
  <2>1. index'.records[raw.id] = index.records[raw.id]
    BY <1>1, <1>6 DEF Linkable
  <2> QED BY <1>2, <1>7, <2>1 DEF ParentIs
<1>9. ASSUME NEW raw, NEW slots, LinkedSlots(index, raw, slots)
      PROVE  LinkedSlots(index', raw, slots)
  BY <1>6, <1>7, <1>9 DEF LinkedSlots
<1>10. \A id \in DOMAIN index'.records : index'.records[id].package \in DOMAIN index'.records
  <2> SUFFICES ASSUME NEW id \in DOMAIN index'.records
               PROVE  index'.records[id].package \in DOMAIN index'.records
    OBVIOUS
  <2>1. CASE id \in DOMAIN index.records
    BY <1>4, <1>6, <2>1
  <2>2. CASE id \in new
    <3>1. \A i : Rec(FALSE, i, NoType).package = i
      BY DEF Rec
    <3>2. index'.records[id] = Rec(FALSE, id, NoType)
      BY <1>6, <2>2
    <3> QED BY <3>1, <3>2
  <2> QED BY <1>6, <2>1, <2>2
<1>11. \A id \in DOMAIN index'.records :
         index'.records[id].type => IsType(index', index'.records[id].parent)
  <2> SUFFICES ASSUME NEW id \in DOMAIN index'.records, index'.records[id].type
               PROVE  IsType(index', index'.records[id].parent)
    OBVIOUS
  <2>1. CASE id \in new
    <3>1. \A i : Rec(FALSE, i, NoType).type = FALSE
      BY DEF Rec
    <3> QED BY <1>6, <2>1, <3>1, Zenon
  <2>2. CASE id \in DOMAIN index.records
    <3>1. IsType(index, id) /\ index'.records[id] = index.records[id]
      BY <1>6, <2>2, Zenon DEF IsType
    <3>2. CASE id \in LoadedIds
      <4>1. PICK raw \in Loaded : raw.id = id
        BY <3>2 DEF LoadedIds
      <4>2. raw.kind = "type"
        BY <1>1, <2>2, <3>1, <4>1, RecordIs
      <4> QED BY <1>2, <1>7, <3>1, <4>1, <4>2 DEF ParentIs
    <3>3. CASE id \notin LoadedIds
      <4>1. index.records[id] = Placeholder(id)
        BY <1>1, <2>2, <3>3, RecordIs
      <4>2. \A i : Placeholder(i).parent = i
        BY DEF Placeholder, Rec
      <4> QED BY <1>7, <3>1, <4>1, <4>2
    <3> QED BY <3>2, <3>3
  <2> QED BY <1>6, <2>1, <2>2
<1>12. ASSUME NEW f \in DOMAIN links
       PROVE  /\ \A i \in DOMAIN links[f].codomains :
                   links[f].codomains[i] = NoType \/ IsType(index', links[f].codomains[i])
              /\ \A i \in DOMAIN links[f].domains : links[f].domains[i] \in DOMAIN index'.records
  <2>1. PICK raw \in Loaded : raw.id = f
    BY <1>1 DEF LoadedIds
  <2>2. LinkedSlots(index', raw, links[f])
    BY <1>1, <1>9, <2>1
  <2> QED BY <2>2 DEF LinkedSlots
<1>13. RegistryIsClosed'
  BY <1>1, <1>10, <1>11, <1>12 DEF RegistryIsClosed, IsType
<1>14. /\ LinesOK' /\ Loaded' = Loaded /\ LoadedIds' = LoadedIds
       /\ \A raw \in Loaded : raw.kind = "type" => ParentIs(index, raw)'
       /\ \A raw \in Loaded : raw.id \in DOMAIN links' => LinkedSlots(index, raw, links[raw.id])'
  BY <1>1, <1>8, <1>9, SameLines
<1> QED BY <1>1, <1>13, <1>14 DEF CorpusInv, LinkingPhases

LEMMA CorpusIdles ==
  ASSUME CorpusInv, UNCHANGED corpusVars
  PROVE  CorpusInv'
<1>1. /\ phase' = phase /\ lines' = lines /\ pending' = pending
      /\ index' = index /\ links' = links
  BY DEF corpusVars
<1>2. /\ LinesOK' /\ Loaded' = Loaded /\ LoadedIds' = LoadedIds
      /\ Parented' = Parented /\ Announcing' = Announcing
  BY <1>1, SameLines DEF CorpusInv, Parented, Announcing
<1>3. CASE phase = "read"
  <2>1. ReadIndex(index)'
    BY <1>1, <1>3, SameLines DEF CorpusInv
  <2> QED BY <1>1, <1>2, <1>3, <2>1 DEF CorpusInv, LinkingPhases
<1>4. CASE phase \in LinkingPhases
  BY <1>1, <1>2, <1>4, LinkingStep DEF CorpusInv
<1>5. CASE phase = "ready"
  <2>1. \A raw \in Loaded :
          /\ raw.kind = "type" => ParentIs(index, raw)'
          /\ raw.id \in DOMAIN links => LinkedSlots(index, raw, links[raw.id])'
    BY <1>1, <1>5, SameLines DEF CorpusInv
  <2>2. RegistryIsClosed'
    BY <1>1, <1>5 DEF CorpusInv, RegistryIsClosed, IsType
  <2> QED BY <1>1, <1>2, <1>5, <2>1, <2>2 DEF CorpusInv, LinkingPhases
<1> QED BY <1>3, <1>4, <1>5 DEF CorpusInv

LEMMA CorpusInvLinked ==
  ASSUME CorpusInv
  PROVE  CorpusIsLinked
<1>1. RegistryIsClosed
  BY DEF CorpusInv, RegistryIsClosed
<1>2. \A raw \in Loaded :
        /\ raw.id \in DOMAIN links => LinkedSlots(index, raw, links[raw.id])
        /\ phase = "ready" /\ raw.kind = "type" => ParentIs(index, raw)
  BY DEF CorpusInv
<1>3. LinksAreTheirReferences
  BY <1>2 DEF LinksAreTheirReferences, LinkedSlots, ParentIs
<1> QED BY <1>1, <1>3 DEF CorpusIsLinked

\* Whatever the corpus and in whatever order its file has it, loading never links a
\* callable, or gives a type a parent, other than by what the references mean by the
\* file alone, and the registry it ends with lacks nothing it refers to.
THEOREM CorpusAlwaysLinked == CorpusSpec => []CorpusIsLinked
<1>1. CorpusInit => CorpusInv
  BY CorpusStarts
<1>2. CorpusInv /\ [CorpusNext]_corpusVars => CorpusInv'
  BY ReadRecordStep, NextPhaseStep, LinkParentStep, AnnounceTypesStep, LinkCallableStep,
     AddPackagesStep, CorpusIdles DEF CorpusNext
<1>3. CorpusInv => CorpusIsLinked
  BY CorpusInvLinked
<1> QED BY <1>1, <1>2, <1>3, PTL DEF CorpusSpec

-----------------------------------------------------------------------------
(* Completion.  Lists of candidates, whatever their order. *)

StrictOrder(S, order) ==
  /\ \A x \in S : <<x, x>> \notin order
  /\ \A x, y, z \in S : <<x, y>> \in order /\ <<y, z>> \in order => <<x, z>> \in order
  /\ \A x, y \in S : x = y \/ <<x, y>> \in order \/ <<y, x>> \in order

\* All elements of a set, each once.
IsEnumeration(nth, S) ==
  /\ nth \in [1..Cardinality(S) -> S]
  /\ \A j, k \in 1..Cardinality(S) : nth[j] = nth[k] => j = k
  /\ \A x \in S : \E k \in 1..Cardinality(S) : nth[k] = x

LEMMA EnumeratedIs ==
  ASSUME NEW S, IsFiniteSet(S), NEW order, StrictOrder(S, order)
  PROVE  IsEnumeration(Enumerated(S, order), S)
<1> DEFINE n == Cardinality(S)
           below(x) == {y \in S : <<y, x>> \in order}
           rank == [x \in S |-> Cardinality(below(x))]
<1>1. n \in Nat
  BY FS_CardinalityType
<1>2. \A x \in S : IsFiniteSet(below(x)) /\ rank[x] \in Nat
  <2> SUFFICES ASSUME NEW x \in S PROVE IsFiniteSet(below(x)) /\ rank[x] \in Nat
    OBVIOUS
  <2>1. below(x) \subseteq S
    OBVIOUS
  <2>2. IsFiniteSet(below(x))
    BY <2>1, FS_Subset
  <2>3. Cardinality(below(x)) \in Nat
    BY <2>2, FS_CardinalityType
  <2> QED BY <2>2, <2>3
<1>3. ASSUME NEW x \in S, NEW y \in S, <<x, y>> \in order
      PROVE  rank[x] < rank[y]
  <2>1. below(x) \subseteq below(y) \ {x} /\ x \in below(y)
    BY <1>3 DEF StrictOrder
  <2>2. IsFiniteSet(below(y) \ {x}) /\ Cardinality(below(y) \ {x}) = Cardinality(below(y)) - 1
    BY <1>2, <2>1, FS_RemoveElement
  <2>3. Cardinality(below(x)) <= Cardinality(below(y) \ {x})
    BY <2>1, <2>2, FS_Subset
  <2>4. Cardinality(below(x)) = rank[x] /\ Cardinality(below(y)) = rank[y]
    OBVIOUS
  <2> QED BY <1>2, <2>2, <2>3, <2>4
<1>4. \A x \in S : rank[x] \in 0..(n - 1)
  <2> SUFFICES ASSUME NEW x \in S PROVE rank[x] \in 0..(n - 1)
    OBVIOUS
  <2>1. below(x) \subseteq S \ {x}
    BY DEF StrictOrder
  <2>2. IsFiniteSet(S \ {x}) /\ Cardinality(S \ {x}) = n - 1
    BY FS_RemoveElement
  <2>3. Cardinality(below(x)) <= n - 1
    <3> HIDE DEF below
    <3>1. Cardinality(below(x)) <= Cardinality(S \ {x})
      BY <2>1, <2>2, FS_Subset
    <3> QED BY <2>2, <3>1
  <2> QED BY <1>1, <1>2, <2>3
<1> HIDE DEF below
<1>5. ASSUME NEW x \in S, NEW y \in S, rank[x] = rank[y] PROVE x = y
  <2>1. ~ (rank[x] < rank[y]) /\ ~ (rank[y] < rank[x])
    <3> HIDE DEF rank
    <3> QED BY <1>2, <1>5
  <2>2. x = y \/ <<x, y>> \in order \/ <<y, x>> \in order
    BY Zenon DEF StrictOrder
  <2> HIDE DEF rank
  <2> QED BY <1>3, <2>1, <2>2
<1>6. rank \in [S -> 0..(n - 1)]
  BY <1>4
<1>7. \A k \in 1..n : \E x \in S : rank[x] = k - 1
  <2>1. rank \in Injection(S, 0..(n - 1))
    <3> HIDE DEF rank
    <3> QED BY <1>5, <1>6, Fun_IsInj
  <2>2. IsFiniteSet(0..(n - 1)) /\ Cardinality(0..(n - 1)) = n
    BY <1>1, FS_Interval
  <2>3. rank \in Surjection(S, 0..(n - 1))
    <3> HIDE DEF rank
    <3> QED BY <2>1, <2>2, FS_Injection
  <2>4. \A k \in 0..(n - 1) : \E x \in S : rank[x] = k
    <3> HIDE DEF rank
    <3> QED BY <2>3 DEF Surjection
  <2> HIDE DEF rank
  <2> QED BY <1>1, <2>4
<1> DEFINE nth(k) == CHOOSE x \in S : rank[x] = k - 1
<1>8. \A k \in 1..n : nth(k) \in S /\ rank[nth(k)] = k - 1
  <2> HIDE DEF rank
  <2> QED BY <1>7
<1>9. Enumerated(S, order) = [k \in 1..n |-> nth(k)]
  BY DEF Enumerated, below
<1> HIDE DEF nth, rank
<1>10. \A x \in S : \E k \in 1..n : nth(k) = x
  <2> SUFFICES ASSUME NEW x \in S PROVE \E k \in 1..n : nth(k) = x
    OBVIOUS
  <2>1. rank[x] + 1 \in 1..n /\ (rank[x] + 1) - 1 = rank[x]
    BY <1>1, <1>2, <1>4
  <2>2. nth(rank[x] + 1) = x
    BY <1>5, <1>8, <2>1
  <2> QED BY <2>1, <2>2
<1>11. \A j, k \in 1..n : nth(j) = nth(k) => j = k
  BY <1>1, <1>8
<1> HIDE DEF n
<1> QED BY <1>8, <1>9, <1>10, <1>11 DEF IsEnumeration, n

\* Some places of a sequence, in their order.
LEMMA AtIs ==
  ASSUME NEW T, NEW s \in Seq(T), NEW places, places \subseteq 1..Len(s)
  PROVE  /\ At(s, places) \in Seq(T) /\ Len(At(s, places)) = Cardinality(places)
         /\ Range(At(s, places)) = {s[i] : i \in places}
         /\ (\A i, j \in places : s[i] = s[j] => i = j) => IsInjective(At(s, places))
<1> DEFINE order == {p \in places \X places : p[1] < p[2]}
           nth == Enumerated(places, order)
           m == Cardinality(places)
<1>1. IsFiniteSet(places) /\ m \in Nat
  <2>1. IsFiniteSet(1..Len(s))
    BY LenProperties, FS_Interval
  <2>2. IsFiniteSet(places)
    BY <2>1, FS_Subset
  <2> QED BY <2>2, FS_CardinalityType
<1>2. StrictOrder(places, order)
  <2>1. \A i, j \in places : <<i, j>> \in order <=> i < j
    OBVIOUS
  <2>2. \A i \in places : i \in Int
    OBVIOUS
  <2> HIDE DEF order
  <2> QED BY <2>1, <2>2 DEF StrictOrder
<1>3. IsEnumeration(nth, places)
  <2> HIDE DEF order
  <2> QED BY <1>1, <1>2, EnumeratedIs
<1>4. At(s, places) = [k \in DOMAIN nth |-> s[nth[k]]]
  BY DEF At
<1> HIDE DEF order, nth
<1>5. DOMAIN nth = 1..m /\ \A k \in 1..m : nth[k] \in places /\ nth[k] \in 1..Len(s)
  BY <1>3 DEF IsEnumeration
<1>6. \A k \in 1..m : s[nth[k]] \in T
  BY <1>5, ElementOfSeq
<1>7. At(s, places) \in [1..m -> T] /\ At(s, places) = [k \in 1..m |-> s[nth[k]]]
  BY <1>4, <1>5, <1>6
<1>8. At(s, places) \in Seq(T) /\ Len(At(s, places)) = m
  <2>1. At(s, places) \in Seq(T)
    BY <1>1, <1>7, SeqDef
  <2> QED BY <1>1, <1>7, <2>1, LenProperties
<1>9. DOMAIN At(s, places) = 1..m /\ \A k \in 1..m : At(s, places)[k] = s[nth[k]]
  BY <1>7
<1>10. Range(At(s, places)) = {s[i] : i \in places}
  <2>1. Range(At(s, places)) = {s[nth[k]] : k \in 1..m}
    BY <1>9 DEF Range
  <2> QED BY <1>3, <1>5, <2>1 DEF IsEnumeration
<1>11. ASSUME \A i, j \in places : s[i] = s[j] => i = j
       PROVE  IsInjective(At(s, places))
  BY <1>3, <1>5, <1>9, <1>11 DEF IsInjective, IsEnumeration
<1> QED BY <1>8, <1>10, <1>11

LEMMA TakenIs ==
  ASSUME NEW T, NEW s \in Seq(T), NEW n \in Nat
  PROVE  /\ Taken(s, n) \in Seq(T) /\ Len(Taken(s, n)) = (IF n < Len(s) THEN n ELSE Len(s))
         /\ \A i \in 1..Len(Taken(s, n)) : i \in 1..Len(s) /\ Taken(s, n)[i] = s[i]
<1> DEFINE m == IF n < Len(s) THEN n ELSE Len(s)
<1>1. m \in Nat /\ m <= Len(s) /\ Len(s) \in Nat
  BY LenProperties
<1>2. Taken(s, n) = SubSeq(s, 1, m)
  BY DEF Taken
<1> HIDE DEF m
<1>3. \A i \in 1..m : s[i] \in T
  BY <1>1, ElementOfSeq
<1>4. /\ SubSeq(s, 1, m) \in Seq(T) /\ Len(SubSeq(s, 1, m)) = IF 1 <= m THEN m - 1 + 1 ELSE 0
      /\ \A i \in 1..(m - 1 + 1) : SubSeq(s, 1, m)[i] = s[1 + i - 1]
  BY <1>1, <1>3, SubSeqProperties
<1>5. Len(SubSeq(s, 1, m)) = m /\ \A i \in 1..m : SubSeq(s, 1, m)[i] = s[i]
  BY <1>1, <1>4
<1> QED BY <1>1, <1>2, <1>4, <1>5 DEF m

\* Where two names first differ.
LEMMA PrecedesIs ==
  ASSUME NEW n \in AllNames, NEW m \in AllNames
  PROVE  Precedes(n, m) <=> \E k \in 1..Len(m) : /\ k - 1 <= Len(n)
                                                 /\ \A i \in 1..(k - 1) : n[i] = m[i]
                                                 /\ k <= Len(n) => n[k] < m[k]
<1>1. DOMAIN m = 1..Len(m) /\ Len(m) \in Nat /\ Len(n) \in Nat
  BY LenProperties DEF AllNames
<1>2. ASSUME NEW k \in 1..Len(m), k - 1 <= Len(n)
      PROVE  SubSeq(n, 1, k - 1) = SubSeq(m, 1, k - 1) <=> \A i \in 1..(k - 1) : n[i] = m[i]
  <2>1. k - 1 \in Nat /\ k - 1 <= Len(m)
    BY <1>1
  <2>2. \A i \in 1..(k - 1) : n[i] \in Letters /\ m[i] \in Letters
    BY <1>1, <1>2, ElementOfSeq DEF AllNames
  <2> DEFINE h == k - 1
  <2> HIDE DEF h
  <2>3. h \in Nat /\ h = k - 1
    BY <2>1 DEF h
  <2>4. \A s \in {n, m} : /\ SubSeq(s, 1, h) \in Seq(Letters) /\ Len(SubSeq(s, 1, h)) = h
                          /\ \A i \in 1..h : SubSeq(s, 1, h)[i] = s[i]
    <3> SUFFICES ASSUME NEW s \in {n, m}
                 PROVE  /\ SubSeq(s, 1, h) \in Seq(Letters) /\ Len(SubSeq(s, 1, h)) = h
                        /\ \A i \in 1..h : SubSeq(s, 1, h)[i] = s[i]
      OBVIOUS
    <3>1. \A i \in 1..h : s[i] \in Letters
      BY <2>2, <2>3
    <3>2. /\ SubSeq(s, 1, h) \in Seq(Letters) /\ Len(SubSeq(s, 1, h)) = IF 1 <= h THEN h - 1 + 1 ELSE 0
          /\ \A i \in 1..(h - 1 + 1) : SubSeq(s, 1, h)[i] = s[1 + i - 1]
      BY <2>3, <3>1, SubSeqProperties
    <3> QED BY <2>3, <3>2
  <2>5. SubSeq(n, 1, h) = SubSeq(m, 1, h) <=> \A i \in 1..h : n[i] = m[i]
    BY <2>3, <2>4, SeqEqual
  <2> QED BY <2>3, <2>5
<1> QED BY <1>1, <1>2 DEF Precedes

LEMMA PrecedesOrder ==
  /\ \A n \in AllNames : ~Precedes(n, n)
  /\ \A n, m, l \in AllNames : Precedes(n, m) /\ Precedes(m, l) => Precedes(n, l)
  /\ \A n, m \in AllNames : n = m \/ Precedes(n, m) \/ Precedes(m, n)
<1>1. \A n \in AllNames : Len(n) \in Nat /\ \A i \in 1..Len(n) : n[i] \in Int
  <2> SUFFICES ASSUME NEW n \in AllNames PROVE Len(n) \in Nat /\ \A i \in 1..Len(n) : n[i] \in Int
    OBVIOUS
  <2>1. Letters \subseteq Int
    BY CompletionAssumption
  <2>2. \A i \in 1..Len(n) : n[i] \in Letters
    BY ElementOfSeq DEF AllNames
  <2> QED BY <2>1, <2>2, LenProperties DEF AllNames
<1>2. ASSUME NEW n \in AllNames, Precedes(n, n) PROVE FALSE
  <2>1. PICK k \in 1..Len(n) : k <= Len(n) => n[k] < n[k]
    BY <1>2, PrecedesIs
  <2>2. Len(n) \in Nat /\ n[k] \in Int
    BY <1>1
  <2> QED BY <2>1, <2>2
<1>3. ASSUME NEW n \in AllNames, NEW m \in AllNames, NEW l \in AllNames, Precedes(n, m), Precedes(m, l)
      PROVE  Precedes(n, l)
  <2>0. Len(n) \in Nat /\ Len(m) \in Nat /\ Len(l) \in Nat
    BY <1>1
  <2>1. PICK k \in 1..Len(m) : /\ k - 1 <= Len(n) /\ \A i \in 1..(k - 1) : n[i] = m[i]
                               /\ k <= Len(n) => n[k] < m[k]
    BY <1>3, PrecedesIs
  <2>2. PICK j \in 1..Len(l) : /\ j - 1 <= Len(m) /\ \A i \in 1..(j - 1) : m[i] = l[i]
                               /\ j <= Len(m) => m[j] < l[j]
    BY <1>3, PrecedesIs
  <2>3. CASE k <= j
    <3>1. k \in 1..Len(l) /\ \A i \in 1..(k - 1) : n[i] = l[i]
      <4>1. \A i \in 1..(k - 1) : i \in 1..(j - 1)
        BY <2>0, <2>3
      <4> QED BY <2>0, <2>1, <2>2, <2>3, <4>1
    <3>2. k <= Len(n) => n[k] < l[k]
      <4> SUFFICES ASSUME k <= Len(n) PROVE n[k] < l[k]
        OBVIOUS
      <4>1. n[k] \in Int /\ m[k] \in Int /\ l[k] \in Int
        BY <1>1, <2>0, <3>1
      <4>2. n[k] < m[k]
        BY <2>1
      <4>3. m[k] <= l[k]
        <5>1. CASE k = j
          BY <2>0, <2>2, <4>1, <5>1
        <5>2. CASE k < j
          <6>1. k \in 1..(j - 1)
            BY <2>0, <5>2
          <6> QED BY <2>2, <4>1, <6>1
        <5> QED BY <2>0, <2>3, <5>1, <5>2
      <4> QED BY <4>1, <4>2, <4>3
    <3> QED BY <2>1, <3>1, <3>2, PrecedesIs
  <2>4. CASE j < k
    <3>1. j - 1 <= Len(n) /\ j <= Len(n) /\ j <= Len(m)
      BY <2>0, <2>1, <2>4
    <3>2. \A i \in 1..(j - 1) : n[i] = l[i]
      <4>1. \A i \in 1..(j - 1) : i \in 1..(k - 1)
        BY <2>0, <2>4
      <4> QED BY <2>1, <2>2, <4>1
    <3>3. n[j] < l[j]
      <4>1. j \in 1..(k - 1)
        BY <2>0, <2>4
      <4>2. n[j] = m[j] /\ m[j] < l[j]
        BY <2>1, <2>2, <3>1, <4>1
      <4> QED BY <4>2
    <3> QED BY <3>1, <3>2, <3>3, PrecedesIs
  <2> QED BY <2>0, <2>3, <2>4
<1>4. ASSUME NEW n \in AllNames, NEW m \in AllNames, ~Precedes(n, m), ~Precedes(m, n)
      PROVE  n = m
  <2>0. Len(n) \in Nat /\ Len(m) \in Nat
    BY <1>1
  <2> DEFINE apart == {k \in Nat \ {0} : k > Len(n) \/ k > Len(m) \/ n[k] # m[k]}
  <2>1. PICK k \in apart : \A j \in apart : k <= j
    <3>1. apart \subseteq Nat /\ Len(n) + 1 \in apart
      BY <2>0
    <3> HIDE DEF apart
    <3> QED BY <3>1, LeastNumber
  <2>2. k \in Nat \ {0}
    OBVIOUS
  <2>3. \A i \in 1..(k - 1) : i <= Len(n) /\ i <= Len(m) /\ n[i] = m[i]
    <3> SUFFICES ASSUME NEW i \in 1..(k - 1) PROVE i <= Len(n) /\ i <= Len(m) /\ n[i] = m[i]
      OBVIOUS
    <3>1. i \in Nat \ {0} /\ i < k
      BY <2>2
    <3>2. i \notin apart
      BY <2>1, <2>2, <3>1
    <3> QED BY <2>0, <3>1, <3>2
  <2>4. k - 1 <= Len(n) /\ k - 1 <= Len(m)
    <3>1. CASE k = 1
      BY <2>0, <3>1
    <3>2. CASE k # 1
      <4>1. k - 1 \in 1..(k - 1)
        BY <2>2, <3>2
      <4> QED BY <2>3, <4>1
    <3> QED BY <3>1, <3>2
  <2>5. CASE k <= Len(n) /\ k <= Len(m)
    <3>1. n[k] # m[k] /\ n[k] \in Int /\ m[k] \in Int /\ k \in 1..Len(n) /\ k \in 1..Len(m)
      BY <1>1, <2>0, <2>2, <2>5
    <3>2. n[k] < m[k] \/ m[k] < n[k]
      BY <3>1
    <3>3. CASE n[k] < m[k]
      BY <1>4, <2>3, <2>4, <3>1, <3>3, PrecedesIs
    <3>4. CASE m[k] < n[k]
      BY <1>4, <2>3, <2>4, <3>1, <3>4, PrecedesIs
    <3> QED BY <3>2, <3>3, <3>4
  <2>6. CASE k > Len(n) /\ k <= Len(m)
    <3>1. k \in 1..Len(m) /\ ~ (k <= Len(n))
      BY <2>0, <2>2, <2>6
    <3> QED BY <1>4, <2>3, <2>4, <3>1, PrecedesIs
  <2>7. CASE k > Len(m) /\ k <= Len(n)
    <3>1. k \in 1..Len(n) /\ ~ (k <= Len(m))
      BY <2>0, <2>2, <2>7
    <3> QED BY <1>4, <2>3, <2>4, <3>1, PrecedesIs
  <2>8. CASE k > Len(m) /\ k > Len(n)
    <3>1. Len(n) = k - 1 /\ Len(m) = k - 1
      BY <2>0, <2>2, <2>4, <2>8
    <3> QED BY <2>3, <3>1, SeqEqual DEF AllNames
  <2> QED BY <2>0, <2>2, <2>5, <2>6, <2>7, <2>8
<1> QED BY <1>2, <1>3, <1>4

-----------------------------------------------------------------------------
(* Candidates and the names they offer. *)

Candidate == [label : AllNames, priority : Nat]
CompletionList == [whole : BOOLEAN, items : Seq(AllNames)]

Labels(c) == {c[i].label : i \in 1..Len(c)}
EachOnce(c) == \A i, j \in 1..Len(c) : c[i].label = c[j].label => i = j

LEMMA LabelsAre ==
  ASSUME NEW c \in Seq(Candidate)
  PROVE  /\ Labels(c) \subseteq AllNames /\ IsFiniteSet(Labels(c)) /\ Cardinality(Labels(c)) \in Nat
         /\ Len(c) \in Nat /\ \A i \in 1..Len(c) : c[i] \in Candidate
         /\ EachOnce(c) => Cardinality(Labels(c)) = Len(c)
<1>1. Len(c) \in Nat /\ \A i \in 1..Len(c) : c[i] \in Candidate /\ c[i].label \in AllNames
  <2>1. Len(c) \in Nat
    BY LenProperties
  <2>2. \A i \in 1..Len(c) : c[i] \in Candidate
    BY ElementOfSeq
  <2>3. \A d \in Candidate : d.label \in AllNames
    BY DEF Candidate
  <2> QED BY <2>1, <2>2, <2>3
<1>2. IsFiniteSet(1..Len(c)) /\ Cardinality(1..Len(c)) = Len(c)
  <2>1. IsFiniteSet(1..Len(c)) /\ Cardinality(1..Len(c)) = IF 1 > Len(c) THEN 0 ELSE Len(c) - 1 + 1
    BY <1>1, FS_Interval
  <2> QED BY <1>1, <2>1
<1> DEFINE f == [i \in 1..Len(c) |-> c[i].label]
<1>3. f \in Surjection(1..Len(c), Labels(c))
  BY DEF Surjection, Labels
<1>4. IsFiniteSet(Labels(c))
  <2> HIDE DEF f
  <2> QED BY <1>2, <1>3, FS_Surjection
<1>5. ASSUME EachOnce(c) PROVE Cardinality(Labels(c)) = Len(c)
  <2>1. f \in Injection(1..Len(c), Labels(c))
    BY <1>5 DEF Injection, IsInjective, EachOnce, Labels
  <2> HIDE DEF f
  <2> QED BY <1>2, <1>3, <2>1, FS_Surjection
<1> QED BY <1>1, <1>4, <1>5, FS_CardinalityType DEF Labels

\* Sorting, by priority and then by name.
LEMMA SortedIs ==
  ASSUME NEW S, S \subseteq Candidate, \A c, d \in S : c.label = d.label => c = d
  PROVE  StrictOrder(S, {p \in S \X S : SortedBefore(p[1], p[2])})
<1> DEFINE order == {p \in S \X S : SortedBefore(p[1], p[2])}
<1>1. \A c, d \in S : <<c, d>> \in order <=> SortedBefore(c, d)
  OBVIOUS
<1>2. \A c \in S : c.label \in AllNames /\ c.priority \in Nat
  BY DEF Candidate
<1> HIDE DEF order
<1>3. ASSUME NEW c \in S PROVE ~SortedBefore(c, c)
  BY <1>2, PrecedesOrder DEF SortedBefore
<1>4. ASSUME NEW b \in S, NEW c \in S, NEW d \in S, SortedBefore(b, c), SortedBefore(c, d)
      PROVE  SortedBefore(b, d)
  <2>1. \A n, m, l \in AllNames : Precedes(n, m) /\ Precedes(m, l) => Precedes(n, l)
    BY PrecedesOrder
  <2> QED BY <1>2, <1>4, <2>1 DEF SortedBefore
<1>5. ASSUME NEW c \in S, NEW d \in S PROVE c = d \/ SortedBefore(c, d) \/ SortedBefore(d, c)
  <2>1. c.label = d.label \/ Precedes(c.label, d.label) \/ Precedes(d.label, c.label)
    BY <1>2, PrecedesOrder
  <2> QED BY <1>2, <2>1 DEF SortedBefore
<1>6. StrictOrder(S, order)
  BY <1>1, <1>3, <1>4, <1>5 DEF StrictOrder
<1> QED BY <1>6 DEF order

FirstOf(all) == {i \in DOMAIN all : \A j \in 1..(i - 1) : all[j].label # all[i].label}

\* Of candidates with one name the first is found, so that each name is found once.
LEMMA FoundAre ==
  ASSUME NEW all \in Seq(Candidate)
  PROVE  /\ \A i, j \in FirstOf(all) : all[i].label = all[j].label => i = j
         /\ \A n \in Labels(all) : \E i \in FirstOf(all) : all[i].label = n
         /\ FirstOf(all) \subseteq 1..Len(all)
<1>1. DOMAIN all = 1..Len(all) /\ Len(all) \in Nat
  BY LenProperties
<1>2. FirstOf(all) \subseteq 1..Len(all)
  BY <1>1 DEF FirstOf
<1>3. ASSUME NEW i \in FirstOf(all), NEW j \in FirstOf(all), all[i].label = all[j].label
      PROVE  i = j
  <2>1. ~ (i \in 1..(j - 1)) /\ ~ (j \in 1..(i - 1))
    BY <1>3 DEF FirstOf
  <2>2. i \in 1..Len(all) /\ j \in 1..Len(all)
    BY <1>2
  <2> QED BY <1>1, <2>1, <2>2
<1>4. ASSUME NEW n \in Labels(all)
      PROVE  \E i \in FirstOf(all) : all[i].label = n
  <2> DEFINE having == {i \in 1..Len(all) : all[i].label = n}
  <2>1. PICK i \in having : \A j \in having : i <= j
    <3>1. having \subseteq Nat /\ having # {}
      BY <1>1 DEF Labels
    <3> HIDE DEF having
    <3> QED BY <3>1, LeastNumber
  <2>2. i \in DOMAIN all /\ all[i].label = n
    BY <1>1
  <2>3. ASSUME NEW j \in 1..(i - 1) PROVE all[j].label # all[i].label
    <3>1. j \in 1..Len(all) /\ ~ (i <= j)
      BY <1>1, <2>1
    <3> QED BY <2>1, <3>1
  <2> QED BY <2>2, <2>3 DEF FirstOf
<1> QED BY <1>2, <1>3, <1>4

\* What complete makes of any candidates: it is whole exactly where the names are few
\* enough, and then has them all.
Answers(r, names, limit) ==
  /\ r \in CompletionList /\ Range(r.items) \subseteq names
  /\ r.whole => names \subseteq Range(r.items)
  /\ r.whole <=> Cardinality(names) <= limit

LEMMA CompleteIs ==
  ASSUME NEW all \in Seq(Candidate), NEW limit \in Nat, NEW atMost \in BOOLEAN
  PROVE  Answers(Complete(all, limit, atMost), Labels(all), limit)
<1> DEFINE found == {all[i] : i \in FirstOf(all)}
           order == {p \in found \X found : SortedBefore(p[1], p[2])}
           candidates == Enumerated(found, order)
           labels == [k \in DOMAIN candidates |-> candidates[k].label]
           n == Cardinality(Labels(all))
<1>0. /\ Labels(all) \subseteq AllNames /\ IsFiniteSet(Labels(all)) /\ n \in Nat
      /\ Len(all) \in Nat /\ \A i \in 1..Len(all) : all[i] \in Candidate
  BY LabelsAre
<1>1. FirstOf(all) \subseteq 1..Len(all)
  BY FoundAre
<1>2. found \subseteq Candidate
  BY <1>0, <1>1
<1>3. \A c, d \in found : c.label = d.label => c = d
  BY FoundAre
<1>4. {c.label : c \in found} = Labels(all)
  <2>1. \A i \in FirstOf(all) : all[i].label \in Labels(all)
    BY <1>1 DEF Labels
  <2>2. \A m \in Labels(all) : \E i \in FirstOf(all) : all[i].label = m
    BY FoundAre
  <2> QED BY <2>1, <2>2
<1>5. IsFiniteSet(found) /\ Cardinality(found) = n
  <2> DEFINE f == [c \in found |-> c.label]
  <2>1. f \in Surjection(found, Labels(all))
    <3> HIDE DEF found
    <3> QED BY <1>4 DEF Surjection
  <2>2. f \in Injection(found, Labels(all))
    <3> HIDE DEF found
    <3> QED BY <1>3, <1>4 DEF Injection, IsInjective
  <2> HIDE DEF f, found
  <2> QED BY <1>0, <2>1, <2>2, FS_Injection
<1>6. StrictOrder(found, order)
  <2> HIDE DEF found
  <2> QED BY <1>2, <1>3, SortedIs
<1>7. IsEnumeration(candidates, found)
  <2> HIDE DEF found, order
  <2> QED BY <1>5, <1>6, EnumeratedIs
<1>8. Complete(all, limit, atMost) = IF atMost /\ Len(labels) > limit THEN NoList
                                     ELSE [whole |-> Len(labels) <= limit, items |-> Taken(labels, limit)]
  BY DEF Complete, FirstOf
<1> HIDE DEF found, order, candidates
<1>9. DOMAIN candidates = 1..n /\ \A k \in 1..n : candidates[k] \in found
  BY <1>5, <1>7 DEF IsEnumeration
<1>10. \A k \in 1..n : candidates[k].label \in Labels(all) /\ candidates[k].label \in AllNames
  BY <1>0, <1>4, <1>9
<1>11. labels \in Seq(AllNames) /\ Len(labels) = n
  <2>1. labels \in [1..n -> AllNames]
    BY <1>9, <1>10
  <2>2. labels \in Seq(AllNames)
    BY <1>0, <2>1, SeqDef
  <2> QED BY <1>0, <2>1, <2>2, LenProperties
<1>12. \A k \in 1..n : labels[k] \in Labels(all)
  BY <1>9, <1>10
<1>13. \A m \in Labels(all) : \E k \in 1..n : labels[k] = m
  <2> SUFFICES ASSUME NEW m \in Labels(all) PROVE \E k \in 1..n : labels[k] = m
    OBVIOUS
  <2>1. PICK c \in found : c.label = m
    BY <1>4
  <2>2. PICK k \in 1..n : candidates[k] = c
    BY <1>5, <1>7 DEF IsEnumeration
  <2> QED BY <1>9, <2>1, <2>2
<1> HIDE DEF labels
<1> DEFINE taken == Taken(labels, limit)
<1>14. /\ taken \in Seq(AllNames) /\ Len(taken) = (IF limit < n THEN limit ELSE n)
       /\ \A i \in 1..Len(taken) : i \in 1..n /\ taken[i] = labels[i]
  BY <1>11, TakenIs
<1>15. DOMAIN taken = 1..Len(taken)
  BY <1>14, LenProperties
<1> HIDE DEF taken
<1>16. Range(taken) \subseteq Labels(all)
  BY <1>12, <1>14, <1>15 DEF Range
<1>17. n <= limit => Labels(all) \subseteq Range(taken)
  <2> SUFFICES ASSUME n <= limit PROVE Labels(all) \subseteq Range(taken)
    OBVIOUS
  <2>1. Len(taken) = n
    BY <1>0, <1>14
  <2> QED BY <1>13, <1>14, <1>15, <2>1 DEF Range
<1>18. CASE n <= limit
  <2>1. ~ (n > limit)
    BY <1>0, <1>18
  <2>2. Complete(all, limit, atMost) = [whole |-> n <= limit, items |-> taken]
    BY <1>8, <1>11, <2>1 DEF taken
  <2>3. Complete(all, limit, atMost) = [whole |-> TRUE, items |-> taken]
    BY <1>18, <2>2, Zenon
  <2> QED BY <1>14, <1>16, <1>17, <1>18, <2>3 DEF Answers, CompletionList, n
<1>19. CASE ~ (n <= limit)
  <2>1. n > limit
    BY <1>0, <1>19
  <2>2. CASE atMost
    <3>1. Complete(all, limit, atMost) = [whole |-> FALSE, items |-> <<>>]
      BY <1>8, <1>11, <2>1, <2>2 DEF NoList
    <3>2. <<>> \in Seq(AllNames) /\ Range(<<>>) = {}
      BY EmptySeq DEF Range
    <3> QED BY <1>19, <3>1, <3>2 DEF Answers, CompletionList, n
  <2>3. CASE ~atMost
    <3>1. Complete(all, limit, atMost) = [whole |-> n <= limit, items |-> taken]
      <4>1. Complete(all, limit, atMost) = [whole |-> Len(labels) <= limit, items |-> taken]
        BY <1>8, <2>3, Zenon DEF taken
      <4> QED BY <1>11, <4>1
    <3>2. Complete(all, limit, atMost) = [whole |-> FALSE, items |-> taken]
      <4> DEFINE fits == n <= limit
      <4>1. fits = FALSE
        BY <1>0, <1>19
      <4>2. Complete(all, limit, atMost) = [whole |-> fits, items |-> taken]
        BY <3>1
      <4> HIDE DEF fits
      <4> QED BY <4>1, <4>2
    <3> DEFINE r == Complete(all, limit, atMost)
    <3>3. r \in CompletionList /\ r.whole = FALSE /\ r.items = taken
      BY <1>14, <3>2 DEF CompletionList
    <3> HIDE DEF r
    <3>4. Answers(r, Labels(all), limit)
      BY <1>16, <1>19, <3>3, Zenon DEF Answers, n
    <3> QED BY <3>4 DEF r
  <2> QED BY <2>2, <2>3
<1> QED BY <1>18, <1>19

-----------------------------------------------------------------------------
(* Sources of candidates.  One more than the limit is fetched, so that either all *)
(* names are or it can be seen that there are too many.                           *)

Fetched(c, names, limit) ==
  /\ c \in Seq(Candidate) /\ IsFiniteSet(names) /\ Labels(c) \subseteq names
  /\ Labels(c) = names \/ Cardinality(Labels(c)) > limit

LEMMA FetchedAnswers ==
  ASSUME NEW c, NEW names, NEW limit \in Nat, Fetched(c, names, limit), NEW atMost \in BOOLEAN
  PROVE  Answers(Complete(c, limit, atMost), names, limit)
<1> DEFINE r == Complete(c, limit, atMost)
<1>1. Answers(r, Labels(c), limit)
  BY CompleteIs DEF Fetched
<1> SUFFICES Answers(r, names, limit)
  OBVIOUS
<1> HIDE DEF r
<1>2. CASE Labels(c) = names
  BY <1>1, <1>2
<1>3. CASE Cardinality(Labels(c)) > limit
  <2>1. Cardinality(Labels(c)) <= Cardinality(names) /\ Cardinality(names) \in Nat
        /\ Cardinality(Labels(c)) \in Nat
    <3>1. IsFiniteSet(names) /\ Labels(c) \subseteq names /\ c \in Seq(Candidate)
      BY DEF Fetched
    <3>2. Cardinality(Labels(c)) <= Cardinality(names)
      BY <3>1, FS_Subset
    <3>3. Cardinality(names) \in Nat
      BY <3>1, FS_CardinalityType
    <3> QED BY <3>1, <3>2, <3>3, LabelsAre
  <2>2. ~ (Cardinality(Labels(c)) <= limit) /\ ~ (Cardinality(names) <= limit)
    BY <1>3, <2>1
  <2>3. Labels(c) \subseteq names
    BY DEF Fetched
  <2> QED BY <1>1, <2>2, <2>3, Zenon DEF Answers
<1> QED BY <1>2, <1>3, Zenon DEF Fetched

LEMMA JoinedIs ==
  ASSUME NEW c \in Seq(Candidate), NEW d \in Seq(Candidate)
  PROVE  /\ c \o d \in Seq(Candidate) /\ Labels(c \o d) = Labels(c) \cup Labels(d)
         /\ EachOnce(c) /\ EachOnce(d) /\ Labels(c) \cap Labels(d) = {} => EachOnce(c \o d)
<1> DEFINE n == Len(c)
           m == Len(d)
           s == c \o d
<1>1. n \in Nat /\ m \in Nat
  BY LenProperties
<1>2. /\ s \in Seq(Candidate) /\ Len(s) = n + m
      /\ \A i \in 1..(n + m) : s[i] = IF i <= n THEN c[i] ELSE d[i - n]
  BY ConcatProperties
<1> HIDE DEF n, m, s
<1>3. \A i \in 1..n : i \in 1..(n + m) /\ s[i] = c[i]
  BY <1>1, <1>2
<1>4. \A i \in 1..m : n + i \in 1..(n + m) /\ s[n + i] = d[i]
  <2> SUFFICES ASSUME NEW i \in 1..m PROVE n + i \in 1..(n + m) /\ s[n + i] = d[i]
    OBVIOUS
  <2>1. n + i \in 1..(n + m) /\ ~ (n + i <= n) /\ (n + i) - n = i
    BY <1>1
  <2> QED BY <1>2, <2>1
<1>5. \A i \in 1..(n + m) : i \in 1..n \/ (i - n \in 1..m /\ s[i] = d[i - n] /\ i = n + (i - n))
  BY <1>1, <1>2
<1>6. Labels(s) = Labels(c) \cup Labels(d)
  <2>1. Labels(s) \subseteq Labels(c) \cup Labels(d)
    <3> SUFFICES ASSUME NEW i \in 1..(n + m) PROVE s[i].label \in Labels(c) \cup Labels(d)
      BY <1>2 DEF Labels
    <3>1. CASE i \in 1..n
      BY <1>3, <3>1 DEF Labels, n
    <3>2. CASE i - n \in 1..m /\ s[i] = d[i - n]
      BY <3>2 DEF Labels, m
    <3> QED BY <1>5, <3>1, <3>2
  <2>2. Labels(c) \subseteq Labels(s)
    BY <1>2, <1>3 DEF Labels, n
  <2>3. Labels(d) \subseteq Labels(s)
    BY <1>2, <1>4 DEF Labels, m
  <2> QED BY <2>1, <2>2, <2>3
<1>7. ASSUME EachOnce(c), EachOnce(d), Labels(c) \cap Labels(d) = {}
      PROVE  EachOnce(s)
  <2> SUFFICES ASSUME NEW i \in 1..(n + m), NEW j \in 1..(n + m), s[i].label = s[j].label
               PROVE  i = j
    BY <1>2 DEF EachOnce
  <2>1. ASSUME NEW a \in 1..n, NEW b \in 1..m PROVE c[a].label # d[b].label
    BY <1>7 DEF Labels, n, m
  <2>2. CASE i \in 1..n /\ j \in 1..n
    BY <1>3, <1>7, <2>2 DEF EachOnce, n
  <2>3. CASE i \in 1..n /\ ~ (j \in 1..n)
    BY <1>3, <1>5, <2>1, <2>3
  <2>4. CASE j \in 1..n /\ ~ (i \in 1..n)
    BY <1>3, <1>5, <2>1, <2>4
  <2>5. CASE ~ (j \in 1..n) /\ ~ (i \in 1..n)
    <3>1. i - n \in 1..m /\ j - n \in 1..m /\ d[i - n].label = d[j - n].label
          /\ i = n + (i - n) /\ j = n + (j - n)
      BY <1>5, <2>5
    <3>2. i - n = j - n
      BY <1>7, <3>1 DEF EachOnce, m
    <3> QED BY <3>1, <3>2
  <2> QED BY <2>2, <2>3, <2>4, <2>5
<1> QED BY <1>2, <1>6, <1>7 DEF s

LEMMA FetchedTogether ==
  ASSUME NEW c, NEW d, NEW names, NEW others, NEW limit \in Nat,
         Fetched(c, names, limit), Fetched(d, others, limit)
  PROVE  Fetched(c \o d, names \cup others, limit)
<1>1. c \o d \in Seq(Candidate) /\ Labels(c \o d) = Labels(c) \cup Labels(d)
  BY JoinedIs DEF Fetched
<1>2. IsFiniteSet(names \cup others)
  BY FS_Union DEF Fetched
<1>3. /\ IsFiniteSet(Labels(c \o d)) /\ Cardinality(Labels(c \o d)) \in Nat
      /\ Cardinality(Labels(c)) \in Nat /\ Cardinality(Labels(d)) \in Nat
  BY <1>1, LabelsAre DEF Fetched
<1>4. Cardinality(Labels(c)) <= Cardinality(Labels(c \o d))
  BY <1>1, <1>3, FS_Subset
<1>5. Cardinality(Labels(d)) <= Cardinality(Labels(c \o d))
  BY <1>1, <1>3, FS_Subset
<1>6. CASE Labels(c) = names /\ Labels(d) = others
  BY <1>1, <1>2, <1>6 DEF Fetched
<1>7. CASE Cardinality(Labels(c)) > limit
  <2>1. Cardinality(Labels(c \o d)) > limit
    BY <1>3, <1>4, <1>7
  <2> QED BY <1>1, <1>2, <2>1 DEF Fetched
<1>8. CASE Cardinality(Labels(d)) > limit
  <2>1. Cardinality(Labels(c \o d)) > limit
    BY <1>3, <1>5, <1>8
  <2> QED BY <1>1, <1>2, <2>1 DEF Fetched
<1> QED BY <1>6, <1>7, <1>8 DEF Fetched

LEMMA FetchedFirst ==
  ASSUME NEW all \in Seq(Candidate), EachOnce(all), NEW limit \in Nat
  PROVE  Fetched(Taken(all, FetchLimit(limit)), Labels(all), limit)
<1> DEFINE m == FetchLimit(limit)
           c == Taken(all, m)
<1>1. m \in Nat /\ m = limit + 1
  BY DEF FetchLimit
<1>2. /\ c \in Seq(Candidate) /\ Len(c) = (IF m < Len(all) THEN m ELSE Len(all))
      /\ \A i \in 1..Len(c) : i \in 1..Len(all) /\ c[i] = all[i]
  <2> HIDE DEF m
  <2> QED BY <1>1, TakenIs
<1> HIDE DEF c, m
<1>3. EachOnce(c) /\ Labels(c) \subseteq Labels(all)
  BY <1>2 DEF EachOnce, Labels
<1>4. Cardinality(Labels(c)) = Len(c) /\ Len(c) \in Nat /\ Len(all) \in Nat
      /\ IsFiniteSet(Labels(all))
  BY <1>2, <1>3, LabelsAre
<1>5. CASE m < Len(all)
  <2>1. Cardinality(Labels(c)) > limit
    BY <1>1, <1>2, <1>4, <1>5
  <2> QED BY <1>2, <1>3, <1>4, <2>1 DEF Fetched, c, m
<1>6. CASE ~ (m < Len(all))
  <2>1. Len(c) = Len(all)
    BY <1>2, <1>6
  <2>2. Labels(c) = Labels(all)
    BY <1>2, <2>1 DEF Labels
  <2> QED BY <1>2, <1>3, <1>4, <2>2 DEF Fetched, c, m
<1> QED BY <1>5, <1>6

LEMMA OffersAre ==
  ASSUME NEW names \in Seq(AllNames), NEW priority \in Nat
  PROVE  /\ Offers(names, priority) \in Seq(Candidate) /\ Labels(Offers(names, priority)) = Range(names)
         /\ IsInjective(names) => EachOnce(Offers(names, priority))
<1> DEFINE n == Len(names)
           c == Offers(names, priority)
<1>1. n \in Nat /\ DOMAIN names = 1..n
  BY LenProperties
<1>2. \A i \in 1..n : names[i] \in AllNames
  BY ElementOfSeq
<1>3. c = [i \in 1..n |-> [label |-> names[i], priority |-> priority]]
  BY <1>1 DEF Offers
<1>4. \A i \in 1..n : [label |-> names[i], priority |-> priority] \in Candidate
  BY <1>2 DEF Candidate
<1> HIDE DEF n
<1>5. c \in [1..n -> Candidate] /\ \A i \in 1..n : c[i].label = names[i]
  BY <1>3, <1>4
<1> HIDE DEF c
<1>6. c \in Seq(Candidate)
  BY <1>1, <1>5, SeqDef
<1>7. Len(c) = n
  BY <1>1, <1>5, <1>6, LenProperties
<1>8. Labels(c) = Range(names)
  BY <1>1, <1>5, <1>7 DEF Labels, Range
<1>9. IsInjective(names) => EachOnce(c)
  BY <1>1, <1>5, <1>7 DEF IsInjective, EachOnce
<1> QED BY <1>6, <1>8, <1>9 DEF c

\* The names of a set that a prefix fits.
Fitting(names, prefix) == {n \in names : StartsWith(n, prefix)}

LEMMA StartingIs ==
  ASSUME NEW names \in Seq(AllNames), NEW prefix
  PROVE  /\ Starting(names, prefix) \in Seq(AllNames)
         /\ Range(Starting(names, prefix)) = Fitting(Range(names), prefix)
         /\ IsInjective(names) => IsInjective(Starting(names, prefix))
<1> DEFINE places == {i \in DOMAIN names : StartsWith(names[i], prefix)}
<1>1. DOMAIN names = 1..Len(names)
  BY LenProperties
<1>2. places \subseteq 1..Len(names) /\ places \subseteq DOMAIN names
  BY <1>1
<1>3. Range(names) = {names[i] : i \in DOMAIN names}
  BY DEF Range
<1>4. {names[i] : i \in places} = Fitting(Range(names), prefix)
  BY <1>3 DEF Fitting
<1>5. Starting(names, prefix) = At(names, places)
  BY DEF Starting
<1> HIDE DEF places
<1>6. IsInjective(names) => \A i, j \in places : names[i] = names[j] => i = j
  BY <1>2 DEF IsInjective
<1> DEFINE at == At(names, places)
<1>7. at \in Seq(AllNames) /\ Range(at) = {names[i] : i \in places}
      /\ ((\A i, j \in places : names[i] = names[j] => i = j) => IsInjective(at))
  BY <1>2, AtIs
<1> HIDE DEF at
<1> QED BY <1>4, <1>5, <1>6, <1>7 DEF at

LEMMA NamesFromIs ==
  ASSUME NEW names \in Seq(AllNames), NEW prefix, NEW priority \in Nat, NEW limit \in Nat
  PROVE  /\ NamesFrom(names, prefix, priority, FetchLimit(limit)) \in Seq(Candidate)
         /\ IsInjective(names) => Fetched(NamesFrom(names, prefix, priority, FetchLimit(limit)),
                                          Fitting(Range(names), prefix), limit)
<1> DEFINE starting == Starting(names, prefix)
           all == Offers(starting, priority)
<1>1. starting \in Seq(AllNames) /\ Range(starting) = Fitting(Range(names), prefix)
      /\ (IsInjective(names) => IsInjective(starting))
  BY StartingIs
<1>2. NamesFrom(names, prefix, priority, FetchLimit(limit)) = Taken(all, FetchLimit(limit))
  BY DEF NamesFrom
<1> HIDE DEF starting
<1>3. all \in Seq(Candidate) /\ Labels(all) = Range(starting) /\ (IsInjective(starting) => EachOnce(all))
  BY <1>1, OffersAre
<1> HIDE DEF all
<1>4. FetchLimit(limit) \in Nat
  BY DEF FetchLimit
<1>5. Taken(all, FetchLimit(limit)) \in Seq(Candidate)
  BY <1>3, <1>4, TakenIs
<1>6. EachOnce(all) => Fetched(Taken(all, FetchLimit(limit)), Labels(all), limit)
  BY <1>3, FetchedFirst
<1> QED BY <1>1, <1>2, <1>3, <1>5, <1>6

-----------------------------------------------------------------------------
(* What a world has to offer. *)

LEMMA NamesInAre ==
  ASSUME NEW entries
  PROVE  /\ DOMAIN NamesIn(entries) = DOMAIN entries
         /\ \A i \in DOMAIN entries : NamesIn(entries)[i] = entries[i].name
         /\ Range(NamesIn(entries)) = {e.name : e \in Range(entries)}
BY DEF NamesIn, Range

LEMMA NoneOnce == Once(<<>>) /\ Once(NamesIn(<<>>)) /\ Range(<<>>) = {}
<1>1. <<>> \in Seq(AllNames) /\ DOMAIN <<>> = {}
  BY EmptySeq
<1>2. Once(<<>>)
  BY <1>1 DEF Once, IsInjective
<1>3. NamesIn(<<>>) = <<>>
  BY DEF NamesIn
<1> QED BY <1>1, <1>2, <1>3 DEF Range

LEMMA WorldIs ==
  ASSUME world \in Worlds \cup {NoWorld}
  PROVE  /\ Once(NamesIn(world.bindings)) /\ Once(world.packages)
         /\ NamesIn(world.records) \in Seq(AllNames)
         /\ \A r \in Visible : Once(NamesIn(r.options)) /\ \A o \in Range(r.options) : Once(o.values)
<1>1. Visible \subseteq Range(world.records)
  BY DEF Visible, VisibleAt, Range
<1> QED BY <1>1, CompletionAssumption

\* One record is seen for a name.
LEMMA VisibleOnce ==
  ASSUME world \in Worlds \cup {NoWorld}
  PROVE  /\ VisibleAt \subseteq 1..Len(NamesIn(world.records)) /\ DOMAIN world.records = 1..Len(NamesIn(world.records))
         /\ \A i, j \in VisibleAt : world.records[i].name = world.records[j].name => i = j
<1> DEFINE n == Len(NamesIn(world.records))
<1>1. DOMAIN world.records = 1..n /\ n \in Nat
  BY WorldIs, NamesInAre, LenProperties
<1>2. ASSUME NEW i \in VisibleAt, NEW j \in VisibleAt, world.records[i].name = world.records[j].name
      PROVE  i = j
  <2>1. ~ (i \in 1..(j - 1)) /\ ~ (j \in 1..(i - 1))
    BY <1>2 DEF VisibleAt
  <2>2. i \in 1..n /\ j \in 1..n
    BY <1>1 DEF VisibleAt
  <2> QED BY <1>1, <2>1, <2>2
<1> QED BY <1>1, <1>2 DEF VisibleAt

LEMMA OptionsAre ==
  ASSUME world \in Worlds \cup {NoWorld}, NEW callable
  PROVE  Once(NamesIn(OptionsOf(callable))) /\ \A o \in Range(OptionsOf(callable)) : Once(o.values)
<1> DEFINE named == {r \in Visible : r.name = callable}
<1>1. OptionsOf(callable) = IF named = {} THEN <<>> ELSE (CHOOSE r \in named : TRUE).options
  BY DEF OptionsOf
<1>2. CASE named = {}
  <2>1. OptionsOf(callable) = <<>>
    BY <1>1, <1>2
  <2> QED BY <2>1, NoneOnce
<1>3. CASE named # {}
  <2>1. (CHOOSE r \in named : TRUE) \in named
    BY <1>3
  <2>2. (CHOOSE r \in named : TRUE) \in Visible
    BY <2>1
  <2>3. OptionsOf(callable) = (CHOOSE r \in named : TRUE).options
    BY <1>1, <1>3
  <2> QED BY <2>2, <2>3, WorldIs, Zenon
<1> QED BY <1>2, <1>3

\* The values of the options of a name.
ValuesNamed(callable, option) ==
  UNION {Range(o.values) : o \in {o \in Range(OptionsOf(callable)) : o.name = option}}

LEMMA ValuesAre ==
  ASSUME world \in Worlds \cup {NoWorld}, NEW callable, NEW option
  PROVE  Once(ValuesOf(callable, option)) /\ Range(ValuesOf(callable, option)) = ValuesNamed(callable, option)
<1> DEFINE options == OptionsOf(callable)
           having == {i \in DOMAIN options : options[i].name = option}
           least == CHOOSE i \in having : \A j \in having : i <= j
<1>1. Once(NamesIn(options)) /\ \A o \in Range(options) : Once(o.values)
  BY OptionsAre
<1>2. ValuesOf(callable, option) = IF having = {} THEN <<>> ELSE options[least].values
  BY DEF ValuesOf
<1>3. ValuesNamed(callable, option) = UNION {Range(o.values) : o \in {o \in Range(options) : o.name = option}}
  BY DEF ValuesNamed
<1> HIDE DEF options
<1>4. {o \in Range(options) : o.name = option} = {options[i] : i \in having}
  BY DEF Range
<1>5. CASE having = {}
  <2>1. ValuesOf(callable, option) = <<>>
    BY <1>2, <1>5
  <2>2. ValuesNamed(callable, option) = {}
    BY <1>3, <1>4, <1>5
  <2> QED BY <2>1, <2>2, NoneOnce
<1>6. CASE having # {}
  <2>1. DOMAIN options \subseteq Nat
    <3>1. DOMAIN options = DOMAIN NamesIn(options)
      BY NamesInAre
    <3>2. DOMAIN NamesIn(options) = 1..Len(NamesIn(options))
      BY <1>1, LenProperties DEF Once
    <3> QED BY <3>1, <3>2
  <2>2. \E i \in having : \A j \in having : i <= j
    <3>1. having \subseteq Nat
      BY <2>1
    <3> HIDE DEF having
    <3> QED BY <1>6, <3>1, LeastNumber
  <2>3. least \in having
    <3> HIDE DEF having
    <3> QED BY <2>2
  <2>4. \A i \in having : i = least
    <3> SUFFICES ASSUME NEW i \in having PROVE i = least
      OBVIOUS
    <3>1. i \in DOMAIN options /\ least \in DOMAIN options /\ options[i].name = options[least].name
      BY <2>3
    <3> HIDE DEF least, having
    <3>2. NamesIn(options)[i] = NamesIn(options)[least] /\ i \in DOMAIN NamesIn(options)
          /\ least \in DOMAIN NamesIn(options)
      BY <3>1, NamesInAre
    <3> QED BY <1>1, <3>2 DEF Once, IsInjective
  <2> HIDE DEF least
  <2>5. {options[i] : i \in having} = {options[least]}
    BY <2>3, <2>4
  <2> HIDE DEF having
  <2>6. ValuesOf(callable, option) = options[least].values
    BY <1>2, <1>6
  <2>7. ValuesNamed(callable, option) = Range(options[least].values)
    BY <1>3, <1>4, <2>5
  <2>8. options[least] \in Range(options)
    BY <2>3 DEF Range, having
  <2> QED BY <1>1, <2>6, <2>7, <2>8
<1> QED BY <1>5, <1>6

\* The names of bindings and of records, of types alone or all.
LocalNames(types) == {b.name : b \in {b \in Range(world.bindings) : types => BindingIsType(b)}}
RecordNames(types) == {r.name : r \in {r \in Visible : types => RecordIsType(r)}}

LEMMA KnownSymbolsAre ==
  ASSUME world \in Worlds \cup {NoWorld}, NEW prefix, NEW types \in BOOLEAN, NEW limit \in Nat
  PROVE  /\ KnownSymbols(prefix, types, FetchLimit(limit)) \in Seq(Candidate)
         /\ Hidden = {} => Fetched(KnownSymbols(prefix, types, FetchLimit(limit)),
                                   Fitting(LocalNames(types) \cup RecordNames(types), prefix), limit)
<1> DEFINE bindings == world.bindings
           records == world.records
           local == {i \in DOMAIN bindings : /\ StartsWith(bindings[i].name, prefix)
                                             /\ types => BindingIsType(bindings[i])}
           external == {i \in VisibleAt : /\ StartsWith(records[i].name, prefix)
                                          /\ types => RecordIsType(records[i])}
           a == At(NamesIn(bindings), local)
           b == At(NamesIn(records), external)
           all == Offers(a, 0) \o Offers(b, 2)
<1>1. KnownSymbols(prefix, types, FetchLimit(limit)) = Taken(all, FetchLimit(limit))
  BY DEF KnownSymbols
<1>2. NamesIn(bindings) \in Seq(AllNames) /\ IsInjective(NamesIn(bindings)) /\ NamesIn(records) \in Seq(AllNames)
  BY WorldIs DEF Once
<1>3. /\ DOMAIN NamesIn(bindings) = DOMAIN bindings /\ DOMAIN NamesIn(records) = DOMAIN records
      /\ \A i \in DOMAIN bindings : NamesIn(bindings)[i] = bindings[i].name
      /\ \A i \in DOMAIN records : NamesIn(records)[i] = records[i].name
  BY NamesInAre
<1>4. local \subseteq 1..Len(NamesIn(bindings))
  BY <1>2, <1>3, LenProperties
<1>5. external \subseteq 1..Len(NamesIn(records)) /\ external \subseteq VisibleAt /\ VisibleAt \subseteq DOMAIN records
  BY VisibleOnce
<1>6. {NamesIn(bindings)[i] : i \in local} = Fitting(LocalNames(types), prefix)
  BY <1>3 DEF Fitting, LocalNames, Range
<1>7. {NamesIn(records)[i] : i \in external} = Fitting(RecordNames(types), prefix)
  <2>1. {NamesIn(records)[i] : i \in external} = {records[i].name : i \in external}
    BY <1>3, <1>5
  <2> QED BY <2>1 DEF Fitting, RecordNames, Visible
<1>8. \A i, j \in local : NamesIn(bindings)[i] = NamesIn(bindings)[j] => i = j
  BY <1>2, <1>3 DEF IsInjective
<1>9. \A i, j \in external : NamesIn(records)[i] = NamesIn(records)[j] => i = j
  <2> SUFFICES ASSUME NEW i \in external, NEW j \in external, NamesIn(records)[i] = NamesIn(records)[j]
               PROVE  i = j
    BY Zenon
  <2>1. i \in VisibleAt /\ j \in VisibleAt
    BY <1>5
  <2>2. records[i].name = records[j].name
    BY <1>3, <1>5, <2>1
  <2> QED BY <2>1, <2>2, VisibleOnce
<1> DEFINE ln == NamesIn(bindings)
           rn == NamesIn(records)
<1> HIDE DEF local, external, bindings, records
<1>10. a \in Seq(AllNames) /\ Range(a) = {NamesIn(bindings)[i] : i \in local} /\ IsInjective(a)
  <2>1. ln \in Seq(AllNames) /\ local \subseteq 1..Len(ln) /\ (\A i, j \in local : ln[i] = ln[j] => i = j)
    BY <1>2, <1>4, <1>8
  <2>2. a = At(ln, local)
    OBVIOUS
  <2> HIDE DEF ln, a
  <2>3. a \in Seq(AllNames) /\ Range(a) = {ln[i] : i \in local} /\ IsInjective(a)
    BY <2>1, <2>2, AtIs, ZenonT(30)
  <2> QED BY <2>3 DEF ln
<1>11. b \in Seq(AllNames) /\ Range(b) = {NamesIn(records)[i] : i \in external} /\ IsInjective(b)
  <2>1. rn \in Seq(AllNames) /\ external \subseteq 1..Len(rn) /\ (\A i, j \in external : rn[i] = rn[j] => i = j)
    BY <1>2, <1>5, <1>9
  <2>2. b = At(rn, external)
    OBVIOUS
  <2> HIDE DEF rn, b
  <2>3. b \in Seq(AllNames) /\ Range(b) = {rn[i] : i \in external} /\ IsInjective(b)
    BY <2>1, <2>2, AtIs, ZenonT(30)
  <2> QED BY <2>3 DEF rn
<1> HIDE DEF a, b
<1>12. Range(a) = Fitting(LocalNames(types), prefix) /\ Range(b) = Fitting(RecordNames(types), prefix)
  BY <1>6, <1>7, <1>10, <1>11
<1>13. /\ Offers(a, 0) \in Seq(Candidate) /\ Labels(Offers(a, 0)) = Range(a) /\ EachOnce(Offers(a, 0))
       /\ Offers(b, 2) \in Seq(Candidate) /\ Labels(Offers(b, 2)) = Range(b) /\ EachOnce(Offers(b, 2))
  BY <1>10, <1>11, OffersAre
<1>14. /\ all \in Seq(Candidate) /\ Labels(all) = Range(a) \cup Range(b)
       /\ Range(a) \cap Range(b) = {} => EachOnce(all)
  BY <1>13, JoinedIs
<1>15. FetchLimit(limit) \in Nat
  BY DEF FetchLimit
<1> HIDE DEF all
<1>16. Taken(all, FetchLimit(limit)) \in Seq(Candidate)
  BY <1>14, <1>15, TakenIs
<1>17. Labels(all) = Fitting(LocalNames(types) \cup RecordNames(types), prefix)
  BY <1>12, <1>14 DEF Fitting
<1>18. ASSUME Hidden = {} PROVE Range(a) \cap Range(b) = {}
  <2>1. LocalNames(types) \subseteq Range(NamesIn(world.bindings))
    BY NamesInAre DEF LocalNames
  <2>2. RecordNames(types) \subseteq {r.name : r \in Visible}
    BY DEF RecordNames
  <2> QED BY <1>12, <1>18, <2>1, <2>2 DEF Hidden, Fitting
<1>19. Hidden = {} => Fetched(Taken(all, FetchLimit(limit)), Labels(all), limit)
  BY <1>14, <1>18, FetchedFirst
<1> QED BY <1>1, <1>16, <1>17, <1>19

-----------------------------------------------------------------------------
(* What a site calls for, and what it is answered. *)

LEMMA NearestIs ==
  ASSUME site \in Sites, NEW kinds, NEW from \in Nat
  PROVE  \/ Nearest(kinds, from) = 0
         \/ /\ Nearest(kinds, from) \in DOMAIN site.path /\ Nearest(kinds, from) \in Nat \ {0}
            /\ Nearest(kinds, from) > from /\ site.path[Nearest(kinds, from)].kind \in kinds
<1> DEFINE found == {i \in DOMAIN site.path : i > from /\ site.path[i].kind \in kinds}
           least == CHOOSE i \in found : \A j \in found : i <= j
<1>1. Nearest(kinds, from) = IF found = {} THEN 0 ELSE least
  BY DEF Nearest
<1>2. DOMAIN site.path = 1..Len(site.path) /\ Len(site.path) \in Nat
  BY CompletionAssumption, LenProperties
<1>3. CASE found = {}
  BY <1>1, <1>3
<1>4. CASE found # {}
  <2>1. \E i \in found : \A j \in found : i <= j
    <3>1. found \subseteq Nat
      BY <1>2
    <3> HIDE DEF found
    <3> QED BY <1>4, <3>1, LeastNumber
  <2>2. least \in found
    <3> HIDE DEF found
    <3> QED BY <2>1
  <2>3. Nearest(kinds, from) = least
    BY <1>1, <1>4
  <2> HIDE DEF least
  <2> QED BY <1>2, <2>2, <2>3
<1> QED BY <1>3, <1>4

\* A name that is typed is taken for a callable in its own head alone, and that is the
\* innermost thing it is in.
LEMMA CallableIs ==
  ASSUME site \in Sites, NEW from \in Nat, NEW name,
         from # 0 \/ ~Is(Nearest({"argument", "head"}, from), "head")
  PROVE  CallableFrom(from, name) = CallableFrom(from, NoName)
<1> DEFINE i == Nearest({"argument", "head"}, from)
<1>1. ~Is(i, "head")
  <2>1. CASE from # 0
    <3> SUFFICES ASSUME Is(i, "head") PROVE FALSE
      OBVIOUS
    <3>1. i \in DOMAIN site.path /\ i \in Nat \ {0} /\ i > from /\ site.path[i].kind = "head"
      BY NearestIs DEF Is
    <3>2. i = 1
      BY <3>1, CompletionAssumption
    <3> QED BY <2>1, <3>1, <3>2
  <2> QED BY <2>1
<1> QED BY <1>1 DEF CallableFrom

LEMMA InValueIs ==
  ASSUME site \in Sites, InValue
  PROVE  Option \in Nat /\ Option # 0
BY NearestIs DEF InValue, Is, Option

Call(names, limit, length) == [names |-> names, limit |-> limit, length |-> length]

\* CalledFor, of any prefix.
CalledBy(prefix) ==
  LET setting == CallableFrom(Option, NoName)
      calling == CallableFrom(0, NoName)
  IN  IF site.kind = "import" THEN Call(Range(world.packages), CompletionLimit, 1)
      ELSE IF InClass THEN Call(LocalNames(TRUE) \cup RecordNames(TRUE), CompletionLimit, 1)
      ELSE IF InValue /\ site.path[Option].of # NoName /\ setting # NoName
      THEN Call(ValuesNamed(setting, site.path[Option].of), CompletionLimit, 1)
      ELSE IF ~InValue /\ prefix[1] \in Capitals /\ calling # NoName
      THEN Call({o.name : o \in Range(OptionsOf(calling))}, CompletionLimit, 1)
      ELSE Call(LocalNames(FALSE) \cup RecordNames(FALSE) \cup Range(Keywords), NarrowLimit, NarrowLength)

LEMMA CalledForIs == CalledFor = CalledBy(typed)
BY DEF CalledFor, CalledBy, Call, LocalNames, RecordNames, ValuesNamed

InItsHead(prefix) == prefix[1] \in Capitals /\ Is(Nearest({"argument", "head"}, 0), "head")

\* The sites and prefixes that the claim is about.
Judged(prefix) ==
  \/ site.kind = "import"
  \/ site.kind = "symbol" /\ prefix # <<>> /\ ~InItsHead(prefix)

\* What the claim says of a list, and that one is whole only where it may be.
Fine(prefix, r) ==
  LET called == CalledBy(prefix)
      fitting == Fitting(called.names, prefix)
  IN  /\ IsFiniteSet(fitting) /\ Range(r.items) \subseteq fitting
      /\ r.whole => fitting \subseteq Range(r.items) /\ Cardinality(fitting) <= called.limit
      /\ Len(prefix) >= called.length => (r.whole <=> Cardinality(fitting) <= called.limit)

LEMMA FetchedIsFine ==
  ASSUME NEW c, NEW names, NEW prefix, NEW limit \in Nat, NEW length, NEW atMost \in BOOLEAN,
         Fetched(c, Fitting(names, prefix), limit), CalledBy(prefix) = Call(names, limit, length)
  PROVE  Fine(prefix, Complete(c, limit, atMost))
<1> DEFINE r == Complete(c, limit, atMost)
           fitting == Fitting(names, prefix)
<1>1. Answers(r, fitting, limit) /\ IsFiniteSet(fitting)
  <2> HIDE DEF r, fitting
  <2>1. Fetched(c, fitting, limit)
    BY DEF fitting
  <2> QED BY <2>1, FetchedAnswers DEF Fetched, r
<1>2. CalledBy(prefix).names = names /\ CalledBy(prefix).limit = limit
  BY DEF Call
<1> SUFFICES Fine(prefix, r)
  OBVIOUS
<1> HIDE DEF r
<1>3. Fitting(CalledBy(prefix).names, prefix) = fitting
  BY <1>2
<1> HIDE DEF fitting
<1> QED BY <1>1, <1>2, <1>3, Zenon DEF Answers, Fine

LEMMA ConstantsAre ==
  /\ NarrowLimit \in Nat /\ CompletionLimit \in Nat /\ NarrowLength \in Nat
  /\ Keywords \in Seq(AllNames) /\ IsInjective(Keywords) /\ NoName \in AllNames
BY CompletionAssumption DEF Once

\* A response is a list, whatever is asked for.
LEMMA ResponseType ==
  ASSUME world \in Worlds \cup {NoWorld}, NEW prefix
  PROVE  CompletionResponse(prefix) \in CompletionList
<1> DEFINE many == FetchLimit(CompletionLimit)
           few == FetchLimit(NarrowLimit)
<1>1. \A c \in Seq(Candidate) : UpTo(c) \in CompletionList /\ AtMost(c) \in CompletionList
  <2> SUFFICES ASSUME NEW c \in Seq(Candidate) PROVE UpTo(c) \in CompletionList /\ AtMost(c) \in CompletionList
    OBVIOUS
  <2>1. Answers(UpTo(c), Labels(c), CompletionLimit)
    BY CompleteIs, ConstantsAre DEF UpTo
  <2>2. Answers(AtMost(c), Labels(c), NarrowLimit)
    BY CompleteIs, ConstantsAre DEF AtMost
  <2> QED BY <2>1, <2>2 DEF Answers
<1>2. NoList \in CompletionList
  BY EmptySeq DEF NoList, CompletionList
<1>3. \A names, p : Once(names) /\ p \in Nat => NamesFrom(names, prefix, p, many) \in Seq(Candidate)
                                              /\ NamesFrom(names, prefix, p, few) \in Seq(Candidate)
  BY NamesFromIs, ConstantsAre DEF Once
<1>4. UpTo(NamesFrom(world.packages, prefix, 0, many)) \in CompletionList
  BY <1>1, <1>3, WorldIs
<1>5. UpTo(KnownSymbols(prefix, TRUE, many)) \in CompletionList
  BY <1>1, KnownSymbolsAre, ConstantsAre
<1>6. \A callable, option : UpTo(NamesFrom(ValuesOf(callable, option), prefix, 0, many)) \in CompletionList
  BY <1>1, <1>3, ValuesAre
<1>7. \A callable : UpTo(NamesFrom(NamesIn(OptionsOf(callable)), prefix, 0, many)) \in CompletionList
  BY <1>1, <1>3, OptionsAre
<1>8. AtMost(KnownSymbols(prefix, FALSE, few) \o NamesFrom(Keywords, prefix, 1, few)) \in CompletionList
  <2>1. KnownSymbols(prefix, FALSE, few) \in Seq(Candidate)
    BY KnownSymbolsAre, ConstantsAre
  <2>2. NamesFrom(Keywords, prefix, 1, few) \in Seq(Candidate)
    BY <1>3, ConstantsAre DEF Once
  <2> QED BY <1>1, <2>1, <2>2, JoinedIs
<1> HIDE DEF many, few
<1> QED BY <1>2, <1>4, <1>5, <1>6, <1>7, <1>8, Zenon DEF CompletionResponse, many, few

\* And where the claim is about it, it is fine.
LEMMA ResponseIs ==
  ASSUME site \in Sites, world \in Worlds \cup {NoWorld}, NEW prefix \in AllNames, Judged(prefix), Hidden = {}
  PROVE  Fine(prefix, CompletionResponse(prefix))
<1> DEFINE many == FetchLimit(CompletionLimit)
           few == FetchLimit(NarrowLimit)
           setting == CallableFrom(Option, NoName)
           calling == CallableFrom(0, NoName)
           key == site.path[Option].of
           r == CompletionResponse(prefix)
<1>0. CompletionLimit \in Nat /\ NarrowLimit \in Nat /\ TRUE \in BOOLEAN /\ FALSE \in BOOLEAN
  BY ConstantsAre
<1>1. site.kind # "import" => /\ site.kind = "symbol" /\ prefix # <<>> /\ ~InItsHead(prefix)
  BY DEF Judged
<1>2. InValue => CallableFrom(Option, prefix) = setting
  BY InValueIs, CallableIs
<1>3. ~InItsHead(prefix) /\ prefix[1] \in Capitals => CallableFrom(0, prefix) = calling
  BY CallableIs DEF InItsHead
<1>4. CASE site.kind = "import"
  <2> DEFINE c == NamesFrom(world.packages, prefix, 0, many)
  <2>1. Fetched(c, Fitting(Range(world.packages), prefix), CompletionLimit)
    BY WorldIs, NamesFromIs, <1>0 DEF Once
  <2>2. CalledBy(prefix) = Call(Range(world.packages), CompletionLimit, 1)
    BY <1>4 DEF CalledBy
  <2>3. r = Complete(c, CompletionLimit, FALSE)
    BY <1>4 DEF CompletionResponse, UpTo
  <2> HIDE DEF c, r
  <2>4. Fine(prefix, r)
    BY <1>0, <2>1, <2>2, <2>3, FetchedIsFine
  <2> QED BY <2>4 DEF r
<1>5. CASE site.kind # "import" /\ InClass
  <2> DEFINE c == KnownSymbols(prefix, TRUE, many)
  <2>1. Fetched(c, Fitting(LocalNames(TRUE) \cup RecordNames(TRUE), prefix), CompletionLimit)
    BY KnownSymbolsAre, <1>0
  <2>2. CalledBy(prefix) = Call(LocalNames(TRUE) \cup RecordNames(TRUE), CompletionLimit, 1)
    BY <1>5 DEF CalledBy
  <2>3. r = Complete(c, CompletionLimit, FALSE)
    BY <1>1, <1>5 DEF CompletionResponse, UpTo
  <2> HIDE DEF c, r
  <2>4. Fine(prefix, r)
    BY <1>0, <2>1, <2>2, <2>3, FetchedIsFine
  <2> QED BY <2>4 DEF r
<1>6. CASE site.kind # "import" /\ ~InClass /\ InValue /\ key # NoName /\ setting # NoName
  <2> DEFINE c == NamesFrom(ValuesOf(setting, key), prefix, 0, many)
             names == ValuesNamed(setting, key)
  <2>1. Fetched(c, Fitting(names, prefix), CompletionLimit)
    <3>1. Once(ValuesOf(setting, key)) /\ Range(ValuesOf(setting, key)) = names
      BY ValuesAre
    <3> QED BY <1>0, <3>1, NamesFromIs DEF Once
  <2>2. CalledBy(prefix) = Call(names, CompletionLimit, 1)
    BY <1>6 DEF CalledBy
  <2>3. r = Complete(c, CompletionLimit, FALSE)
    BY <1>1, <1>2, <1>6 DEF CompletionResponse, UpTo
  <2> HIDE DEF c, r, names
  <2>4. Fine(prefix, r)
    BY <1>0, <2>1, <2>2, <2>3, FetchedIsFine
  <2> QED BY <2>4 DEF r
<1>7. CASE site.kind # "import" /\ ~InClass /\ ~InValue /\ prefix[1] \in Capitals /\ calling # NoName
  <2> DEFINE c == NamesFrom(NamesIn(OptionsOf(calling)), prefix, 0, many)
             names == {o.name : o \in Range(OptionsOf(calling))}
  <2>1. Fetched(c, Fitting(names, prefix), CompletionLimit)
    <3>1. Once(NamesIn(OptionsOf(calling))) /\ Range(NamesIn(OptionsOf(calling))) = names
      BY OptionsAre, NamesInAre
    <3> QED BY <1>0, <3>1, NamesFromIs DEF Once
  <2>2. CalledBy(prefix) = Call(names, CompletionLimit, 1)
    BY <1>7 DEF CalledBy
  <2>3. r = Complete(c, CompletionLimit, FALSE)
    <3>1. CallableFrom(0, prefix) = calling
      BY <1>1, <1>3, <1>7
    <3> QED BY <1>1, <1>7, <3>1 DEF CompletionResponse, UpTo
  <2> HIDE DEF c, r, names
  <2>4. Fine(prefix, r)
    BY <1>0, <2>1, <2>2, <2>3, FetchedIsFine
  <2> QED BY <2>4 DEF r
<1>8. CASE /\ site.kind # "import" /\ ~InClass /\ ~ (InValue /\ key # NoName /\ setting # NoName)
           /\ ~ (~InValue /\ prefix[1] \in Capitals /\ calling # NoName)
  <2> DEFINE c == KnownSymbols(prefix, FALSE, few) \o NamesFrom(Keywords, prefix, 1, few)
             names == LocalNames(FALSE) \cup RecordNames(FALSE) \cup Range(Keywords)
  <2>1. Fetched(c, Fitting(names, prefix), NarrowLimit)
    <3> DEFINE d == KnownSymbols(prefix, FALSE, few)
               e == NamesFrom(Keywords, prefix, 1, few)
               symbols == Fitting(LocalNames(FALSE) \cup RecordNames(FALSE), prefix)
               keywords == Fitting(Range(Keywords), prefix)
    <3>1. Fetched(d, symbols, NarrowLimit)
      BY KnownSymbolsAre, <1>0
    <3>2. Fetched(e, keywords, NarrowLimit)
      BY NamesFromIs, ConstantsAre
    <3>3. Fitting(names, prefix) = symbols \cup keywords /\ c = d \o e
      BY DEF Fitting
    <3> HIDE DEF c, d, e, symbols, keywords, names
    <3>4. Fetched(d \o e, symbols \cup keywords, NarrowLimit)
      BY <1>0, <3>1, <3>2, FetchedTogether
    <3> QED BY <3>3, <3>4
  <2>2. CalledBy(prefix) = Call(names, NarrowLimit, NarrowLength)
    BY <1>8 DEF CalledBy
  <2>3. InValue /\ key # NoName => ~ (CallableFrom(Option, prefix) # NoName)
    BY <1>2, <1>8
  <2>4. ~ (prefix[1] \in Capitals /\ ~InValue /\ CallableFrom(0, prefix) # NoName)
    BY <1>1, <1>3, <1>8
  <2>5. r = IF Len(prefix) >= NarrowLength THEN Complete(c, NarrowLimit, TRUE) ELSE NoList
    BY <1>1, <1>8, <2>3, <2>4 DEF CompletionResponse, AtMost
  <2> HIDE DEF c, r, names
  <2>6. CASE Len(prefix) >= NarrowLength
    <3>1. r = Complete(c, NarrowLimit, TRUE)
      BY <2>5, <2>6
    <3>2. Fine(prefix, r)
      BY <1>0, <2>1, <2>2, <3>1, FetchedIsFine
    <3> QED BY <3>2 DEF r
  <2>7. CASE ~ (Len(prefix) >= NarrowLength)
    <3>1. r.whole = FALSE /\ r.items = <<>> /\ Range(<<>>) = {}
      BY <2>5, <2>7 DEF NoList, Range
    <3>2. CalledBy(prefix).names = names /\ CalledBy(prefix).length = NarrowLength
      BY <2>2 DEF Call
    <3>3. IsFiniteSet(Fitting(names, prefix))
      BY <2>1 DEF Fetched
    <3>4. Fine(prefix, r)
      BY <2>7, <3>1, <3>2, <3>3 DEF Fine
    <3> QED BY <3>4 DEF r
  <2> QED BY <2>6, <2>7
<1> QED BY <1>4, <1>5, <1>6, <1>7, <1>8

-----------------------------------------------------------------------------
(* Narrowing, and the steps. *)

LEMMA CalledNames ==
  ASSUME world \in Worlds \cup {NoWorld}, NEW prefix
  PROVE  CalledBy(prefix).names \subseteq AllNames
<1>1. \A names : Once(names) => Range(names) \subseteq AllNames
  BY RangeOfSeq DEF Once
<1>2. \A types \in BOOLEAN : LocalNames(types) \subseteq AllNames
  <2>1. \A types : LocalNames(types) \subseteq Range(NamesIn(world.bindings))
    BY NamesInAre DEF LocalNames
  <2> QED BY <1>1, <2>1, WorldIs
<1>3. \A types \in BOOLEAN : RecordNames(types) \subseteq AllNames
  <2>1. Visible \subseteq Range(world.records)
    BY DEF Visible, VisibleAt, Range
  <2>2. \A types : RecordNames(types) \subseteq Range(NamesIn(world.records))
    BY <2>1, NamesInAre DEF RecordNames
  <2>3. Range(NamesIn(world.records)) \subseteq AllNames
    BY WorldIs, RangeOfSeq
  <2> QED BY <2>2, <2>3
<1>4. \A callable, option : ValuesNamed(callable, option) \subseteq AllNames
  BY <1>1, ValuesAre
<1>5. \A callable : {o.name : o \in Range(OptionsOf(callable))} \subseteq AllNames
  BY <1>1, OptionsAre, NamesInAre
<1>6. Range(world.packages) \subseteq AllNames /\ Range(Keywords) \subseteq AllNames
  BY <1>1, WorldIs, ConstantsAre DEF Once
<1>7. \A names, limit, length : Call(names, limit, length).names = names
  BY DEF Call
<1>8. LocalNames(TRUE) \cup RecordNames(TRUE) \subseteq AllNames
      /\ LocalNames(FALSE) \cup RecordNames(FALSE) \cup Range(Keywords) \subseteq AllNames
  BY <1>2, <1>3, <1>6
<1>9. \/ CalledBy(prefix) = Call(Range(world.packages), CompletionLimit, 1)
      \/ CalledBy(prefix) = Call(LocalNames(TRUE) \cup RecordNames(TRUE), CompletionLimit, 1)
      \/ \E callable, option : CalledBy(prefix) = Call(ValuesNamed(callable, option), CompletionLimit, 1)
      \/ \E callable : CalledBy(prefix) = Call({o.name : o \in Range(OptionsOf(callable))}, CompletionLimit, 1)
      \/ CalledBy(prefix) = Call(LocalNames(FALSE) \cup RecordNames(FALSE) \cup Range(Keywords),
                                 NarrowLimit, NarrowLength)
  BY Zenon DEF CalledBy
<1>10. ASSUME NEW names, NEW limit, NEW length, CalledBy(prefix) = Call(names, limit, length),
              names \subseteq AllNames
       PROVE  CalledBy(prefix).names \subseteq AllNames
  BY <1>7, <1>10
<1> QED BY <1>4, <1>5, <1>6, <1>8, <1>9, <1>10, Zenon

\* A name that starts with one letter more starts with the letters before.
LEMMA StartsLonger ==
  ASSUME NEW n \in AllNames, NEW prefix \in AllNames, NEW letter \in Letters,
         StartsWith(n, Append(prefix, letter))
  PROVE  StartsWith(n, prefix)
<1> DEFINE t == Append(prefix, letter)
           k == Len(prefix)
<1>1. k \in Nat /\ Len(n) \in Nat
  BY LenProperties DEF AllNames
<1>2. Len(t) = k + 1 /\ \A i \in 1..k : t[i] = prefix[i]
  BY AppendProperties DEF AllNames
<1>3. k + 1 <= Len(n) /\ SubSeq(n, 1, k + 1) = t
  BY <1>2 DEF StartsWith
<1> HIDE DEF t, k
<1>4. \A j \in Nat : j <= Len(n) =>
        /\ SubSeq(n, 1, j) \in Seq(Letters) /\ Len(SubSeq(n, 1, j)) = j
        /\ \A i \in 1..j : SubSeq(n, 1, j)[i] = n[i]
  <2> SUFFICES ASSUME NEW j \in Nat, j <= Len(n)
               PROVE  /\ SubSeq(n, 1, j) \in Seq(Letters) /\ Len(SubSeq(n, 1, j)) = j
                      /\ \A i \in 1..j : SubSeq(n, 1, j)[i] = n[i]
    OBVIOUS
  <2>1. \A i \in 1..j : n[i] \in Letters
    BY <1>1, ElementOfSeq DEF AllNames
  <2>2. /\ SubSeq(n, 1, j) \in Seq(Letters) /\ Len(SubSeq(n, 1, j)) = IF 1 <= j THEN j - 1 + 1 ELSE 0
        /\ \A i \in 1..(j - 1 + 1) : SubSeq(n, 1, j)[i] = n[1 + i - 1]
    BY <2>1, SubSeqProperties
  <2> QED BY <2>2
<1>5. \A i \in 1..k : n[i] = t[i]
  <2>1. \A i \in 1..(k + 1) : SubSeq(n, 1, k + 1)[i] = n[i]
    BY <1>1, <1>3, <1>4
  <2> QED BY <1>1, <1>3, <2>1
<1>6. k <= Len(n) /\ SubSeq(n, 1, k) = prefix
  <2>1. k <= Len(n)
    BY <1>1, <1>3
  <2>2. /\ SubSeq(n, 1, k) \in Seq(Letters) /\ Len(SubSeq(n, 1, k)) = k
        /\ \A i \in 1..k : SubSeq(n, 1, k)[i] = prefix[i]
    BY <1>1, <1>2, <1>4, <1>5, <2>1
  <2>3. prefix \in Seq(Letters) /\ Len(prefix) = k
    BY DEF AllNames, k
  <2> QED BY <2>1, <2>2, <2>3, SeqEqual
<1> QED BY <1>6 DEF StartsWith, k

\* A whole list is as good as an answer after the client has narrowed it.
LEMMA NarrowIs ==
  ASSUME world \in Worlds \cup {NoWorld}, NEW prefix \in AllNames, NEW letter \in Letters,
         NEW r \in CompletionList, r.whole, Fine(prefix, r),
         prefix # <<>> \/ site.kind = "import"
  PROVE  LET t == Append(prefix, letter)
         IN  Fine(t, [r EXCEPT !.items = Starting(r.items, t)])
<1> DEFINE t == Append(prefix, letter)
           new == [r EXCEPT !.items = Starting(r.items, t)]
           called == CalledBy(prefix)
           before == Fitting(called.names, prefix)
           after == Fitting(called.names, t)
<1>1. CalledBy(t) = called
  <2>1. prefix # <<>> => t[1] = prefix[1]
    <3>1. prefix # <<>> => 1 \in 1..Len(prefix)
      BY EmptySeq DEF AllNames
    <3> QED BY <3>1, AppendProperties DEF AllNames
  <2> HIDE DEF t
  <2>2. CASE prefix # <<>>
    BY <2>1, <2>2 DEF CalledBy
  <2>3. CASE site.kind = "import"
    BY <2>3 DEF CalledBy
  <2> QED BY <2>2, <2>3
<1>2. /\ IsFiniteSet(before) /\ Range(r.items) = before /\ Cardinality(before) <= called.limit
      /\ called.limit \in Nat
  <2>1. IsFiniteSet(before) /\ Range(r.items) = before /\ Cardinality(before) <= called.limit
    BY DEF Fine
  <2>2. \A names, limit, length : Call(names, limit, length).limit = limit
    BY DEF Call
  <2>3. \E names, length : \/ called = Call(names, CompletionLimit, length)
                           \/ called = Call(names, NarrowLimit, length)
    BY Zenon DEF CalledBy
  <2> QED BY <2>1, <2>2, <2>3, ConstantsAre
<1>3. new.whole = r.whole /\ new.items = Starting(r.items, t)
  BY DEF CompletionList
<1>4. Range(new.items) = Fitting(Range(r.items), t)
  <2>1. r.items \in Seq(AllNames)
    BY DEF CompletionList
  <2> HIDE DEF t
  <2> QED BY <1>3, <2>1, StartingIs
<1>5. after \subseteq before /\ Fitting(before, t) = after
  <2>1. \A n \in called.names : StartsWith(n, t) => StartsWith(n, prefix)
    <3>1. called.names \subseteq AllNames
      BY CalledNames
    <3> QED BY <3>1, StartsLonger
  <2> HIDE DEF t, called
  <2> QED BY <2>1 DEF Fitting
<1> HIDE DEF before, after, called, new, t
<1>6. Range(new.items) = after
  BY <1>2, <1>4, <1>5
<1>7. IsFiniteSet(after) /\ Cardinality(after) <= called.limit
  <2>1. IsFiniteSet(after) /\ Cardinality(after) <= Cardinality(before)
    BY <1>2, <1>5, FS_Subset
  <2>2. Cardinality(after) \in Nat /\ Cardinality(before) \in Nat
    BY <1>2, <2>1, FS_CardinalityType
  <2> QED BY <1>2, <2>1, <2>2
<1>8. Fitting(CalledBy(t).names, t) = after /\ CalledBy(t).limit = called.limit
  BY <1>1 DEF after, called
<1>9. Fine(t, new)
  BY <1>3, <1>6, <1>7, <1>8 DEF Fine
<1> QED BY <1>9 DEF t, new

CompletionInv ==
  /\ site \in Sites \cup {Nowhere} /\ world \in Worlds \cup {NoWorld}
  /\ typed \in AllNames /\ list \in CompletionList
  /\ site = Nowhere => typed = <<>> /\ ~list.whole
  /\ typed = <<>> /\ list.whole => site.kind = "import"
  /\ (site \in Sites /\ Judged(typed) /\ Hidden = {} /\ (typed # <<>> \/ list.whole)) => Fine(typed, list)

LEMMA SameSite ==
  ASSUME site' = site, world' = world
  PROVE  /\ \A p : Judged(p)' <=> Judged(p)
         /\ \A p, r : Fine(p, r)' <=> Fine(p, r)
         /\ Hidden' = Hidden
<1>1. \A i, kind : Is(i, kind)' <=> Is(i, kind)
  BY DEF Is
<1>2. \A kinds, from : Nearest(kinds, from)' = Nearest(kinds, from)
  BY DEF Nearest
<1>3. Option' = Option /\ (InClass' <=> InClass)
  BY <1>1, <1>2 DEF Option, InClass
<1>4. InValue' <=> InValue
  BY <1>1, <1>3 DEF InValue
<1>5. \A from, name : CallableFrom(from, name)' = CallableFrom(from, name)
  BY <1>1, <1>2 DEF CallableFrom
<1>6. Visible' = Visible
  BY DEF Visible, VisibleAt
<1>7. \A callable : OptionsOf(callable)' = OptionsOf(callable)
  BY <1>6 DEF OptionsOf
<1>8. \A callable, option : ValuesNamed(callable, option)' = ValuesNamed(callable, option)
  BY <1>7 DEF ValuesNamed
<1>9. \A types : LocalNames(types)' = LocalNames(types) /\ RecordNames(types)' = RecordNames(types)
  BY <1>6 DEF LocalNames, RecordNames
<1>10. \A p : CalledBy(p)' = CalledBy(p)
  BY <1>3, <1>4, <1>5, <1>7, <1>8, <1>9 DEF CalledBy
<1>11. \A p, r : Fine(p, r)' <=> Fine(p, r)
  BY <1>10 DEF Fine
<1>12. \A p : Judged(p)' <=> Judged(p)
  BY <1>1, <1>2 DEF Judged, InItsHead
<1>13. Hidden' = Hidden
  BY <1>6 DEF Hidden
<1> QED BY <1>11, <1>12, <1>13

LEMMA CompletionStarts == CompletionInit => CompletionInv
<1> SUFFICES ASSUME CompletionInit PROVE CompletionInv
  OBVIOUS
<1>1. <<>> \in Seq(Letters) /\ <<>> \in Seq(AllNames)
  BY EmptySeq
<1>2. list.whole = FALSE /\ list \in CompletionList
  BY <1>1 DEF CompletionInit, NoList, CompletionList
<1> QED BY <1>1, <1>2 DEF CompletionInit, CompletionInv, AllNames

LEMMA CompletionStep == CompletionInv /\ [CompletionNext]_completionVars => CompletionInv'
<1> SUFFICES ASSUME CompletionInv, [CompletionNext]_completionVars PROVE CompletionInv'
  OBVIOUS
<1>0. /\ world \in Worlds \cup {NoWorld} /\ typed \in AllNames /\ list \in CompletionList
      /\ site \in Sites \cup {Nowhere}
  BY DEF CompletionInv
<1>1. CASE Enter
  <2>1. typed' = <<>> /\ ~list'.whole
    BY <1>1 DEF Enter, CompletionInv
  <2>2. site' \in Sites /\ world' \in Worlds /\ typed' \in AllNames /\ list' \in CompletionList
    BY <1>0, <1>1 DEF Enter
  <2> QED BY <2>1, <2>2 DEF CompletionInv
<1>2. ASSUME site \in Sites, site' = site, world' = world, typed' \in AllNames,
             list' = CompletionResponse(typed')
      PROVE  CompletionInv'
  <2>1. list' \in CompletionList
    BY <1>0, <1>2, ResponseType
  <2>2. typed' = <<>> /\ list'.whole => site'.kind = "import"
    <3> SUFFICES ASSUME typed' = <<>>, site.kind # "import" PROVE ~list'.whole
      BY <1>2
    <3>1. list' = NoList
      BY <1>2 DEF CompletionResponse
    <3> QED BY <3>1 DEF NoList
  <2>3. Judged(typed') /\ Hidden = {} => Fine(typed', list')
    BY <1>0, <1>2, ResponseIs
  <2>4. Judged(typed)' /\ Hidden' = {} => Fine(typed, list)'
    BY <1>2, <2>3, SameSite
  <2>5. site # Nowhere
    BY <1>2, CompletionAssumption DEF Nowhere
  <2> QED BY <1>0, <1>2, <2>1, <2>2, <2>4, <2>5 DEF CompletionInv
<1>3. ASSUME NEW letter \in Letters, Ask(letter) PROVE CompletionInv'
  <2>1. site \in Sites /\ site' = site /\ world' = world /\ list' = CompletionResponse(typed')
    BY <1>0, <1>3 DEF Ask, CanType
  <2>2. typed' \in AllNames
    BY <1>0, <1>3, AppendProperties DEF Ask, AllNames
  <2> QED BY <1>2, <2>1, <2>2
<1>4. CASE AskAtOnce
  <2>1. site \in Sites /\ site' = site /\ world' = world /\ typed' \in AllNames
        /\ list' = CompletionResponse(typed')
    BY <1>0, <1>4 DEF AskAtOnce
  <2> QED BY <1>2, <2>1
<1>5. ASSUME NEW letter \in Letters, Narrow(letter) PROVE CompletionInv'
  <2>1. /\ site \in Sites /\ site' = site /\ world' = world /\ list.whole
        /\ typed' = Append(typed, letter)
        /\ list' = [list EXCEPT !.items = Starting(list.items, typed')]
    BY <1>0, <1>5 DEF Narrow, CanType
  <2>2. typed' \in AllNames /\ typed' # <<>>
    BY <1>0, <2>1, AppendProperties DEF AllNames
  <2>3. list' \in CompletionList
    <3>1. Starting(list.items, typed') \in Seq(AllNames)
      <4>1. list.items \in Seq(AllNames)
        BY <1>0 DEF CompletionList
      <4> QED BY <4>1, StartingIs
    <3> QED BY <1>0, <2>1, <3>1 DEF CompletionList
  <2>4. typed # <<>> \/ site.kind = "import"
    BY <2>1 DEF CompletionInv
  <2>5. Judged(typed') => Judged(typed)
    <3>1. typed # <<>> => typed'[1] = typed[1]
      <4>1. typed # <<>> => 1 \in 1..Len(typed)
        BY <1>0, EmptySeq DEF AllNames
      <4> QED BY <1>0, <2>1, <4>1, AppendProperties DEF AllNames
    <3>2. CASE site.kind = "import"
      BY <3>2 DEF Judged
    <3>3. CASE site.kind # "import"
      BY <2>4, <3>1, <3>3 DEF Judged, InItsHead
    <3> QED BY <3>2, <3>3
  <2>6. Judged(typed') /\ Hidden = {} => Fine(typed', list')
    <3> SUFFICES ASSUME Judged(typed'), Hidden = {} PROVE Fine(typed', list')
      OBVIOUS
    <3>1. Fine(typed, list)
      BY <2>1, <2>5 DEF CompletionInv
    <3> QED BY <1>0, <2>1, <2>4, <3>1, NarrowIs
  <2>7. Judged(typed)' /\ Hidden' = {} => Fine(typed, list)'
    BY <2>1, <2>6, SameSite
  <2>8. site # Nowhere
    BY <2>1, CompletionAssumption DEF Nowhere
  <2> QED BY <1>0, <2>1, <2>2, <2>3, <2>7, <2>8 DEF CompletionInv
<1>6. CASE UNCHANGED completionVars
  <2>1. site' = site /\ world' = world /\ typed' = typed /\ list' = list
    BY <1>6 DEF completionVars
  <2>2. (Judged(typed)' <=> Judged(typed)) /\ (Fine(typed, list)' <=> Fine(typed, list)) /\ Hidden' = Hidden
    BY <2>1, SameSite
  <2> QED BY <2>1, <2>2 DEF CompletionInv
<1> QED BY <1>1, <1>3, <1>4, <1>5, <1>6 DEF CompletionNext

\* At whatever site, over whatever names and with whatever limits, a list that is said
\* to be whole holds every name that can follow what is typed, and lists are incomplete
\* exactly where there are more names than may be shown, however the client has asked
\* and narrowed before.
THEOREM ListsAlwaysWhole == CompletionSpec => []ListsAreWhole
<1>1. CompletionInv => ListsAreWhole
  <2> SUFFICES ASSUME CompletionInv, typed # <<>>, site.kind # "string", Hidden = {}, ~InItsHead(typed)
               PROVE  LET called == CalledFor
                          fitting == {n \in called.names : StartsWith(n, typed)}
                      IN  /\ Range(list.items) \subseteq fitting
                          /\ list.whole => fitting \subseteq Range(list.items)
                          /\ Len(typed) >= called.length =>
                               (list.whole <=> Cardinality(fitting) <= called.limit)
    BY DEF ListsAreWhole, InItsHead
  <2>1. site \in Sites
    BY DEF CompletionInv
  <2>2. Judged(typed)
    BY <2>1, CompletionAssumption DEF Judged
  <2>3. Fine(typed, list)
    BY <2>1, <2>2 DEF CompletionInv
  <2> QED BY <2>3, CalledForIs DEF Fine, Fitting
<1> QED BY <1>1, CompletionStarts, CompletionStep, PTL DEF CompletionSpec
=============================================================================
