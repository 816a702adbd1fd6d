-------------------------------- MODULE Types --------------------------------
(***************************************************************************)
(* Nominal types and the sets of types inference works with:               *)
(* src/src/typesystem.rs and src/src/typesystem/type_range.rs.             *)
(*                                                                         *)
(* A type is known by its identity and by its ancestry, the path from the  *)
(* root down to it.  up[t] is that path as a set: two types are comparable *)
(* when the ancestry of one is a prefix of the other's, which is to say    *)
(* when one is in the path of the other.  The types the external registry  *)
(* knows are there from the start; one the source declares is added below  *)
(* its parent and never changes, because its identity is that of the       *)
(* binding state that declared it.                                         *)
(*                                                                         *)
(* A range is a set of single types and of cones, a cone being a type with *)
(* everything below it.  Types.tla says what a range is and how two are    *)
(* joined and met; MethodTable.tla builds ranges one insertion at a time,  *)
(* in any order, as the iteration over a hash set does.                    *)
(***************************************************************************)
EXTENDS FiniteSets, Integers

CONSTANTS BaseUp,        \* the ancestries of the types of the registry
          SourceTypes    \* identities the types of the source may take

\* up is the order of a forest on its domain.
IsForest(order) ==
  \A t \in DOMAIN order :
    /\ t \in order[t]
    /\ order[t] \subseteq DOMAIN order
    /\ \A a \in order[t] : /\ order[a] \subseteq order[t]
                           /\ t \in order[a] => a = t
                           /\ \A b \in order[t] : a \in order[b] \/ b \in order[a]

ASSUME TypesAssumption ==
  /\ IsForest(BaseUp)
  /\ BaseUp = [t \in DOMAIN BaseUp |-> BaseUp[t]]
  /\ SourceTypes \cap DOMAIN BaseUp = {}

VARIABLE up

Known == DOMAIN up

\* is_subtype_id: t is reached by climbing from sub.
IsSubtype(sub, t) == sub \in Known /\ t \in up[sub]

\* Mutant: the ancestry stops at the parent.
DeclareShortType(t, parent) ==
  /\ t \in SourceTypes \ Known
  /\ up' = [u \in Known \cup {t} |-> IF u = t THEN {t, parent} ELSE up[u]]

\* Type::from_id of a type declared below parent.
DeclareType(t, parent) ==
  /\ t \in SourceTypes \ Known
  /\ up' = [u \in Known \cup {t} |-> IF u = t THEN {t} \cup up[parent] ELSE up[u]]

-----------------------------------------------------------------------------
(* Ranges.  a <= b in the code reads: b is a itself or below it. *)

TypeRange == [exact : SUBSET Known, generators : SUBSET Known]

Diverges == [exact |-> {}, generators |-> {}]
ExactType(t) == [exact |-> {t}, generators |-> {}]
UpwardType(t) == [exact |-> {}, generators |-> {t}]

\* TypeRange::contains.
Contains(range, t) ==
  t \in range.exact \/ \E g \in range.generators : IsSubtype(t, g)

Denoted(range) == {t \in Known : Contains(range, t)}

InsertExact(range, point) ==
  IF Contains(range, point) THEN range
  ELSE [range EXCEPT !.exact = @ \cup {point}]

\* Mutant: the points the new cone covers stay.
InsertGeneratorOnly(range, g) ==
  IF \E existing \in range.generators : IsSubtype(g, existing) THEN range
  ELSE [exact |-> range.exact,
        generators |-> {e \in range.generators : ~IsSubtype(e, g)} \cup {g}]

InsertGenerator(range, g) ==
  IF \E existing \in range.generators : IsSubtype(g, existing) THEN range
  ELSE [exact |-> {p \in range.exact : ~IsSubtype(p, g)},
        generators |-> {e \in range.generators : ~IsSubtype(e, g)} \cup {g}]

\* What inserting all of points and then all of cones leaves, in any order:
\* the cones no other covers, and the points none covers.
Minimal(types) == {g \in types : \A h \in types : IsSubtype(g, h) => h = g}

Normal(points, cones) ==
  [exact |-> {p \in points : \A g \in cones : ~IsSubtype(p, g)},
   generators |-> Minimal(cones)]

\* BitOr.
Join(left, right) ==
  Normal(left.exact \cup right.exact, left.generators \cup right.generators)

\* BitAnd: the points both hold, and of two comparable cones the smaller one.
Meet(left, right) ==
  Normal({p \in left.exact : Contains(right, p)}
           \cup {p \in right.exact : Contains(left, p)},
         {g \in left.generators : \E h \in right.generators : IsSubtype(g, h)}
           \cup {g \in right.generators : \E h \in left.generators : IsSubtype(g, h)})

\* TypeRange::single: the one point or the one generator.
IsSingle(range) == Cardinality(range.exact) + Cardinality(range.generators) = 1
Single(range) == CHOOSE t \in range.exact \cup range.generators : TRUE

-----------------------------------------------------------------------------
(* Properties. *)

\* However the source declares its types, what is below what stays the order of
\* a forest, and the edges that were there stay: dispatch and the joins rest on
\* it (SourceTypeOrder::parent_type_id puts source edges before external ones).
Forest == IsForest(up)

=============================================================================
