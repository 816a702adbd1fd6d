------------------------------- MODULE Dispatch -------------------------------
(***************************************************************************)
(* Which methods a call may run, when all that is known of its arguments   *)
(* is a range each: the dispatch of src/src/analysis/typechecker.rs and    *)
(* the method tables of src/src/analysis.rs.                               *)
(*                                                                         *)
(* A signature is a record with a domain, a sequence of identities.  An    *)
(* identity is a type or another object, which only matches itself.  A     *)
(* table is a function to signatures, and a method is its index there.     *)
(***************************************************************************)
EXTENDS Types, Sequences

CONSTANTS MaxProducts,   \* MAX_DISPATCH_PRODUCTS, 256
          Unspecified    \* the codomain of a method that does not say it

ASSUME DispatchAssumption == MaxProducts \in Nat

\* dispatch_identity_matches.
IdentityMatches(actual, expected) ==
  \/ actual = expected
  \/ expected \in Known /\ IsSubtype(actual, expected)

\* dispatch_domain_matches: every slot accepts what is passed.
DomainMatches(domain, actual) ==
  /\ DOMAIN domain = DOMAIN actual
  /\ \A i \in DOMAIN domain : IdentityMatches(actual[i], domain[i])

\* dispatch_domain_strictly_smaller.
StrictlySmaller(smaller, bigger) == smaller # bigger /\ DomainMatches(bigger, smaller)

\* The methods of least domain among those that accept the arguments.
Chosen(table, actual) ==
  LET matching == {i \in DOMAIN table : DomainMatches(table[i].domain, actual)}
  IN  {i \in matching : \A j \in matching :
                          ~StrictlySmaller(table[j].domain, table[i].domain)}

-----------------------------------------------------------------------------
(* From ranges to methods. *)

\* A DispatchRange: one identity, or a type with everything below it.
Alternatives(range) ==
  [upward : {FALSE}, id : range.exact] \cup [upward : {TRUE}, id : range.generators]

\* dispatch_intersection_witness: is there one, and which?
SlotMeets(alternative, expected) ==
  IF alternative.upward
  THEN /\ expected \in Known
       /\ IsSubtype(expected, alternative.id) \/ IsSubtype(alternative.id, expected)
  ELSE IdentityMatches(alternative.id, expected)

\* Mutant: the cone's own type stands for the part the slot accepts.
SlotWitnessTop(alternative, expected) == alternative.id

SlotWitness(alternative, expected) ==
  IF alternative.upward /\ IsSubtype(expected, alternative.id) THEN expected
  ELSE alternative.id

\* inferred_dispatch_products: one alternative for every argument.
Products(arguments) ==
  {product \in [DOMAIN arguments ->
                  UNION {Alternatives(arguments[i]) : i \in DOMAIN arguments}] :
     \A i \in DOMAIN arguments : product[i] \in Alternatives(arguments[i])}

\* resolve_dispatch_identity_at: a type the source has not declared yet is unknown.
Resolves(range) == (range.exact \cup range.generators) \cap SourceTypes \subseteq Known

\* An identity without meaning at the place, or more products than the bound, unless
\* an argument before has no alternative.
GivesUp(arguments) ==
  \E n \in DOMAIN arguments :
    /\ \A i \in DOMAIN arguments : i <= n => arguments[i] # Diverges
    /\ \/ ~Resolves(arguments[n])
       \/ Cardinality(Products(SubSeq(arguments, 1, n))) > MaxProducts

WitnessesOf(domain, arguments) ==
  {[i \in DOMAIN arguments |-> SlotWitness(product[i], domain[i])] :
     product \in {p \in Products(arguments) :
                    \A i \in DOMAIN arguments : SlotMeets(p[i], domain[i])}}

Witnesses(table, arguments) ==
  UNION {WitnessesOf(table[k].domain, arguments) :
           k \in {j \in DOMAIN table : DOMAIN table[j].domain = DOMAIN arguments}}

WitnessCandidates(table, arguments) ==
  UNION {Chosen(table, witness) : witness \in Witnesses(table, arguments)}

\* dispatch_candidate_indices.
Candidates(table, arguments) ==
  IF GivesUp(arguments)
  THEN {i \in DOMAIN table : DOMAIN table[i].domain = DOMAIN arguments}
  ELSE WitnessCandidates(table, arguments)

\* What the candidates stand for: the methods some arguments in the ranges run.
Concrete(arguments) ==
  {actual \in [DOMAIN arguments ->
                 UNION {arguments[i].exact \cup Denoted(arguments[i]) :
                          i \in DOMAIN arguments}] :
     \A i \in DOMAIN arguments : Contains(arguments[i], actual[i])}

Runnable(table, arguments) ==
  UNION {Chosen(table, actual) : actual \in Concrete(arguments)}

-----------------------------------------------------------------------------
(* Method tables. *)

\* Mutant: the first of every domain.
EffectiveFirst(installed) ==
  {i \in DOMAIN installed :
     \A j \in DOMAIN installed : j < i => installed[j].domain # installed[i].domain}

\* method_installations_for_at, of the installations at or before a position:
\* the last of every domain.
Effective(installed) ==
  {i \in DOMAIN installed :
     \A j \in DOMAIN installed : j > i => installed[j].domain # installed[i].domain}

\* effective_external_candidate_indices: of the candidates of one domain those
\* that say their codomain, and the first of them when none does.
PreferExplicit(table, candidates) ==
  {i \in candidates :
     LET same == {j \in candidates : table[j].domain = table[i].domain}
         explicit == {j \in same : table[j].codomain # Unspecified}
     IN  IF explicit = {} THEN \A j \in same : i <= j ELSE i \in explicit}
=============================================================================
