------------------------------- MODULE Registry -------------------------------
(***************************************************************************)
(* The objects a source can name: the packages of the catalogue, those     *)
(* loaded from the start and those the source imports, each from the place *)
(* in the text where its import ends (src/src/object_registry.rs,          *)
(* src/src/package_index.rs).                                              *)
(*                                                                         *)
(* A position is a number, 0 for what is effective everywhere.  Imports    *)
(* are registered in the order the syntax tree is walked, an application   *)
(* before what it contains, so one inside another's arguments is           *)
(* registered after it and takes effect before it.                         *)
(***************************************************************************)
EXTENDS Sequences, FiniteSets, Integers

CONSTANTS Catalog,     \* what every package of the catalogue exports, by name
          Baseline,    \* default_loaded, in order
          NoObject,
          EndOfText, MaxImports   \* bounds

ASSUME RegistryAssumption ==
  /\ Baseline \in Seq(DOMAIN Catalog)
  /\ \A p \in DOMAIN Catalog : NoObject \notin {Catalog[p][n] : n \in DOMAIN Catalog[p]}
  /\ EndOfText \in Nat /\ MaxImports \in Nat

VARIABLE registrations    \* packages, in the order they were registered

ExportedNames == UNION {DOMAIN Catalog[p] : p \in DOMAIN Catalog}

\* register_package: a package of the baseline is registered once, an import
\* every time, and one the catalogue does not know not at all.
Registered(list, package, from) ==
  IF \/ package \notin DOMAIN Catalog
     \/ from = 0 /\ \E i \in DOMAIN list : list[i] = [package |-> package, from |-> 0]
  THEN list
  ELSE Append(list, [package |-> package, from |-> from])

\* from_index: the baseline in its order.
AtStart == [i \in DOMAIN Baseline |-> [package |-> Baseline[i], from |-> 0]]

Import(package, from) == registrations' = Registered(registrations, package, from)

\* PackageRegistration::is_effective_at.
EffectiveAt(position) ==
  {i \in DOMAIN registrations : registrations[i].from <= position}

\* Mutant: the first registration that has the name.
RegistrationForFirst(name, position) ==
  LET having == {i \in EffectiveAt(position) :
                   name \in DOMAIN Catalog[registrations[i].package]}
  IN  IF having = {} THEN 0 ELSE CHOOSE i \in having : \A j \in having : i <= j

\* registration_for_name_at: the last registration that has the name, or 0.
RegistrationFor(name, position) ==
  LET having == {i \in EffectiveAt(position) :
                   name \in DOMAIN Catalog[registrations[i].package]}
  IN  IF having = {} THEN 0 ELSE CHOOSE i \in having : \A j \in having : j <= i

\* object_id_at.
ObjectAt(name, position) ==
  LET i == RegistrationFor(name, position)
  IN  IF i = 0 THEN NoObject ELSE Catalog[registrations[i].package][name]

\* ObjectRegistryView::shadows_source: what a name of the file means comes from
\* a package that was included after the file defined the name.
ShadowsSource(name, defined, position) ==
  LET i == RegistrationFor(name, position)
  IN  i # 0 /\ registrations[i].from > defined

\* records_by_precedence_at: the packages, the last registered first, each once.
Precedence(position) ==
  LET latest == {i \in EffectiveAt(position) :
                   \A j \in EffectiveAt(position) :
                     j > i => registrations[j].package # registrations[i].package}
  IN  [k \in 1..Cardinality(latest) |->
         registrations[CHOOSE i \in latest :
                         Cardinality({j \in latest : j >= i}) = k].package]
=============================================================================
