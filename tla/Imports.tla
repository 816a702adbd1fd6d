------------------------------- MODULE Imports -------------------------------
(***************************************************************************)
(* The registry of one text, read from its start: expressions that import  *)
(* packages, one after the other or one inside another's arguments, and    *)
(* the global names the text defines between them.                         *)
(***************************************************************************)
EXTENDS Registry

VARIABLES opened,    \* the imports being read, outermost first
          place,     \* where the reading is
          defined    \* where a name of the file is defined last, 0 nowhere

importVars == <<registrations, opened, place, defined>>

ImportsInit ==
  /\ registrations = AtStart
  /\ opened = <<>> /\ place = 1
  /\ defined = [n \in ExportedNames |-> 0]

\* collect_imported_packages_in_tree meets the application when it begins and
\* has its end; here the end is known when the reading gets there, and the
\* registration is made in the place that was kept for it.
OpenImport(package) ==
  /\ place < EndOfText
  /\ Len(registrations) + Len(opened) < Len(Baseline) + MaxImports
  /\ opened' = Append(opened, [package |-> package, at |-> Len(registrations)])
  /\ place' = place + 1
  /\ UNCHANGED <<registrations, defined>>

\* The application ends and its package is registered, before those inside it.
CloseImport ==
  /\ opened # <<>> /\ place <= EndOfText
  /\ LET last == opened[Len(opened)]
         before == SubSeq(registrations, 1, last.at)
         inside == SubSeq(registrations, last.at + 1, Len(registrations))
     IN  registrations' = Registered(before, last.package, place) \o inside
  /\ opened' = SubSeq(opened, 1, Len(opened) - 1)
  /\ place' = place + 1
  /\ UNCHANGED defined

Define(name) ==
  /\ opened = <<>> /\ place < EndOfText
  /\ defined' = [defined EXCEPT ![name] = place]
  /\ place' = place + 1
  /\ UNCHANGED <<registrations, opened>>

ImportsNext ==
  \/ \E package \in DOMAIN Catalog : OpenImport(package)
  \/ CloseImport
  \/ \E name \in ExportedNames : Define(name)

ImportsSpec == ImportsInit /\ [][ImportsNext]_importVars

-----------------------------------------------------------------------------
(* Properties. *)

\* Two ways to look a name up agree everywhere in the text: resolving it
\* (registration_for_name_at) and taking the first of the listed records that
\* has it (records_by_precedence_at, which completion offers from).
LookupTakesTheFirstListed ==
  \A name \in ExportedNames, position \in 1..place :
    LET listed == Precedence(position)
        having == {k \in DOMAIN listed : name \in DOMAIN Catalog[listed[k]]}
    IN  ObjectAt(name, position) =
          IF having = {} THEN NoObject
          ELSE Catalog[listed[CHOOSE k \in having : \A l \in having : k <= l]][name]

\* Imports one inside another are registered before they take effect.
InTextOrder ==
  \A i, j \in DOMAIN registrations : i < j => registrations[i].from <= registrations[j].from

\* A name means what was included or defined last before the place where it is
\* used (shadows_source, source_binding_is_visible), and what an import brings
\* stays until something else brings the name.  Imports inside the arguments of
\* others are left out: there the outer one, included last, is passed over.
LastOneNamesIt ==
  InTextOrder =>
  \A name \in ExportedNames, position \in 1..place :
    LET after == {i \in DOMAIN registrations :
                    /\ name \in DOMAIN Catalog[registrations[i].package]
                    /\ registrations[i].from \in (defined[name] + 1)..position}
    IN  /\ ShadowsSource(name, defined[name], position) = (after # {})
        /\ after # {} =>
             \E i \in after :
               /\ \A j \in after : registrations[j].from <= registrations[i].from
               /\ ObjectAt(name, position) = Catalog[registrations[i].package][name]

\* What a name means at a place is one thing however it is asked: both of the above.
NamesAreResolved == LookupTakesTheFirstListed /\ LastOneNamesIt
=============================================================================
