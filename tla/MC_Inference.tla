----------------------------- MODULE MC_Inference -----------------------------
(* A registry with a package loaded from the start and one to import, a few   *)
(* names, and one type the program declares.                                  *)
EXTENDS Inference, TLC

CONSTANTS T, f, x, h, plus, cat, equals, Core, Pack, hObject, xObject,
          plusObject, spaceObject

MCBaseUp == [t \in {Thing, Type, Function, MethodFunction, FunctionClosure, Symbol, Nothing,
                    Boolean, ZZ} |->
               {Thing, t} \cup IF t \in {MethodFunction, FunctionClosure} THEN {Function} ELSE {}]
MCSourceTypes == {T}
MCCatalog ==
  (Core :> (h :> hObject @@ plus :> plusObject @@ Space :> spaceObject))
    @@ (Pack :> (x :> xObject))
MCBaseline == <<Core>>
MCObjectClass ==
  hObject :> MethodFunction @@ xObject :> Boolean @@ plusObject :> Symbol @@ spaceObject :> Symbol
MCCallables ==
  hObject :> [typical |-> ZZ,
              methods |-> <<[domain |-> <<Thing>>, codomain |-> Unspecified],
                            [domain |-> <<ZZ>>, codomain |-> Boolean]>>]
    @@ plusObject :> [typical |-> Unspecified,
                      methods |-> <<[domain |-> <<ZZ, ZZ>>, codomain |-> Unspecified],
                                    [domain |-> <<ZZ, ZZ>>, codomain |-> ZZ]>>]
    @@ spaceObject :> [typical |-> Unspecified,
                       methods |-> <<[domain |-> <<Function, Thing>>, codomain |-> Unspecified]>>]
MCComparisons == {equals}
MCOperators == {plus, cat, equals, Space}
MCNames == {f, x, T}
MCCopied == {f, x, h}
MCCalled == {f, x, h}
MCDomains ==
  f :> {<<T>>, <<Thing>>, <<ZZ>>} @@ x :> {<<Thing>>} @@ h :> {}
    @@ plus :> {<<Thing, ZZ>>} @@ cat :> {<<T, Thing>>}
    @@ equals :> {} @@ Space :> {}
MCAssigned == (f :> {"atom", "method", "lambda"}) @@ (x :> {"atom", "when", "new", "call"})
MCParents == {Thing}
MCCodomains == {Boolean}

\* The program and the registry of this run are as the theorems ask.
ASSUME SoundnessHypotheses ==
  OperatorsAgree /\ FunctionsApply /\ ComparisonsAreBoolean /\ NamesAreTheirOwn /\ KindsAreAnnounced
=============================================================================
