------------------------------- MODULE MC_Types -------------------------------
(* The machines behind the types and the names of a file, each on an instance *)
(* of its own: one moves while the others are as they were at the start.      *)
EXTENDS MethodTable, Imports, Corpus, Completion, TLC

LOCAL Samples == INSTANCE SampleNames

CONSTANTS Thing, ZZ, Ring, Other, T, o, None,   \* types and an object of a source
          Core, Pkg, Gone, x, f, g        \* packages and names

-----------------------------------------------------------------------------
(* Two trees of types, one with a fork, and one type the source declares. *)

MCBaseUp == [t \in {Thing, ZZ, Ring, Other} |->
               IF t = Other THEN {Other} ELSE {Thing, t}]
MCDomains == {<<ZZ>>, <<Ring>>, <<Thing>>, <<T>>, <<Thing, ZZ>>, <<T, Thing>>,
              <<o, Ring>>}

(* Two packages that export a name each way, and a third of their own. *)

MCCatalog == (Core :> (x :> <<Core, x>>))
             @@ (Pkg :> (x :> <<Pkg, x>> @@ f :> <<Pkg, f>>))
             @@ (Gone :> (f :> <<Gone, f>>))

(* A corpus with a missing object, a bare name twice taken, an object where a *)
(* type is asked for, and aliases that are names of other records.            *)

Raw(id, kind, parent, aliases, codomains, domains) ==
  [id |-> id, kind |-> kind, parent |-> parent, aliases |-> aliases,
   codomains |-> codomains, domains |-> domains]
MCBaseline == <<Core>>
NoParent == Ref(Bare, NoType)
MCRawRecords ==
  {Raw(Ref(Core, Thing), "type", Ref(Core, Thing), {}, <<>>, <<>>),
   Raw(Ref(Core, T), "type", Ref(Bare, Thing), {}, <<>>, <<>>),
   Raw(Ref(Pkg, T), "type", Ref(Gone, x), {}, <<>>, <<>>),
   Raw(Ref(Core, x), "plain", NoParent, {f}, <<>>, <<>>),
   Raw(Ref(Core, f), "callable", NoParent, {x},
       <<Ref(Core, Thing), Ref(Bare, T)>>, <<Ref(Core, x), Ref(Bare, T)>>),
   Raw(Ref(Pkg, g), "callable", NoParent, {},
       <<Ref(Core, x), Ref(Bare, f)>>, <<Ref(Bare, x), Ref(Core, f), Ref(Pkg, T)>>)}

-----------------------------------------------------------------------------
(* Sites to complete a name at, and what there is to offer. *)

MCSites == Samples!CursorSites
MCWorlds == Samples!NameWorlds
MCKeywords == Samples!ControlWords
MCNoName == <<>>

-----------------------------------------------------------------------------
Init == TableInit /\ ImportsInit /\ CorpusInit /\ CompletionInit

NoTable == up = BaseUp /\ installed = <<>> /\ range = Diverges
NoImports == place = 1
NoCorpus == phase = "read" /\ lines = <<>>
NoCompletion == site = Nowhere

Next ==
  \/ /\ TableNext /\ NoImports /\ NoCorpus /\ NoCompletion
     /\ UNCHANGED <<importVars, corpusVars, completionVars>>
  \/ /\ ImportsNext /\ NoTable /\ NoCorpus /\ NoCompletion
     /\ UNCHANGED <<tableVars, corpusVars, completionVars>>
  \/ /\ CorpusNext /\ NoTable /\ NoImports /\ NoCompletion
     /\ UNCHANGED <<tableVars, importVars, completionVars>>
  \/ /\ CompletionNext /\ NoTable /\ NoImports /\ NoCorpus
     /\ UNCHANGED <<tableVars, importVars, corpusVars>>

Spec == Init /\ [][Next]_<<tableVars, importVars, corpusVars, completionVars>>
=============================================================================
