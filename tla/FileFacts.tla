------------------------------ MODULE FileFacts ------------------------------
(***************************************************************************)
(* What a workspace index promises.  Each file has a set of global facts,  *)
(* replaced as a whole when the file is indexed and emptied when it is     *)
(* forgotten; a query looks a name up in the facts of every file.  There   *)
(* are no maps keyed by name here and nothing to keep consistent:          *)
(* WorkspaceIndex implements this specification with five maps.            *)
(***************************************************************************)
EXTENDS SourceFacts

CONSTANT Uris

VARIABLE facts   \* [Uris -> the facts each file contributes]

NoFacts ==
  [definitions |-> {}, implementations |-> {}, declarations |-> {},
   symbols |-> {}]

FactsOf(uri, text) ==
  [definitions     |-> DefinitionEntries(uri, text),
   implementations |-> ImplementationEntries(uri, text),
   declarations    |-> DeclarationEntries(uri, text),
   symbols         |-> WorkspaceSymbols(text)]

Init == facts = [u \in Uris |-> NoFacts]

Replace(uri, text) == facts' = [facts EXCEPT ![uri] = FactsOf(uri, text)]
Forget(uri)        == facts' = [facts EXCEPT ![uri] = NoFacts]

Next == \E uri \in Uris : Forget(uri) \/ \E text \in Texts : Replace(uri, text)

Spec == Init /\ [][Next]_facts

-----------------------------------------------------------------------------
(* Queries.  `exclude` is the document that asks: its own live analysis is  *)
(* consulted before the index.                                              *)

Defined(name) == \E u \in Uris : \E d \in facts[u].definitions : d[1] = name

DefinitionsOf(name, exclude) ==
  UNION {{[uri |-> u, range |-> d[2].range] :
            d \in {e \in facts[u].definitions : e[1] = name}} :
           u \in Uris \ {exclude}}

DeclaredElsewhere(name, uri) ==
  \E v \in Uris \ {uri} : \E d \in facts[v].declarations : d[1] = name

ImplementationsOf(name, kind, exclude) ==
  UNION {{[uri |-> u, range |-> i[2].range] :
            i \in {j \in facts[u].implementations :
                     /\ j[1] = name
                     /\ j[2].kind = kind
                     /\ j[2].needs => DeclaredElsewhere(name, u)}} :
           u \in Uris \ {exclude}}

=============================================================================
