---------------------------- MODULE WorkspaceIndex ----------------------------
(***************************************************************************)
(* The cross-file navigation index, src/src/workspace_index.rs.            *)
(*                                                                         *)
(* Three maps from names to the locations that define, implement or        *)
(* declare them, a map from files to the names they contributed, which is  *)
(* what remove_file walks, and a map from files to their outline symbols.  *)
(* A DashMap is a function whose domain is its keys; a Vec of locations is *)
(* a set, because every location of a file is distinct and only the order  *)
(* of answers depends on the order of a Vec.                               *)
(*                                                                         *)
(* An action is one call.  Calls do not overlap: scan runs to its end      *)
(* inside initialize, before any handler, and the handlers run on one task *)
(* and do not suspend between the updates of the maps.                     *)
(***************************************************************************)
EXTENDS SourceFacts

CONSTANT Uris

VARIABLES definitionsByName, implementationsByName, methodDeclarationsByName,
          namesByFile, symbolsByFile

indexVars == <<definitionsByName, implementationsByName,
               methodDeclarationsByName, namesByFile, symbolsByFile>>

DefLocation ==
  [uri : Uris, range : Spans, token : Tokens, declares : BOOLEAN]
\* Only an installation can need a declaration of its method elsewhere.
ImplementationLocation ==
  {l \in [uri : Uris, range : Spans, kind : {"Lambda", "Method"},
          needs : BOOLEAN] : l.needs => l.kind = "Method"}
DeclarationLocation == [uri : Uris]

\* A map from some of the keys K to values in V.
IsMap(map, K, V) == DOMAIN map \subseteq K /\ map \in [DOMAIN map -> V]

IndexTypeOK ==
  /\ IsMap(definitionsByName, Names, SUBSET DefLocation)
  /\ IsMap(implementationsByName, Names, SUBSET ImplementationLocation)
  /\ IsMap(methodDeclarationsByName, Names, SUBSET DeclarationLocation)
  /\ IsMap(namesByFile, Uris, SUBSET Names)
  /\ IsMap(symbolsByFile, Uris, SUBSET [name : Names, range : Spans])

-----------------------------------------------------------------------------
(* Updating one map. *)

At(map, key) == IF key \in DOMAIN map THEN map[key] ELSE {}

\* Mutant: nothing is dropped.
RetainAll(map, uri, names) == map

\* Drop the entries of `uri` under the given names, then the names left with
\* no entry at all.
Retain(map, uri, names) ==
  LET kept(n) == IF n \in names THEN {l \in map[n] : l.uri # uri} ELSE map[n]
  IN  [n \in {m \in DOMAIN map : m \in names => kept(m) # {}} |-> kept(n)]

\* entry(name).or_default().push(location), for every <<name, location>>.
Push(map, entries) ==
  [n \in DOMAIN map \cup {e[1] : e \in entries} |->
     At(map, n) \cup {e[2] : e \in {x \in entries : x[1] = n}}]

Without(map, key) == [k \in DOMAIN map \ {key} |-> map[k]]

\* `map` with one more key.
With(map, key, value) ==
  [k \in DOMAIN map \cup {key} |-> IF k = key THEN value ELSE map[k]]

-----------------------------------------------------------------------------
(* Operations. *)

\* remove_file: the outline goes first; a file with no recorded names has
\* nothing in the maps keyed by name.
RemoveFile(uri) ==
  LET names == At(namesByFile, uri)
  IN  /\ symbolsByFile' = Without(symbolsByFile, uri)
      /\ namesByFile' = Without(namesByFile, uri)
      /\ definitionsByName' = Retain(definitionsByName, uri, names)
      /\ implementationsByName' = Retain(implementationsByName, uri, names)
      /\ methodDeclarationsByName' =
           Retain(methodDeclarationsByName, uri, names)

\* index_file: remove_file, then record the facts of the new text.  A file
\* that contributes no name leaves no entry in namesByFile, one with an empty
\* outline none in symbolsByFile.
IndexFile(uri, text) ==
  LET names == At(namesByFile, uri)
  IN  /\ definitionsByName' =
           Push(Retain(definitionsByName, uri, names),
                DefinitionEntries(uri, text))
      /\ implementationsByName' =
           Push(Retain(implementationsByName, uri, names),
                ImplementationEntries(uri, text))
      /\ methodDeclarationsByName' =
           Push(Retain(methodDeclarationsByName, uri, names),
                DeclarationEntries(uri, text))
      /\ namesByFile' =
           IF NamesOf(text) = {} THEN Without(namesByFile, uri)
           ELSE With(namesByFile, uri, NamesOf(text))
      /\ symbolsByFile' =
           IF WorkspaceSymbols(text) = {} THEN Without(symbolsByFile, uri)
           ELSE With(symbolsByFile, uri, WorkspaceSymbols(text))

\* One file of scan: a file that is already known by a name is left alone, so
\* a file under two roots is read once.
ScanFile(uri, text) ==
  IF uri \in DOMAIN namesByFile THEN UNCHANGED indexVars
  ELSE IndexFile(uri, text)

IndexInit ==
  /\ definitionsByName = [n \in {} |-> {}]
  /\ implementationsByName = [n \in {} |-> {}]
  /\ methodDeclarationsByName = [n \in {} |-> {}]
  /\ namesByFile = [u \in {} |-> {}]
  /\ symbolsByFile = [u \in {} |-> {}]

IndexNext ==
  \E uri \in Uris :
    \/ RemoveFile(uri)
    \/ \E text \in Texts : IndexFile(uri, text)
    \/ \E text \in Texts : ScanFile(uri, text)

IndexSpec == IndexInit /\ [][IndexNext]_indexVars

-----------------------------------------------------------------------------
(* Queries. *)

\* What the document that asks is answered: entries of other files, as places.
Others(name, exclude) ==
  {l \in At(definitionsByName, name) : l.uri # exclude}

Locations(found) == {[uri |-> l.uri, range |-> l.range] : l \in found}

Declarations(name, exclude) ==
  Locations({l \in Others(name, exclude) : l.declares})

Definitions(name, exclude) == Locations(Others(name, exclude))

TypeDefinitions(name, exclude) ==
  Locations({l \in Others(name, exclude) : l.token \in ClassTokens})

IsDefined(name) == name \in DOMAIN definitionsByName

\* Mutant: any file's declaration will do.
HasAnyDeclaration(name, exclude) == At(methodDeclarationsByName, name) # {}

HasMethodDeclaration(name, exclude) ==
  \E l \in At(methodDeclarationsByName, name) : l.uri # exclude

Implementations(name, kind, exclude) ==
  Locations({l \in At(implementationsByName, name) :
               /\ l.uri # exclude
               /\ l.kind = kind
               /\ l.needs => HasMethodDeclaration(name, l.uri)})

\* matching_symbols for the names a query matches.
MatchingSymbols(matches) ==
  UNION {{<<u, s>> : s \in {t \in symbolsByFile[u] : t.name \in matches}} :
           u \in DOMAIN symbolsByFile}

-----------------------------------------------------------------------------
(* Properties. *)

\* The entries of `uri` in a map keyed by name.
Entries(map, uri) ==
  UNION {{<<n, l>> : l \in {m \in map[n] : m.uri = uri}} : n \in DOMAIN map}

\* The index holds for `uri` exactly the facts of `text`; it holds nothing.
FiledAs(uri, text) ==
  /\ Entries(definitionsByName, uri) = DefinitionEntries(uri, text)
  /\ Entries(implementationsByName, uri) = ImplementationEntries(uri, text)
  /\ Entries(methodDeclarationsByName, uri) = DeclarationEntries(uri, text)
  /\ At(symbolsByFile, uri) = WorkspaceSymbols(text)

NotFiled(uri) ==
  /\ Entries(definitionsByName, uri) = {}
  /\ Entries(implementationsByName, uri) = {}
  /\ Entries(methodDeclarationsByName, uri) = {}
  /\ At(symbolsByFile, uri) = {}

\* Whatever a file has in a map keyed by name stands under a name that
\* namesByFile holds for it: remove_file walks nothing else, so an entry
\* under any other name would stay in the index for good.
EntriesAreWalked ==
  \A uri \in Uris :
    \A map \in {definitionsByName, implementationsByName,
                methodDeclarationsByName} :
      \A e \in Entries(map, uri) : e[1] \in At(namesByFile, uri)

\* No name keeps an empty list of locations: is_defined only asks whether the
\* name is a key, and answers it for rename, references and highlighting.
NoEmptyNames ==
  \A map \in {definitionsByName, implementationsByName,
              methodDeclarationsByName} :
    \A n \in DOMAIN map : map[n] # {}

\* What the index holds for each file, map by map.
Filed ==
  [uri \in Uris |->
    [definitions     |-> Entries(definitionsByName, uri),
     implementations |-> Entries(implementationsByName, uri),
     declarations    |-> Entries(methodDeclarationsByName, uri),
     symbols         |-> At(symbolsByFile, uri)]]

\* The index is an implementation of "a set of facts for each file".
Promise == INSTANCE FileFacts WITH facts <- Filed
IsFileFacts == Promise!Spec

\* is_defined, definitions and implementations answer from the facts of the files
\* alone.  In particular a method installation is offered exactly when another file declares the
\* method, whatever the order the two files were indexed in.
QueriesAgree ==
  \A n \in Names :
    /\ IsDefined(n) <=> Promise!Defined(n)
    /\ \A exclude \in Uris :
         /\ Definitions(n, exclude) = Promise!DefinitionsOf(n, exclude)
         /\ \A kind \in {"Lambda", "Method"} :
              Implementations(n, kind, exclude)
                = Promise!ImplementationsOf(n, kind, exclude)

=============================================================================
