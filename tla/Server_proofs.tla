---------------------------- MODULE Server_proofs ----------------------------
(***************************************************************************)
(* Proofs about the index and about the server.  The index comes first:    *)
(* its inductive invariant is of IndexSpec, and its step lemmas say what   *)
(* each operation does to the index.  The inductive invariant of the       *)
(* server is ServerInv.                                                    *)
(***************************************************************************)
EXTENDS References, SequenceTheorems, TLAPS

-----------------------------------------------------------------------------
(* The facts of a text have the types of the index. *)

\* Every location that index_file files for a text names the file and has the
\* type of its map.
LEMMA EntryTypes ==
  ASSUME NEW uri \in Uris, NEW text \in Texts
  PROVE  /\ DefinitionEntries(uri, text) \subseteq Names \X DefLocation
         /\ ImplementationEntries(uri, text)
              \subseteq Names \X ImplementationLocation
         /\ DeclarationEntries(uri, text) \subseteq Names \X DeclarationLocation
         /\ NamesOf(text) \subseteq Names
         /\ WorkspaceSymbols(text) \subseteq [name : Names, range : Spans]
<1>1. /\ Analysis[text] \in AnalysisResult
      /\ Analysis[text].states \subseteq BindingState
      /\ Analysis[text].installations \subseteq Installation
      /\ Analysis[text].symbols \subseteq [name : Names, range : Spans]
  BY AnalysisAssumption DEF AnalysisResult
<1>2. \A d \in TopLevelDefinitions(text) :
        /\ d.name \in Names /\ d.range \in Spans /\ d.token \in Tokens
        /\ d.declares \in BOOLEAN
  <2>1. SUFFICES ASSUME NEW s \in TopLevelStates(text),
                        NEW d, d = [name |-> s.name, range |-> s.span,
                                    token |-> s.token,
                                    declares |-> s.span = s.range]
                 PROVE  /\ d.name \in Names /\ d.range \in Spans
                        /\ d.token \in Tokens /\ d.declares \in BOOLEAN
    BY Zenon DEF TopLevelDefinitions
  <2>2. s.name \in Names /\ s.span \in Spans /\ s.token \in Tokens
    BY <1>1 DEF TopLevelStates, BindingState
  <2>3. d.name = s.name /\ d.range = s.span /\ d.token = s.token
    BY <2>1, Zenon
  <2>4. d.declares = (s.span = s.range)
    BY <2>1, Zenon
  <2> QED BY <2>2, <2>3, <2>4, Zenon
<1>3. \A i \in TopLevelImplementations(text) :
        /\ i.name \in Names /\ i.range \in Spans
        /\ i.kind \in {"Lambda", "Method"} /\ i.needs \in BOOLEAN
        /\ i.needs => i.kind = "Method"
  <2>1. ASSUME NEW s \in {t \in TopLevelStates(text) : t.lambda}, NEW i,
               i = [name |-> s.name, range |-> s.span, kind |-> "Lambda",
                    needs |-> FALSE]
        PROVE  /\ i.name \in Names /\ i.range \in Spans
               /\ i.kind \in {"Lambda", "Method"} /\ i.needs \in BOOLEAN
               /\ i.needs => i.kind = "Method"
    BY <1>1, <2>1 DEF TopLevelStates, BindingState
  <2>2. ASSUME NEW j \in {k \in Analysis[text].installations :
                            k.scope = 0 /\ k.effect # "Rejected"}, NEW i,
               i = [name |-> j.head, range |-> j.span, kind |-> "Method",
                    needs |-> j.effect # "Effective"]
        PROVE  /\ i.name \in Names /\ i.range \in Spans
               /\ i.kind \in {"Lambda", "Method"} /\ i.needs \in BOOLEAN
               /\ i.needs => i.kind = "Method"
    <3>1. j.head \in Names /\ j.span \in Spans
      BY <1>1 DEF Installation
    <3>2. i.name = j.head /\ i.range = j.span /\ i.kind = "Method"
      BY <2>2, Zenon
    <3>3. i.needs = (j.effect # "Effective")
      BY <2>2, Zenon
    <3>4. i.needs \in BOOLEAN
      BY <3>3, Zenon
    <3> QED BY <3>1, <3>2, <3>4
  <2> QED BY <2>1, <2>2, Zenon DEF TopLevelImplementations
<1>4. TopLevelMethodDeclarations(text) \subseteq Names
  BY <1>1 DEF TopLevelMethodDeclarations, TopLevelStates, BindingState
<1>5. DefinitionEntries(uri, text) \subseteq Names \X DefLocation
  BY <1>2 DEF DefinitionEntries, DefLocation
<1>6. ImplementationEntries(uri, text) \subseteq Names \X ImplementationLocation
  BY <1>3 DEF ImplementationEntries, ImplementationLocation
<1>7. DeclarationEntries(uri, text) \subseteq Names \X DeclarationLocation
  BY <1>4 DEF DeclarationEntries, DeclarationLocation
<1>8. NamesOf(text) \subseteq Names
  BY <1>2, <1>3, <1>4 DEF NamesOf
<1> QED BY <1>1, <1>5, <1>6, <1>7, <1>8 DEF WorkspaceSymbols

\* The names recorded for a file are those of the locations filed for it.
LEMMA EntryNames ==
  ASSUME NEW uri \in Uris, NEW text \in Texts
  PROVE  /\ \A e \in DefinitionEntries(uri, text) :
              e[1] \in NamesOf(text) /\ e[2].uri = uri
         /\ \A e \in ImplementationEntries(uri, text) :
              e[1] \in NamesOf(text) /\ e[2].uri = uri
         /\ \A e \in DeclarationEntries(uri, text) :
              e[1] \in NamesOf(text) /\ e[2].uri = uri
  BY DEF DefinitionEntries, ImplementationEntries, DeclarationEntries, NamesOf

-----------------------------------------------------------------------------
(* Updates of one map keyed by name. *)

\* An entry of a file is a name and a location of that file under it.
LEMMA EntriesMeaning ==
  ASSUME NEW map, NEW uri
  PROVE  /\ \A e \in Entries(map, uri) :
              /\ e = <<e[1], e[2]>> /\ e[1] \in DOMAIN map
              /\ e[2] \in map[e[1]] /\ e[2].uri = uri
         /\ \A n \in DOMAIN map : \A l \in map[n] :
              l.uri = uri => <<n, l>> \in Entries(map, uri)
  BY DEF Entries

\* remove_file's retain keeps the locations in other files, and under a name
\* that is not walked every location; a walked name stays only with a location.
LEMMA RetainAt ==
  ASSUME NEW map, NEW uri, NEW names
  PROVE  /\ \A n \in DOMAIN Retain(map, uri, names) :
              /\ n \in DOMAIN map
              /\ \A l : l \in Retain(map, uri, names)[n]
                          <=> l \in map[n] /\ (n \in names => l.uri # uri)
              /\ n \in names => Retain(map, uri, names)[n] # {}
         /\ \A n \in DOMAIN map : \A l \in map[n] :
              (n \notin names \/ l.uri # uri)
                => n \in DOMAIN Retain(map, uri, names)
<1> DEFINE kept(n) == IF n \in names THEN {l \in map[n] : l.uri # uri}
                                     ELSE map[n]
           D == {m \in DOMAIN map : m \in names => kept(m) # {}}
<1>1. Retain(map, uri, names) = [n \in D |-> kept(n)]
  BY DEF Retain
<1>2. DOMAIN Retain(map, uri, names) = D
  BY <1>1
<1>3. \A n \in D : Retain(map, uri, names)[n] = kept(n)
  BY <1>1
<1>4. \A n, l : l \in kept(n) <=> l \in map[n] /\ (n \in names => l.uri # uri)
  OBVIOUS
<1>5. \A n \in DOMAIN map : \A l \in map[n] :
        (n \notin names \/ l.uri # uri) => n \in D
  OBVIOUS
<1>6. \A n \in D : n \in DOMAIN map /\ (n \in names => kept(n) # {})
  OBVIOUS
<1> HIDE DEF kept, D
<1> QED BY <1>2, <1>3, <1>4, <1>5, <1>6

LEMMA RetainMap ==
  ASSUME NEW map, NEW K, NEW L, IsMap(map, K, SUBSET L), NEW uri, NEW names
  PROVE  IsMap(Retain(map, uri, names), K, SUBSET L)
<1> DEFINE kept(n) == IF n \in names THEN {l \in map[n] : l.uri # uri}
                                     ELSE map[n]
           D == {m \in DOMAIN map : m \in names => kept(m) # {}}
<1>1. Retain(map, uri, names) = [n \in D |-> kept(n)]
  BY DEF Retain
<1>2. \A n \in D : n \in K /\ kept(n) \in SUBSET L
  BY DEF IsMap
<1> HIDE DEF D, kept
<1>3. [n \in D |-> kept(n)] \in [D -> SUBSET L]
  BY <1>2
<1>4. D \subseteq K
  BY <1>2
<1>5. DOMAIN Retain(map, uri, names) = D
  BY <1>1
<1> QED BY <1>1, <1>3, <1>4, <1>5 DEF IsMap

\* Pushing locations adds exactly these, each under its name.
LEMMA PushAt ==
  ASSUME NEW map, NEW entries, \A e \in entries : e = <<e[1], e[2]>>
  PROVE  /\ DOMAIN Push(map, entries) = DOMAIN map \cup {e[1] : e \in entries}
         /\ \A n \in DOMAIN Push(map, entries) :
              \A l : l \in Push(map, entries)[n]
                       <=> \/ n \in DOMAIN map /\ l \in map[n]
                           \/ <<n, l>> \in entries
<1> DEFINE D == DOMAIN map \cup {e[1] : e \in entries}
           new(n) == {e[2] : e \in {x \in entries : x[1] = n}}
<1>1. Push(map, entries) = [n \in D |-> At(map, n) \cup new(n)]
  BY DEF Push
<1>2. \A n, l : l \in new(n) <=> <<n, l>> \in entries
  OBVIOUS
<1>3. \A n, l : l \in At(map, n) <=> n \in DOMAIN map /\ l \in map[n]
  BY DEF At
<1> HIDE DEF D, new
<1>4. DOMAIN Push(map, entries) = D
  BY <1>1
<1>5. \A n \in D : Push(map, entries)[n] = At(map, n) \cup new(n)
  BY <1>1
<1> QED BY <1>2, <1>3, <1>4, <1>5 DEF D

LEMMA PushMap ==
  ASSUME NEW map, NEW K, NEW L, IsMap(map, K, SUBSET L),
         NEW entries, entries \subseteq K \X L
  PROVE  IsMap(Push(map, entries), K, SUBSET L)
<1> DEFINE D == DOMAIN map \cup {e[1] : e \in entries}
           new(n) == {e[2] : e \in {x \in entries : x[1] = n}}
<1>1. Push(map, entries) = [n \in D |-> At(map, n) \cup new(n)]
  BY DEF Push
<1>2. \A n \in D : n \in K /\ At(map, n) \in SUBSET L /\ new(n) \in SUBSET L
  BY DEF IsMap, At
<1> HIDE DEF D, new
<1>3. [n \in D |-> At(map, n) \cup new(n)] \in [D -> SUBSET L]
  BY <1>2
<1>4. DOMAIN Push(map, entries) = D
  BY <1>1
<1>5. D \subseteq K
  BY <1>2
<1> QED BY <1>1, <1>3, <1>4, <1>5 DEF IsMap

\* Dropping a file walks all its entries and touches no other file's, provided
\* the walked names cover the file.
LEMMA RetainEntries ==
  ASSUME NEW map, NEW uri, NEW names,
         \A e \in Entries(map, uri) : e[1] \in names
  PROVE  /\ Entries(Retain(map, uri, names), uri) = {}
         /\ \A v : v # uri =>
              Entries(Retain(map, uri, names), v) = Entries(map, v)
<1> DEFINE R == Retain(map, uri, names)
<1>0. /\ \A n \in DOMAIN R :
           /\ n \in DOMAIN map
           /\ \A l : l \in R[n]
                       <=> l \in map[n] /\ (n \in names => l.uri # uri)
      /\ \A n \in DOMAIN map : \A l \in map[n] :
           (n \notin names \/ l.uri # uri) => n \in DOMAIN R
  BY RetainAt
<1> HIDE DEF R
<1>1. ASSUME NEW e \in Entries(R, uri) PROVE FALSE
  <2>1. e[1] \in DOMAIN R /\ e[2] \in R[e[1]] /\ e[2].uri = uri
    BY EntriesMeaning
  <2>2. e[1] \notin names /\ e[1] \in DOMAIN map /\ e[2] \in map[e[1]]
    BY <1>0, <2>1
  <2>3. <<e[1], e[2]>> \in Entries(map, uri)
    BY <2>1, <2>2, EntriesMeaning
  <2> QED BY <2>2, <2>3
<1>2. ASSUME NEW v, v # uri PROVE Entries(R, v) = Entries(map, v)
  <2>1. ASSUME NEW e \in Entries(R, v) PROVE e \in Entries(map, v)
    <3>1. e = <<e[1], e[2]>> /\ e[1] \in DOMAIN R /\ e[2] \in R[e[1]]
            /\ e[2].uri = v
      BY EntriesMeaning
    <3>2. e[1] \in DOMAIN map /\ e[2] \in map[e[1]]
      BY <1>0, <3>1
    <3>3. <<e[1], e[2]>> \in Entries(map, v)
      BY <3>1, <3>2, EntriesMeaning
    <3> QED BY <3>1, <3>3
  <2>2. ASSUME NEW e \in Entries(map, v) PROVE e \in Entries(R, v)
    <3>1. e = <<e[1], e[2]>> /\ e[1] \in DOMAIN map /\ e[2] \in map[e[1]]
            /\ e[2].uri = v
      BY EntriesMeaning
    <3>2. e[1] \in DOMAIN R /\ e[2] \in R[e[1]]
      BY <1>0, <1>2, <3>1
    <3>3. <<e[1], e[2]>> \in Entries(R, v)
      BY <3>1, <3>2, EntriesMeaning
    <3> QED BY <3>1, <3>3
  <2> QED BY <2>1, <2>2
<1> QED BY <1>1, <1>2 DEF R

\* Filing locations of one file under their names adds them to the entries of
\* that file and to no other's.
LEMMA PushEntries ==
  ASSUME NEW map, NEW uri, NEW entries,
         \A e \in entries : e = <<e[1], e[2]>> /\ e[2].uri = uri
  PROVE  /\ Entries(Push(map, entries), uri) = Entries(map, uri) \cup entries
         /\ \A v : v # uri =>
              Entries(Push(map, entries), v) = Entries(map, v)
<1> DEFINE P == Push(map, entries)
<1>0. /\ DOMAIN P = DOMAIN map \cup {e[1] : e \in entries}
      /\ \A n \in DOMAIN P : \A l : l \in P[n]
            <=> (n \in DOMAIN map /\ l \in map[n]) \/ <<n, l>> \in entries
  BY PushAt
<1>1. \A e \in entries : e = <<e[1], e[2]>>
  OBVIOUS
<1> HIDE DEF P
<1>2. ASSUME NEW v, NEW e \in Entries(P, v)
      PROVE  e \in Entries(map, v) \/ (v = uri /\ e \in entries)
  <2>1. e = <<e[1], e[2]>> /\ e[1] \in DOMAIN P /\ e[2] \in P[e[1]]
          /\ e[2].uri = v
    BY EntriesMeaning
  <2>2. CASE e[1] \in DOMAIN map /\ e[2] \in map[e[1]]
    BY <2>1, <2>2, EntriesMeaning
  <2>3. CASE <<e[1], e[2]>> \in entries
    BY <2>1, <2>3
  <2> QED BY <1>0, <2>1, <2>2, <2>3
<1>3. ASSUME NEW v, NEW e \in Entries(map, v)
      PROVE  e \in Entries(P, v)
  <2>1. e = <<e[1], e[2]>> /\ e[1] \in DOMAIN map /\ e[2] \in map[e[1]]
          /\ e[2].uri = v
    BY EntriesMeaning
  <2>2. e[1] \in DOMAIN P /\ e[2] \in P[e[1]]
    BY <1>0, <2>1
  <2>3. <<e[1], e[2]>> \in Entries(P, v)
    BY <2>1, <2>2, EntriesMeaning
  <2> QED BY <2>1, <2>3
<1>4. ASSUME NEW e \in entries
      PROVE  e \in Entries(P, uri)
  <2>1. e[1] \in DOMAIN P /\ e[2] \in P[e[1]] /\ e[2].uri = uri
    BY <1>0, <1>1
  <2>2. <<e[1], e[2]>> \in Entries(P, uri)
    BY <2>1, EntriesMeaning
  <2> QED BY <1>1, <2>2
<1> QED BY <1>2, <1>3, <1>4 DEF P

\* The map after a file is indexed anew: the file's entries are the new ones.
LEMMA ReindexEntries ==
  ASSUME NEW map, NEW uri, NEW names, NEW entries,
         \A e \in Entries(map, uri) : e[1] \in names,
         \A e \in entries : e = <<e[1], e[2]>> /\ e[2].uri = uri
  PROVE  /\ Entries(Push(Retain(map, uri, names), entries), uri) = entries
         /\ \A v : v # uri =>
              Entries(Push(Retain(map, uri, names), entries), v)
                = Entries(map, v)
<1> DEFINE R == Retain(map, uri, names)
<1>2. Entries(R, uri) = {} /\ \A v : v # uri => Entries(R, v) = Entries(map, v)
  BY RetainEntries
<1> HIDE DEF R
<1>3. /\ Entries(Push(R, entries), uri) = Entries(R, uri) \cup entries
      /\ \A v : v # uri => Entries(Push(R, entries), v) = Entries(R, v)
  <2>1. \A e \in entries : e = <<e[1], e[2]>> /\ e[2].uri = uri
    OBVIOUS
  <2> QED BY ONLY <2>1, PushEntries
<1> QED BY <1>2, <1>3 DEF R

-----------------------------------------------------------------------------
(* Updates of one map keyed by file. *)

LEMMA WithMap ==
  ASSUME NEW map, NEW K, NEW V, IsMap(map, K, V),
         NEW key \in K, NEW value \in V
  PROVE  IsMap(With(map, key, value), K, V)
  BY DEF IsMap, With

LEMMA WithoutMap ==
  ASSUME NEW map, NEW K, NEW V, IsMap(map, K, V), NEW key
  PROVE  IsMap(Without(map, key), K, V)
  BY DEF IsMap, Without

\* Looking a key up after an update.
LEMMA AtWithout ==
  ASSUME NEW map, NEW key, NEW k
  PROVE  At(Without(map, key), k) = IF k = key THEN {} ELSE At(map, k)
  BY DEF At, Without

LEMMA AtWith ==
  ASSUME NEW map, NEW key, NEW value, NEW k
  PROVE  At(With(map, key, value), k) = IF k = key THEN value ELSE At(map, k)
  BY DEF At, With

\* A value is recorded if it is not empty: looking it up answers it anyway.
LEMMA AtRecorded ==
  ASSUME NEW map, NEW key, NEW value, NEW new,
         new = IF value = {} THEN Without(map, key)
               ELSE With(map, key, value),
         NEW k
  PROVE  At(new, k) = IF k = key THEN value ELSE At(map, k)
<1>1. CASE value = {}
  BY <1>1, AtWithout
<1>2. CASE value # {}
  BY <1>2, AtWith
<1> QED BY <1>1, <1>2

-----------------------------------------------------------------------------
(* The inductive invariant.  NoEmptyNames and the type are inductive each by  *)
(* itself; EntriesAreWalked is what removing a file rests on.                 *)

IndexInv == IndexTypeOK /\ EntriesAreWalked /\ NoEmptyNames

\* The index says the same of a file before and after the step.
Keeps(uri) ==
  /\ Entries(definitionsByName', uri) = Entries(definitionsByName, uri)
  /\ Entries(implementationsByName', uri)
       = Entries(implementationsByName, uri)
  /\ Entries(methodDeclarationsByName', uri)
       = Entries(methodDeclarationsByName, uri)
  /\ At(symbolsByFile', uri) = At(symbolsByFile, uri)

\* remove_file leaves nothing of the file and everything of the others.
LEMMA RemoveFileStep ==
  ASSUME IndexInv, NEW uri \in Uris, RemoveFile(uri)
  PROVE  /\ IndexInv'
         /\ NotFiled(uri)'
         /\ \A v \in Uris : v # uri => Keeps(v)
<1> DEFINE names == At(namesByFile, uri)
           Dropped(map) == Retain(map, uri, names)
<1>1. /\ definitionsByName' = Dropped(definitionsByName)
      /\ implementationsByName' = Dropped(implementationsByName)
      /\ methodDeclarationsByName' = Dropped(methodDeclarationsByName)
      /\ namesByFile' = Without(namesByFile, uri)
      /\ symbolsByFile' = Without(symbolsByFile, uri)
  BY DEF RemoveFile
<1>2. IndexTypeOK'
  BY <1>1, RetainMap, WithoutMap DEF IndexInv, IndexTypeOK
<1>3. \A map \in {definitionsByName, implementationsByName,
                  methodDeclarationsByName} :
        /\ Entries(Dropped(map), uri) = {}
        /\ \A v : v # uri => Entries(Dropped(map), v) = Entries(map, v)
        /\ \A n \in DOMAIN Dropped(map) : Dropped(map)[n] # {}
  <2>1. SUFFICES ASSUME NEW map \in {definitionsByName, implementationsByName,
                                     methodDeclarationsByName}
                 PROVE  /\ Entries(Dropped(map), uri) = {}
                        /\ \A v : v # uri =>
                             Entries(Dropped(map), v) = Entries(map, v)
                        /\ \A n \in DOMAIN Dropped(map) : Dropped(map)[n] # {}
    OBVIOUS
  <2>2. /\ \A e \in Entries(map, uri) : e[1] \in names
        /\ \A n \in DOMAIN map : map[n] # {}
    BY DEF IndexInv, EntriesAreWalked, NoEmptyNames
  <2>3. /\ Entries(Dropped(map), uri) = {}
        /\ \A v : v # uri => Entries(Dropped(map), v) = Entries(map, v)
    <3> HIDE DEF names
    <3> QED BY <2>2, RetainEntries
  <2>4. \A n \in DOMAIN Dropped(map) : Dropped(map)[n] # {}
    <3> HIDE DEF names
    <3> QED BY <2>2, RetainAt
  <2> QED BY <2>3, <2>4
<1>4. \A v : At(namesByFile', v) = IF v = uri THEN {} ELSE At(namesByFile, v)
  BY <1>1, AtWithout
<1>5. \A v : At(symbolsByFile', v)
               = IF v = uri THEN {} ELSE At(symbolsByFile, v)
  BY <1>1, AtWithout
<1> HIDE DEF Dropped
<1>6. EntriesAreWalked'
  BY <1>1, <1>3, <1>4 DEF IndexInv, EntriesAreWalked
<1>7. NoEmptyNames'
  BY <1>1, <1>3 DEF NoEmptyNames
<1>8. NotFiled(uri)'
  BY <1>1, <1>3, <1>5 DEF NotFiled
<1>9. \A v \in Uris : v # uri => Keeps(v)
  BY <1>1, <1>3, <1>5 DEF Keeps
<1> QED BY <1>2, <1>6, <1>7, <1>8, <1>9 DEF IndexInv

\* index_file leaves for the file exactly the facts of the text, whatever it
\* held before, and everything of the others.
LEMMA IndexFileStep ==
  ASSUME IndexInv, NEW uri \in Uris, NEW text \in Texts, IndexFile(uri, text)
  PROVE  /\ IndexInv'
         /\ FiledAs(uri, text)'
         /\ \A v \in Uris : v # uri => Keeps(v)
<1> DEFINE names == At(namesByFile, uri)
           Filing(map, entries) == Push(Retain(map, uri, names), entries)
<1>1. /\ definitionsByName' =
           Filing(definitionsByName, DefinitionEntries(uri, text))
      /\ implementationsByName' =
           Filing(implementationsByName, ImplementationEntries(uri, text))
      /\ methodDeclarationsByName' =
           Filing(methodDeclarationsByName, DeclarationEntries(uri, text))
  BY DEF IndexFile
<1>2. /\ namesByFile' = IF NamesOf(text) = {} THEN Without(namesByFile, uri)
                        ELSE With(namesByFile, uri, NamesOf(text))
      /\ symbolsByFile' =
           IF WorkspaceSymbols(text) = {} THEN Without(symbolsByFile, uri)
           ELSE With(symbolsByFile, uri, WorkspaceSymbols(text))
  BY DEF IndexFile
<1>3. IndexTypeOK'
  <2>1. /\ IsMap(definitionsByName', Names, SUBSET DefLocation)
        /\ IsMap(implementationsByName', Names, SUBSET ImplementationLocation)
        /\ IsMap(methodDeclarationsByName', Names, SUBSET DeclarationLocation)
    BY <1>1, EntryTypes, RetainMap, PushMap DEF IndexInv, IndexTypeOK
  <2>2. /\ IsMap(namesByFile', Uris, SUBSET Names)
        /\ IsMap(symbolsByFile', Uris, SUBSET [name : Names, range : Spans])
    BY <1>2, EntryTypes, WithMap, WithoutMap DEF IndexInv, IndexTypeOK
  <2> QED BY <2>1, <2>2 DEF IndexTypeOK
<1>4. ASSUME NEW map \in {definitionsByName, implementationsByName,
                          methodDeclarationsByName},
             NEW entries,
             \A e \in entries : e = <<e[1], e[2]>> /\ e[2].uri = uri
      PROVE  /\ Entries(Filing(map, entries), uri) = entries
             /\ \A v : v # uri =>
                  Entries(Filing(map, entries), v) = Entries(map, v)
             /\ \A n \in DOMAIN Filing(map, entries) :
                  Filing(map, entries)[n] # {}
  <2>1. /\ \A e \in Entries(map, uri) : e[1] \in names
        /\ \A n \in DOMAIN map : map[n] # {}
    BY DEF IndexInv, EntriesAreWalked, NoEmptyNames
  <2> HIDE DEF names
  <2>2. /\ Entries(Filing(map, entries), uri) = entries
        /\ \A v : v # uri => Entries(Filing(map, entries), v) = Entries(map, v)
    BY <1>4, <2>1, ReindexEntries
  <2>3. \A n \in DOMAIN Retain(map, uri, names) :
          Retain(map, uri, names)[n] # {}
    BY <2>1, RetainAt
  <2>4. ASSUME NEW n \in DOMAIN Filing(map, entries)
        PROVE  Filing(map, entries)[n] # {}
    <3> DEFINE R == Retain(map, uri, names)
    <3> HIDE DEF R
    <3>1. \A e \in entries : e = <<e[1], e[2]>>
      BY <1>4
    <3>2. /\ DOMAIN Push(R, entries) = DOMAIN R \cup {e[1] : e \in entries}
          /\ \A m \in DOMAIN Push(R, entries) :
               \A l : l \in Push(R, entries)[m]
                        <=> (m \in DOMAIN R /\ l \in R[m])
                              \/ <<m, l>> \in entries
      BY ONLY <3>1, PushAt
    <3>3. n \in DOMAIN Push(R, entries)
      BY DEF R
    <3>4. Push(R, entries)[n] # {}
      <4>1. CASE n \in DOMAIN R
        <5>1. PICK l : l \in R[n]
          BY <2>3, <4>1 DEF R
        <5> QED BY <3>2, <3>3, <4>1, <5>1
      <4>2. CASE n \notin DOMAIN R
        <5>1. PICK e \in entries : e[1] = n
          BY <3>2, <3>3, <4>2
        <5>2. <<n, e[2]>> \in entries
          BY <3>1, <5>1
        <5> QED BY <3>2, <3>3, <5>2
      <4> QED BY <4>1, <4>2
    <3> QED BY <3>4 DEF R
  <2> QED BY <2>2, <2>4
<1>5. /\ \A e \in DefinitionEntries(uri, text) :
           e = <<e[1], e[2]>> /\ e[2].uri = uri /\ e[1] \in NamesOf(text)
      /\ \A e \in ImplementationEntries(uri, text) :
           e = <<e[1], e[2]>> /\ e[2].uri = uri /\ e[1] \in NamesOf(text)
      /\ \A e \in DeclarationEntries(uri, text) :
           e = <<e[1], e[2]>> /\ e[2].uri = uri /\ e[1] \in NamesOf(text)
  BY EntryTypes, EntryNames
<1>6. /\ \A v : At(namesByFile', v)
                  = IF v = uri THEN NamesOf(text) ELSE At(namesByFile, v)
      /\ \A v : At(symbolsByFile', v) = IF v = uri THEN WorkspaceSymbols(text)
                                        ELSE At(symbolsByFile, v)
  BY <1>2, AtRecorded
<1> HIDE DEF Filing
<1>7. /\ Entries(definitionsByName', uri) = DefinitionEntries(uri, text)
      /\ Entries(implementationsByName', uri)
           = ImplementationEntries(uri, text)
      /\ Entries(methodDeclarationsByName', uri)
           = DeclarationEntries(uri, text)
      /\ \A v : v # uri =>
           /\ Entries(definitionsByName', v) = Entries(definitionsByName, v)
           /\ Entries(implementationsByName', v)
                = Entries(implementationsByName, v)
           /\ Entries(methodDeclarationsByName', v)
                = Entries(methodDeclarationsByName, v)
      /\ NoEmptyNames'
  <2>1. /\ Entries(definitionsByName', uri) = DefinitionEntries(uri, text)
        /\ \A v : v # uri =>
             Entries(definitionsByName', v) = Entries(definitionsByName, v)
        /\ \A n \in DOMAIN definitionsByName' : definitionsByName'[n] # {}
    BY <1>1, <1>4, <1>5
  <2>2. /\ Entries(implementationsByName', uri)
             = ImplementationEntries(uri, text)
        /\ \A v : v # uri => Entries(implementationsByName', v)
                               = Entries(implementationsByName, v)
        /\ \A n \in DOMAIN implementationsByName' :
             implementationsByName'[n] # {}
    BY <1>1, <1>4, <1>5
  <2>3. /\ Entries(methodDeclarationsByName', uri)
             = DeclarationEntries(uri, text)
        /\ \A v : v # uri => Entries(methodDeclarationsByName', v)
                               = Entries(methodDeclarationsByName, v)
        /\ \A n \in DOMAIN methodDeclarationsByName' :
             methodDeclarationsByName'[n] # {}
    BY <1>1, <1>4, <1>5
  <2> QED BY <2>1, <2>2, <2>3 DEF NoEmptyNames
<1>8. EntriesAreWalked'
  <2>1. SUFFICES ASSUME NEW v \in Uris
                 PROVE  /\ \A e \in Entries(definitionsByName', v) :
                             e[1] \in At(namesByFile', v)
                        /\ \A e \in Entries(implementationsByName', v) :
                             e[1] \in At(namesByFile', v)
                        /\ \A e \in Entries(methodDeclarationsByName', v) :
                             e[1] \in At(namesByFile', v)
    BY DEF EntriesAreWalked
  <2>2. CASE v = uri
    BY <1>5, <1>6, <1>7, <2>2
  <2>3. CASE v # uri
    BY <1>6, <1>7, <2>3 DEF IndexInv, EntriesAreWalked
  <2> QED BY <2>2, <2>3
<1>9. FiledAs(uri, text)'
  BY <1>6, <1>7 DEF FiledAs
<1>10. \A v \in Uris : v # uri => Keeps(v)
  BY <1>6, <1>7 DEF Keeps
<1> QED BY <1>3, <1>7, <1>8, <1>9, <1>10 DEF IndexInv

-----------------------------------------------------------------------------
(* The theorems. *)

LEMMA IndexInvInit == IndexInit => IndexInv
<1> SUFFICES ASSUME IndexInit PROVE IndexInv
  OBVIOUS
<1>1. IndexTypeOK
  BY DEF IndexInit, IndexTypeOK, IsMap
<1>2. EntriesAreWalked
  BY DEF IndexInit, EntriesAreWalked, Entries
<1>3. NoEmptyNames
  BY DEF IndexInit, NoEmptyNames
<1> QED BY <1>1, <1>2, <1>3 DEF IndexInv

LEMMA IndexInvUnchanged ==
  ASSUME IndexInv, UNCHANGED indexVars
  PROVE  IndexInv'
  BY DEF IndexInv, indexVars, IndexTypeOK, EntriesAreWalked, NoEmptyNames,
         Entries, At, IsMap

LEMMA IndexInvStep == IndexInv /\ [IndexNext]_indexVars => IndexInv'
<1> SUFFICES ASSUME IndexInv, [IndexNext]_indexVars PROVE IndexInv'
  OBVIOUS
<1>1. ASSUME NEW uri \in Uris, RemoveFile(uri) PROVE IndexInv'
  BY <1>1, RemoveFileStep
<1>2. ASSUME NEW uri \in Uris, NEW text \in Texts, IndexFile(uri, text)
      PROVE  IndexInv'
  BY <1>2, IndexFileStep
<1>3. ASSUME NEW uri \in Uris, NEW text \in Texts, ScanFile(uri, text)
      PROVE  IndexInv'
  BY <1>2, <1>3, IndexInvUnchanged DEF ScanFile
<1>4. CASE UNCHANGED indexVars
  BY <1>4, IndexInvUnchanged
<1> QED BY <1>1, <1>2, <1>3, <1>4 DEF IndexNext

THEOREM IndexAlwaysInv == IndexSpec => []IndexInv
  BY IndexInvInit, IndexInvStep, PTL DEF IndexSpec

\* The five maps of the index keep their types.
THEOREM IndexTypeCorrect == IndexSpec => []IndexTypeOK
<1>1. IndexInv => IndexTypeOK
  BY DEF IndexInv
<1> QED BY <1>1, IndexAlwaysInv, PTL

\* remove_file always finds every location of the file: no location stands
\* under a name that names_by_file does not hold for its file.
THEOREM EntriesAlwaysWalked == IndexSpec => []EntriesAreWalked
<1>1. IndexInv => EntriesAreWalked
  BY DEF IndexInv
<1> QED BY <1>1, IndexAlwaysInv, PTL

\* is_defined never answers for a name without a definition.
THEOREM NeverEmptyNames == IndexSpec => []NoEmptyNames
<1>1. IndexInv => NoEmptyNames
  BY DEF IndexInv
<1> QED BY <1>1, IndexAlwaysInv, PTL

-----------------------------------------------------------------------------
(* The index implements FileFacts. *)

\* Both modules read the same facts out of a text.
LEMMA FactsAreEntries ==
  ASSUME NEW uri, NEW text
  PROVE  Promise!FactsOf(uri, text) =
           [definitions     |-> DefinitionEntries(uri, text),
            implementations |-> ImplementationEntries(uri, text),
            declarations    |-> DeclarationEntries(uri, text),
            symbols         |-> WorkspaceSymbols(text)]
  BY Zenon DEF Promise!FactsOf,
     DefinitionEntries, Promise!DefinitionEntries,
     ImplementationEntries, Promise!ImplementationEntries,
     DeclarationEntries, Promise!DeclarationEntries,
     WorkspaceSymbols, Promise!WorkspaceSymbols,
     TopLevelStates, Promise!TopLevelStates,
     TopLevelDefinitions, Promise!TopLevelDefinitions,
     TopLevelImplementations, Promise!TopLevelImplementations,
     TopLevelMethodDeclarations, Promise!TopLevelMethodDeclarations

LEMMA FiledChange ==
  ASSUME NEW uri \in Uris, \A v \in Uris : v # uri => Keeps(v)
  PROVE  /\ NotFiled(uri)' => Promise!Forget(uri)
         /\ \A text : FiledAs(uri, text)' => Promise!Replace(uri, text)
<1>1. ASSUME NEW v \in Uris, v # uri PROVE Filed'[v] = Filed[v]
  BY <1>1 DEF Filed, Keeps
<1>2. Filed = [v \in Uris |-> Filed[v]] /\ Filed' = [v \in Uris |-> Filed'[v]]
  BY DEF Filed
<1>3. NotFiled(uri)' => Filed'[uri] = Promise!NoFacts
  BY DEF Filed, NotFiled, Promise!NoFacts
<1>4. \A text : FiledAs(uri, text)' => Filed'[uri] = Promise!FactsOf(uri, text)
  BY FactsAreEntries DEF Filed, FiledAs
<1> HIDE DEF Filed
<1>5. NotFiled(uri)' => Promise!Forget(uri)
  BY <1>1, <1>2, <1>3 DEF Promise!Forget
<1>6. \A text : FiledAs(uri, text)' => Promise!Replace(uri, text)
  BY <1>1, <1>2, <1>4 DEF Promise!Replace
<1> QED BY <1>5, <1>6

\* The five maps together are one set of facts for each file, replaced or
\* forgotten as a whole: nothing of an older text of a file outlives its next
\* indexing, and no file's indexing disturbs another's facts.
THEOREM IndexImplementsFileFacts == IndexSpec => IsFileFacts
<1>1. IndexInit => Promise!Init
  <2> SUFFICES ASSUME IndexInit PROVE Filed = [u \in Uris |-> Promise!NoFacts]
    BY DEF Promise!Init
  <2>1. ASSUME NEW u \in Uris PROVE Filed[u] = Promise!NoFacts
    BY DEF IndexInit, Filed, Entries, At, Promise!NoFacts
  <2> QED BY <2>1 DEF Filed
<1>2. IndexInv /\ [IndexNext]_indexVars => [Promise!Next]_Filed
  <2> SUFFICES ASSUME IndexInv, [IndexNext]_indexVars
               PROVE  Promise!Next \/ Filed' = Filed
    OBVIOUS
  <2>1. ASSUME NEW uri \in Uris, RemoveFile(uri) PROVE Promise!Next
    BY <2>1, RemoveFileStep, FiledChange DEF Promise!Next
  <2>2. ASSUME NEW uri \in Uris, NEW text \in Texts, IndexFile(uri, text)
        PROVE  Promise!Next
    BY <2>2, IndexFileStep, FiledChange DEF Promise!Next
  <2>3. CASE UNCHANGED indexVars
    BY <2>3 DEF indexVars, Filed, Entries, At
  <2>4. ASSUME NEW uri \in Uris, NEW text \in Texts, ScanFile(uri, text)
        PROVE  Promise!Next \/ Filed' = Filed
    BY <2>2, <2>3, <2>4 DEF ScanFile
  <2> QED BY <2>1, <2>2, <2>3, <2>4 DEF IndexNext
<1> QED BY <1>1, <1>2, IndexAlwaysInv, PTL DEF IndexSpec, IsFileFacts,
           Promise!Spec

-----------------------------------------------------------------------------
(* Queries. *)

\* An entry of a file in a map keyed by name, both ways round.
LEMMA EntryAt ==
  ASSUME NEW map, NEW uri, NEW n
  PROVE  /\ \A l \in At(map, n) : l.uri = uri =>
              \E e \in Entries(map, uri) : e[1] = n /\ e[2] = l
         /\ \A e \in Entries(map, uri) : e[1] = n =>
              e[2] \in At(map, n) /\ e[2].uri = uri
<1>1. ASSUME NEW l \in At(map, n), l.uri = uri
      PROVE  \E e \in Entries(map, uri) : e[1] = n /\ e[2] = l
  <2>1. <<n, l>> \in Entries(map, uri)
    BY <1>1, EntriesMeaning DEF At
  <2>2. <<n, l>>[1] = n /\ <<n, l>>[2] = l
    OBVIOUS
  <2> QED BY <2>1, <2>2
<1>2. ASSUME NEW e \in Entries(map, uri), e[1] = n
      PROVE  e[2] \in At(map, n) /\ e[2].uri = uri
  BY <1>2, EntriesMeaning DEF At
<1> QED BY <1>1, <1>2

\* The locations under a name that are in a set; the same, file by file.
Found(map, n, exclude, good) ==
  {[uri |-> l.uri, range |-> l.range] :
     l \in {m \in At(map, n) : m.uri # exclude /\ m \in good}}

FoundByFile(map, n, exclude, good) ==
  UNION {{[uri |-> u, range |-> e[2].range] :
            e \in {x \in Entries(map, u) : x[1] = n /\ x[2] \in good}} :
           u \in Uris \ {exclude}}

\* The locations found under a name, of a kind that matters, are the entries of
\* the files.
LEMMA LocationsAre ==
  ASSUME NEW map, NEW n, NEW exclude, NEW good,
         \A l \in At(map, n) : l.uri \in Uris
  PROVE  Found(map, n, exclude, good) = FoundByFile(map, n, exclude, good)
<1> DEFINE L == {[uri |-> l.uri, range |-> l.range] :
                   l \in {m \in At(map, n) : m.uri # exclude /\ m \in good}}
           R(u) == {[uri |-> u, range |-> e[2].range] :
                      e \in {x \in Entries(map, u) :
                               x[1] = n /\ x[2] \in good}}
<1>1. ASSUME NEW a \in L PROVE \E u \in Uris \ {exclude} : a \in R(u)
  <2>1. PICK l \in At(map, n) : /\ l.uri # exclude /\ l \in good
                                /\ a = [uri |-> l.uri, range |-> l.range]
    OBVIOUS
  <2>2. PICK e \in Entries(map, l.uri) : e[1] = n /\ e[2] = l
    BY <2>1, EntryAt
  <2>3. a \in R(l.uri)
    BY <2>1, <2>2
  <2> QED BY <2>1, <2>3
<1>2. ASSUME NEW u \in Uris \ {exclude}, NEW a \in R(u) PROVE a \in L
  <2>1. PICK e \in Entries(map, u) : /\ e[1] = n /\ e[2] \in good
                                     /\ a = [uri |-> u, range |-> e[2].range]
    OBVIOUS
  <2>2. e[2] \in At(map, n) /\ e[2].uri = u
    BY <2>1, EntryAt
  <2> QED BY <2>1, <2>2
<1> QED BY <1>1, <1>2 DEF Found, FoundByFile

\* The queries answer what FileFacts answers.
LEMMA QueriesAgreeStep ==
  ASSUME IndexInv
  PROVE  QueriesAgree
<1>2. /\ \A n : \A l \in At(definitionsByName, n) : l.uri \in Uris
      /\ \A n : \A l \in At(implementationsByName, n) : l.uri \in Uris
      /\ \A n : \A l \in At(methodDeclarationsByName, n) : l.uri \in Uris
  BY DEF IndexInv, IndexTypeOK, IsMap, At, DefLocation,
         ImplementationLocation, DeclarationLocation
<1>3. ASSUME NEW n \in Names PROVE IsDefined(n) <=> Promise!Defined(n)
  <2>1. IsDefined(n) <=> At(definitionsByName, n) # {}
    BY DEF IsDefined, At, IndexInv, NoEmptyNames
  <2>2. Promise!Defined(n)
          <=> \E u \in Uris : \E e \in Entries(definitionsByName, u) : e[1] = n
    BY DEF Promise!Defined, Filed
  <2>3. At(definitionsByName, n) # {}
          <=> \E u \in Uris : \E e \in Entries(definitionsByName, u) : e[1] = n
    BY <1>2, EntryAt
  <2> QED BY <2>1, <2>2, <2>3
<1>4. ASSUME NEW n \in Names, NEW exclude \in Uris
      PROVE  Definitions(n, exclude) = Promise!DefinitionsOf(n, exclude)
  <2> DEFINE good == At(definitionsByName, n)
  <2>1. Definitions(n, exclude) =
          Found(definitionsByName, n, exclude, good)
    BY DEF Definitions, Locations, Others, Found
  <2>2. ASSUME NEW u \in Uris
        PROVE  {e \in Filed[u].definitions : e[1] = n}
               = {e \in Entries(definitionsByName, u) :
                    e[1] = n /\ e[2] \in good}
    BY EntryAt DEF Filed
  <2>3. Promise!DefinitionsOf(n, exclude) =
          FoundByFile(definitionsByName, n, exclude, good)
    BY <2>2 DEF Promise!DefinitionsOf, FoundByFile
  <2> HIDE DEF good
  <2> QED BY <1>2, <2>1, <2>3, LocationsAre
<1>5. ASSUME NEW n \in Names, NEW exclude \in Uris
      PROVE  HasMethodDeclaration(n, exclude)
               <=> Promise!DeclaredElsewhere(n, exclude)
  <2>1. Promise!DeclaredElsewhere(n, exclude)
          <=> \E u \in Uris \ {exclude} :
                \E e \in Entries(methodDeclarationsByName, u) : e[1] = n
    BY DEF Promise!DeclaredElsewhere, Filed
  <2> QED BY <1>2, <2>1, EntryAt DEF HasMethodDeclaration
<1>6. ASSUME NEW n \in Names, NEW exclude \in Uris,
             NEW kind \in {"Lambda", "Method"}
      PROVE  Implementations(n, kind, exclude)
               = Promise!ImplementationsOf(n, kind, exclude)
  <2> DEFINE good == {m \in At(implementationsByName, n) :
                        /\ m.kind = kind
                        /\ m.needs => HasMethodDeclaration(n, m.uri)}
  <2>1. Implementations(n, kind, exclude) =
          Found(implementationsByName, n, exclude, good)
    BY DEF Implementations, Locations, Found
  <2>2. ASSUME NEW u \in Uris
        PROVE  {j \in Filed[u].implementations :
                  /\ j[1] = n /\ j[2].kind = kind
                  /\ j[2].needs => Promise!DeclaredElsewhere(n, u)}
               = {e \in Entries(implementationsByName, u) :
                    e[1] = n /\ e[2] \in good}
    <3>1. Filed[u].implementations = Entries(implementationsByName, u)
      BY DEF Filed
    <3>2. ASSUME NEW e \in Entries(implementationsByName, u), e[1] = n
          PROVE  e[2] \in At(implementationsByName, n) /\ e[2].uri = u
      BY <3>2, EntryAt
    <3> QED BY <1>5, <3>1, <3>2
  <2>3. Promise!ImplementationsOf(n, kind, exclude) =
          FoundByFile(implementationsByName, n, exclude, good)
    BY <2>2 DEF Promise!ImplementationsOf, FoundByFile
  <2> HIDE DEF good
  <2> QED BY <1>2, <2>1, <2>3, LocationsAre
<1> QED BY <1>3, <1>4, <1>6 DEF QueriesAgree

\* is_defined, definitions and implementations answer from the facts of the files,
\* whatever the order they were indexed and forgotten in.
THEOREM QueriesAlwaysAgree == IndexSpec => []QueriesAgree
<1>1. IndexInv => QueriesAgree
  BY QueriesAgreeStep
<1> QED BY <1>1, IndexAlwaysInv, PTL

-----------------------------------------------------------------------------
(* Settings. *)

\* A field that is read from a section has the type of its default, if the
\* section's own value of it has.
LEMMA FieldTyped ==
  ASSUME NEW object, NEW key, NEW default, NEW k \in DOMAIN default, NEW T,
         default[k] \in T,
         key \in DOMAIN object /\ k \in DOMAIN object[key]
           => object[key][k] \in T
  PROVE  Field(object, key, default)[k] \in T
  BY DEF Field, Filled

\* An accepted payload gives settings of the right types, whatever sections and
\* fields it leaves out.
LEMMA FromValueTyped ==
  ASSUME NEW value, Typed(value), Accepted(value)
  PROVE  FromValue(value) \in ServerSettings
<1> DEFINE section == Section(value)
           diagnostics == Field(section, "diagnostics", DefaultDiagnostics)
           formatting == Field(section, "formatting", DefaultFormatting)
           options == Field(section, "inlayHints", DefaultInlayHints)
<1>1. /\ diagnostics.enabled \in BOOLEAN
      /\ diagnostics.disabled \subseteq DOMAIN SelectorKind
  <2>1. diagnostics.disabled \subseteq DOMAIN SelectorKind
    BY DEF Accepted, Selectors
  <2>2. /\ "enabled" \in DOMAIN DefaultDiagnostics
        /\ DefaultDiagnostics["enabled"] = TRUE
    BY DEF DefaultDiagnostics
  <2>3. "diagnostics" \in DOMAIN section
          /\ "enabled" \in DOMAIN section["diagnostics"]
            => section["diagnostics"]["enabled"] \in BOOLEAN
    BY DEF Typed, FieldsOf
  <2>4. DefaultDiagnostics["enabled"] \in BOOLEAN
    BY <2>2, Zenon
  <2>5. diagnostics["enabled"] \in BOOLEAN
    <3> HIDE DEF section
    <3> QED BY <2>2, <2>3, <2>4, FieldTyped, Zenon
  <2> QED BY <2>1, <2>5
<1>2. formatting \in Layouts
  <2>1. CASE "formatting" \in DOMAIN section
    BY <2>1 DEF Typed, FieldsOf, Field, Filled, DefaultFormatting, Layouts,
       Unset
  <2>2. CASE "formatting" \notin DOMAIN section
    BY <2>2 DEF Field, DefaultFormatting, Layouts, Unset
  <2> QED BY <2>1, <2>2
<1>3. options \in HintOptions
  <2>1. /\ DOMAIN DefaultInlayHints = {"expressionTypes", "allKnownTypes"}
        /\ \A k \in DOMAIN DefaultInlayHints : DefaultInlayHints[k] = FALSE
    BY DEF DefaultInlayHints
  <2>2. \A k \in DOMAIN DefaultInlayHints :
          "inlayHints" \in DOMAIN section
            /\ k \in DOMAIN section["inlayHints"]
              => section["inlayHints"][k] \in BOOLEAN
    BY <2>1 DEF Typed, FieldsOf
  <2>3. \A k \in DOMAIN DefaultInlayHints : DefaultInlayHints[k] \in BOOLEAN
    BY <2>1, Zenon
  <2>4. \A k \in DOMAIN DefaultInlayHints : options[k] \in BOOLEAN
    <3> HIDE DEF section
    <3> QED BY <2>2, <2>3, FieldTyped, Zenon
  <2>5. options = [expressionTypes |-> options["expressionTypes"],
                 allKnownTypes |-> options["allKnownTypes"]]
    BY DEF Field, Filled, DefaultInlayHints
  <2> HIDE DEF options
  <2> QED BY <2>1, <2>4, <2>5 DEF HintOptions
<1> DEFINE policy == [enabled  |-> diagnostics.enabled,
                      disabled |-> {SelectorKind[s] :
                                      s \in diagnostics.disabled}]
<1>4. policy \in Policies
  BY <1>1 DEF Policies, Rules
<1>5. FromValue(value) = [diagnostics |-> policy, formatting |-> formatting,
                          inlayHints |-> options]
  BY Zenon DEF FromValue
<1> HIDE DEF policy, formatting, options
<1> QED BY <1>2, <1>3, <1>4, <1>5 DEF ServerSettings

LEMMA DefaultsTyped == DefaultSettings \in ServerSettings
  BY DEF DefaultSettings, DefaultDiagnostics, DefaultFormatting,
     DefaultInlayHints, ServerSettings, Policies, Layouts, HintOptions, Rules,
     Unset

-----------------------------------------------------------------------------
(* Types. *)

\* What a handler finds in the message it takes.
LEMMA NextMessage ==
  ASSUME TypeOK, inbox # <<>>
  PROVE  /\ Tail(inbox) \in Seq(Messages)
         /\ Head(inbox).method = "didOpen" =>
              Head(inbox).uri \in Uris /\ Head(inbox).text \in Texts
         /\ Head(inbox).method = "didChange" =>
              /\ Head(inbox).uri \in Uris
              /\ Head(inbox).changes \in Seq(Changes)
         /\ Head(inbox).method = "didClose" => Head(inbox).uri \in Uris
         /\ Head(inbox).method = "didChangeConfiguration" =>
              Head(inbox).payload \in Payloads
<1>1. inbox \in Seq(Messages)
  BY DEF TypeOK
<1>2. Head(inbox) \in Messages /\ Tail(inbox) \in Seq(Messages)
  BY <1>1, HeadTailProperties
<1>3. CASE Head(inbox) \in OpenMessages
  BY <1>2, <1>3 DEF OpenMessages
<1>4. CASE Head(inbox) \in ChangeMessages
  BY <1>2, <1>4 DEF ChangeMessages
<1>5. CASE Head(inbox) \in CloseMessages
  BY <1>2, <1>5 DEF CloseMessages
<1>6. CASE Head(inbox) \in ConfigMessages
  BY <1>2, <1>6 DEF ConfigMessages
<1> QED BY <1>2, <1>3, <1>4, <1>5, <1>6 DEF Messages

\* The diagnostics of a document are rules of its analysis.
LEMMA DiagnosticsTyped ==
  ASSUME NEW text \in Texts, NEW policy
  PROVE  VisibleDiagnostics(text, policy) \subseteq DiagnosticKinds
<1>1. Analysis[text].diagnostics \subseteq DiagnosticKinds
  BY AnalysisAssumption DEF AnalysisResult
<1> QED BY <1>1 DEF VisibleDiagnostics

LEMMA TypeInit == Init => TypeOK
<1> SUFFICES ASSUME Init PROVE TypeOK
  OBVIOUS
<1>1. IndexTypeOK
  BY IndexInvInit DEF Init, IndexInv
<1>2. settings \in ServerSettings
  BY DefaultsTyped DEF Init
<1>3. hints \in HintOptions
  BY Zenon DEF Init, DefaultInlayHints, HintOptions
<1>4. /\ IsMap(documents, Uris, Texts)
      /\ IsMap(buffers, Uris, Texts)
  BY DEF Init, IsMap
<1>5. waiting \in 0..Slots
  BY ServerAssumption DEF Init
<1>6. /\ phase \in Phases /\ rootsLeft \subseteq Roots /\ toScan \subseteq FileUris
      /\ published \in [Uris -> SUBSET DiagnosticKinds]
      /\ inbox \in Seq(Messages)
      /\ disk \in [FileUris -> Texts \cup {Absent}]
      /\ events \in [FileUris -> Seq(EventKinds)]
      /\ unseen \subseteq FileUris
      /\ halfApplied \subseteq DOMAIN documents
  BY DEF Init, Phases
<1>7. requery \in BOOLEAN
  BY Zenon DEF Init
<1> QED BY <1>1, <1>2, <1>3, <1>4, <1>5, <1>6, <1>7 DEF TypeOK

-----------------------------------------------------------------------------
(* What the steps do to the index. *)

LEMMA SameIndexKeeps ==
  ASSUME UNCHANGED indexVars
  PROVE  \A v : Keeps(v)
  BY DEF indexVars, Keeps, Entries, At

LEMMA KeepsFiled ==
  ASSUME NEW v, Keeps(v)
  PROVE  /\ \A text : FiledAs(v, text) => FiledAs(v, text)'
         /\ NotFiled(v) => NotFiled(v)'
  BY DEF Keeps, FiledAs, NotFiled

\* What the index should hold for a file that is not open.
FollowsDisk(uri) ==
  IF disk[uri] = Absent THEN NotFiled(uri) ELSE FiledAs(uri, disk[uri])

\* reindex_from_disk brings the index up to the disk for a file.
LEMMA ReindexStep ==
  ASSUME TypeOK, IndexInv, NEW uri \in Uris, ReindexFromDisk(uri),
         UNCHANGED disk
  PROVE  /\ IndexInv'
         /\ uri \in FileUris => FollowsDisk(uri)'
         /\ \A v \in Uris : v # uri => Keeps(v)
<1>1. CASE uri \notin FileUris
  BY <1>1, IndexInvUnchanged, SameIndexKeeps DEF ReindexFromDisk
<1>2. CASE uri \in FileUris /\ disk[uri] = Absent
  BY <1>2, RemoveFileStep DEF ReindexFromDisk, FollowsDisk
<1>3. CASE uri \in FileUris /\ disk[uri] # Absent
  <2>1. PICK text \in Texts : text = disk[uri]
    BY <1>3 DEF TypeOK
  <2>2. IndexFile(uri, text)
    BY <1>3, <2>1 DEF ReindexFromDisk
  <2>3. /\ IndexInv' /\ FiledAs(uri, text)'
        /\ \A v \in Uris : v # uri => Keeps(v)
    BY <2>2, IndexFileStep
  <2>4. disk'[uri] = text /\ text # Absent
    BY <1>3, <2>1
  <2> QED BY <2>3, <2>4 DEF FollowsDisk
<1> QED BY <1>1, <1>2, <1>3

\* One file of the scan: the file is left alone, or indexed from the disk.
LEMMA ScanNextStep ==
  ASSUME TypeOK, IndexInv, NEW uri \in FileUris, ScanNext(uri)
  PROVE  /\ uri \in Uris
         /\ IndexInv'
         /\ \A v \in Uris : v # uri => Keeps(v)
         /\ \/ Keeps(uri) /\ unseen' = unseen
            \/ FollowsDisk(uri)' /\ unseen' = unseen \ {uri}
<1>1. uri \in Uris
  BY ServerAssumption
<1>2. CASE UNCHANGED <<indexVars, unseen>>
  BY <1>1, <1>2, IndexInvUnchanged, SameIndexKeeps
<1>3. CASE disk[uri] # Absent /\ IndexFile(uri, disk[uri])
             /\ uri \notin DOMAIN namesByFile
  <2>1. PICK text \in Texts : text = disk[uri]
    BY <1>3 DEF TypeOK
  <2>2. unseen' = unseen \ {uri} /\ disk'[uri] = text /\ text # Absent
    BY <1>3, <2>1 DEF ScanNext, worldVars
  <2>3. IndexFile(uri, text)
    BY <1>3, <2>1
  <2>4. /\ IndexInv' /\ FiledAs(uri, text)'
        /\ \A v \in Uris : v # uri => Keeps(v)
    BY <1>1, <2>3, IndexFileStep
  <2> QED BY <1>1, <2>2, <2>4 DEF FollowsDisk
<1> QED BY <1>2, <1>3 DEF ScanNext, ScanFile

\* Opening a document indexes its text and publishes its diagnostics.
LEMMA DidOpenStep ==
  ASSUME TypeOK, IndexInv, DidOpen
  PROVE  \E uri \in Uris, text \in Texts :
           /\ documents' = With(documents, uri, text)
           /\ published' = [published EXCEPT ![uri] =
                              VisibleDiagnostics(text, settings.diagnostics)]
           /\ halfApplied' = halfApplied \ {uri}
           /\ IndexInv'
           /\ FiledAs(uri, text)'
           /\ \A v \in Uris : v # uri => Keeps(v)
<1>1. PICK uri \in Uris, text \in Texts :
        uri = Head(inbox).uri /\ text = Head(inbox).text
  BY NextMessage DEF DidOpen, Handling
<1>2. /\ IndexFile(uri, text)
      /\ documents' = With(documents, uri, text)
      /\ published' = [published EXCEPT ![uri] =
                         VisibleDiagnostics(text, settings.diagnostics)]
      /\ halfApplied' = halfApplied \ {uri}
  BY <1>1 DEF DidOpen
<1> QED BY <1>2, IndexFileStep

\* Closing a document brings the index back to the disk.
LEMMA DidCloseStep ==
  ASSUME TypeOK, IndexInv, DidClose
  PROVE  \E uri \in Uris :
           /\ documents' = Without(documents, uri)
           /\ unseen' = unseen \ {uri}
           /\ halfApplied' = halfApplied \ {uri}
           /\ IndexInv'
           /\ uri \in FileUris => FollowsDisk(uri)'
           /\ \A v \in Uris : v # uri => Keeps(v)
<1>1. PICK uri \in Uris : uri = Head(inbox).uri
  BY NextMessage DEF DidClose, Handling
<1>2. /\ ReindexFromDisk(uri) /\ UNCHANGED disk
      /\ documents' = Without(documents, uri)
      /\ unseen' = unseen \ {uri}
      /\ halfApplied' = halfApplied \ {uri}
  BY <1>1 DEF DidClose, worldVars
<1> QED BY <1>2, ReindexStep

\* The three ways a batch of changes can end: the document is not open; it
\* stops half-way; it is applied to its end.
LEMMA DidChangeStep ==
  ASSUME TypeOK, IndexInv, DidChange
  PROVE  \/ /\ IndexInv'
            /\ \A v \in Uris : Keeps(v)
            /\ UNCHANGED <<documents, published, halfApplied>>
         \/ \E uri \in Uris, text \in Texts :
           /\ IndexInv'
           /\ \A v \in Uris : v # uri => Keeps(v)
           /\ \/ /\ Keeps(uri)
                 /\ documents' = With(documents, uri, text)
                 /\ uri \in DOMAIN documents
                 /\ halfApplied' = halfApplied \cup {uri}
                 /\ published' = published
              \/ /\ FiledAs(uri, text)'
                 /\ documents' = With(documents, uri, text)
                 /\ uri \in DOMAIN documents
                 /\ halfApplied' = halfApplied \ {uri}
                 /\ published' = [published EXCEPT ![uri] =
                      VisibleDiagnostics(text, settings.diagnostics)]
<1>1. PICK uri \in Uris, changes \in Seq(Changes) :
        uri = Head(inbox).uri /\ changes = Head(inbox).changes
  BY NextMessage DEF DidChange, Handling
<1>2. CASE uri \notin DOMAIN documents
  <2>1. UNCHANGED <<indexVars, documents, published, halfApplied>>
    BY <1>1, <1>2 DEF DidChange
  <2> QED BY <2>1, IndexInvUnchanged, SameIndexKeeps
<1>3. CASE uri \in DOMAIN documents
  <2>1. PICK n \in 0..Len(changes) :
          /\ documents' = IF n = 0 THEN documents
                          ELSE With(documents, uri, changes[n].text)
          /\ IF n < Len(changes)
             THEN /\ halfApplied' = halfApplied \cup {uri}
                  /\ UNCHANGED <<indexVars, published>>
             ELSE /\ IndexFile(uri, documents'[uri])
                  /\ published' = [published EXCEPT ![uri] =
                       VisibleDiagnostics(documents'[uri],
                                          settings.diagnostics)]
                  /\ halfApplied' = halfApplied \ {uri}
    BY <1>1, <1>3 DEF DidChange
  <2>2. PICK text \in Texts : documents' = With(documents, uri, text)
    <3>1. CASE n = 0
      <4>1. documents \in [DOMAIN documents -> Texts]
        BY DEF TypeOK, IsMap
      <4>2. documents[uri] \in Texts
        BY <1>3, <4>1
      <4>3. With(documents, uri, documents[uri]) = documents
        BY <1>3, <4>1 DEF With
      <4> QED BY <2>1, <3>1, <4>2, <4>3
    <3>2. CASE n # 0
      <4>1. changes[n] \in Changes
        BY <3>2, ElementOfSeq
      <4>2. changes[n].text \in Texts
        BY <4>1 DEF Changes
      <4> QED BY <2>1, <3>2, <4>2
    <3> QED BY <3>1, <3>2
  <2>3. documents'[uri] = text
    BY <2>2 DEF With
  <2>4. CASE n < Len(changes)
    <3>1. IndexInv' /\ \A v : Keeps(v)
      BY <2>1, <2>4, IndexInvUnchanged, SameIndexKeeps
    <3> QED BY <1>3, <2>1, <2>2, <2>4, <3>1
  <2>5. CASE ~(n < Len(changes))
    <3>1. IndexFile(uri, text)
      BY <2>1, <2>3, <2>5
    <3>2. /\ IndexInv' /\ FiledAs(uri, text)'
          /\ \A v \in Uris : v # uri => Keeps(v)
      BY <3>1, IndexFileStep
    <3> QED BY <1>3, <2>1, <2>2, <2>3, <2>5, <3>2
  <2> QED BY <2>4, <2>5
<1> QED BY <1>2, <1>3

\* A watcher event touches nothing of an open document, and of a closed one
\* only its own file.
LEMMA DidChangeWatchedFileStep ==
  ASSUME TypeOK, IndexInv, NEW uri \in FileUris, DidChangeWatchedFile(uri)
  PROVE  /\ uri \in Uris
         /\ IndexInv'
         /\ \A v \in Uris : v # uri => Keeps(v)
         /\ uri \in DOMAIN documents => Keeps(uri) /\ unseen' = unseen
         /\ uri \notin DOMAIN documents =>
              /\ unseen' = unseen \ {uri}
              /\ IF Head(events[uri]) = "Deleted" THEN NotFiled(uri)'
                                                  ELSE FollowsDisk(uri)'
<1>1. uri \in Uris
  BY ServerAssumption
<1>2. CASE uri \in DOMAIN documents
  <2>1. UNCHANGED <<indexVars, unseen>>
    BY <1>2 DEF DidChangeWatchedFile, Skipped
  <2> QED BY <1>1, <1>2, <2>1, IndexInvUnchanged, SameIndexKeeps
<1>3. CASE uri \notin DOMAIN documents /\ Head(events[uri]) = "Deleted"
  <2>1. RemoveFile(uri) /\ unseen' = unseen \ {uri}
    BY <1>3 DEF DidChangeWatchedFile, Skipped
  <2> QED BY <1>1, <1>3, <2>1, RemoveFileStep
<1>4. CASE uri \notin DOMAIN documents /\ Head(events[uri]) # "Deleted"
  <2>1. ReindexFromDisk(uri) /\ unseen' = unseen \ {uri} /\ UNCHANGED disk
    BY <1>4 DEF DidChangeWatchedFile, Skipped
  <2> QED BY <1>1, <1>4, <2>1, ReindexStep
<1> QED BY <1>2, <1>3, <1>4

-----------------------------------------------------------------------------
(* The inductive invariant. *)

\* No document is open while scan runs: nothing it files can take the place of
\* a live text.
Starting == phase = "scanning" => DOMAIN documents = {}

\* Events are only under way for watched files once the watcher is registered,
\* and the last event of a file tells what became of it: a file is gone if it
\* is DELETED.  An event that is not the last may be wrong by now.
EventsTold ==
  \A uri \in FileUris :
    events[uri] # <<>> =>
      /\ phase = "watching" /\ uri \in Watched
      /\ events[uri][Len(events[uri])] = "Deleted" => disk[uri] = Absent

ServerInv == TypeOK /\ IndexInv /\ Starting /\ EventsTold

\* Every step keeps the index consistent.
LEMMA IndexStep ==
  ASSUME TypeOK, IndexInv, [Next]_vars
  PROVE  IndexInv'
<1>1. ASSUME UNCHANGED indexVars PROVE IndexInv'
  BY <1>1, IndexInvUnchanged
<1>2. CASE Start
  <2>1. ASSUME NEW uri \in FileUris, ScanNext(uri) PROVE IndexInv'
    BY <2>1, ScanNextStep
  <2>2. ASSUME NEW root \in Roots, WalkRoot(root) PROVE IndexInv'
    BY <1>1, <2>2 DEF WalkRoot
  <2>3. ASSUME NEW options \in InitializationOptions, AnswerInitialize(options)
        PROVE  IndexInv'
    BY <1>1, <2>3 DEF AnswerInitialize
  <2>4. CASE Initialized
    BY <1>1, <2>4 DEF Initialized
  <2> QED BY <1>2, <2>1, <2>2, <2>3, <2>4 DEF Start
<1>3. CASE Handler
  <2>1. CASE DidOpen
    BY <2>1, DidOpenStep
  <2>2. CASE DidChange
    BY <2>2, DidChangeStep
  <2>3. CASE DidClose
    BY <2>3, DidCloseStep
  <2>4. ASSUME NEW uri \in FileUris, DidChangeWatchedFile(uri) PROVE IndexInv'
    BY <2>4, DidChangeWatchedFileStep
  <2>5. CASE DidChangeConfiguration \/ InlayHint
    BY <1>1, <2>5 DEF DidChangeConfiguration, InlayHint
  <2> QED BY <1>3, <2>1, <2>2, <2>3, <2>4, <2>5 DEF Handler
<1>4. CASE Answer
  BY <1>1, <1>4 DEF Answer, ClientRegisters, AnswerRefresh
<1>5. CASE User \/ World
  BY <1>1, <1>5 DEF User, World, Open, Edit, Close, Configure, DiskWrite,
                    serverVars
<1>6. CASE UNCHANGED vars
  BY <1>1, <1>6 DEF vars
<1> QED BY <1>2, <1>3, <1>4, <1>5, <1>6 DEF Next

\* The message an editor sends joins the inbox.
LEMMA SendTyped ==
  ASSUME inbox \in Seq(Messages), NEW m \in Messages, Send(m)
  PROVE  inbox' \in Seq(Messages)
  BY AppendProperties DEF Send

\* Every step keeps the types.
LEMMA TypeStep ==
  ASSUME ServerInv, [Next]_vars
  PROVE  TypeOK'
<1>0. TypeOK /\ IndexInv /\ IndexTypeOK'
  BY IndexStep DEF ServerInv, IndexInv
<1>1. ASSUME NEW root \in Roots, WalkRoot(root) PROVE TypeOK'
  BY <1>0, <1>1 DEF TypeOK, WalkRoot, hintVars, worldVars
<1>2. ASSUME NEW uri \in FileUris, ScanNext(uri) PROVE TypeOK'
  BY <1>0, <1>2 DEF TypeOK, ScanNext, hintVars, worldVars
<1>3. ASSUME NEW options \in InitializationOptions, AnswerInitialize(options)
      PROVE  TypeOK'
  <2>1. settings' \in ServerSettings
    BY <1>0, <1>3, FromValueTyped, PayloadAssumption
    DEF TypeOK, AnswerInitialize
  <2>2. hints' \in HintOptions
    BY <1>3, <2>1 DEF AnswerInitialize, ServerSettings
  <2> QED BY <1>0, <1>3, <2>1, <2>2
          DEF TypeOK, AnswerInitialize, worldVars, Phases
<1>4. CASE Initialized
  BY <1>0, <1>4 DEF TypeOK, Initialized, hintVars, worldVars, Phases
<1>5. CASE ClientRegisters
  BY <1>0, <1>5 DEF TypeOK, ClientRegisters, hintVars, worldVars, Phases
<1>6. CASE DidOpen
  <2>1. PICK uri \in Uris, text \in Texts :
          /\ documents' = With(documents, uri, text)
          /\ published' = [published EXCEPT ![uri] =
                             VisibleDiagnostics(text, settings.diagnostics)]
          /\ halfApplied' = halfApplied \ {uri}
    BY <1>0, <1>6, DidOpenStep
  <2>2. IsMap(documents', Uris, Texts)
    BY <1>0, <2>1, WithMap DEF TypeOK
  <2>3. published' \in [Uris -> SUBSET DiagnosticKinds]
    BY <1>0, <2>1, DiagnosticsTyped DEF TypeOK
  <2>4. halfApplied' \subseteq DOMAIN documents'
    BY <1>0, <2>1 DEF TypeOK, With
  <2>5. inbox' \in Seq(Messages)
    BY <1>0, <1>6, NextMessage DEF DidOpen, Handling, Took
  <2> QED BY <1>0, <1>6, <2>2, <2>3, <2>4, <2>5
          DEF TypeOK, DidOpen, scanVars, hintVars, worldVars
<1>7. CASE DidChange
  <2>1. inbox' \in Seq(Messages)
    BY <1>0, <1>7, NextMessage DEF DidChange, Handling, Took
  <2>2. /\ IsMap(documents', Uris, Texts)
        /\ published' \in [Uris -> SUBSET DiagnosticKinds]
        /\ halfApplied' \subseteq DOMAIN documents'
    <3>1. CASE UNCHANGED <<documents, published, halfApplied>>
      BY <1>0, <3>1 DEF TypeOK
    <3>2. ASSUME NEW uri \in Uris, NEW text \in Texts,
                 documents' = With(documents, uri, text),
                 uri \in DOMAIN documents,
                 halfApplied' \in {halfApplied \cup {uri},
                                   halfApplied \ {uri}},
                 published' \in {published, [published EXCEPT ![uri] =
                          VisibleDiagnostics(text, settings.diagnostics)]}
          PROVE  /\ IsMap(documents', Uris, Texts)
                 /\ published' \in [Uris -> SUBSET DiagnosticKinds]
                 /\ halfApplied' \subseteq DOMAIN documents'
      <4>1. IsMap(documents', Uris, Texts)
        BY <1>0, <3>2, WithMap DEF TypeOK
      <4>2. published' \in [Uris -> SUBSET DiagnosticKinds]
        <5>1. VisibleDiagnostics(text, settings.diagnostics)
                \in SUBSET DiagnosticKinds
          BY DiagnosticsTyped
        <5>2. published \in [Uris -> SUBSET DiagnosticKinds]
          BY <1>0 DEF TypeOK
        <5>3. CASE published' = published
          BY <5>2, <5>3
        <5>4. CASE published' = [published EXCEPT ![uri] =
                     VisibleDiagnostics(text, settings.diagnostics)]
          BY <5>1, <5>2, <5>4
        <5> QED BY <3>2, <5>3, <5>4
      <4>3. halfApplied' \subseteq DOMAIN documents'
        BY <1>0, <3>2 DEF TypeOK, With
      <4> QED BY <4>1, <4>2, <4>3
    <3>3. \/ UNCHANGED <<documents, published, halfApplied>>
          \/ \E uri \in Uris, text \in Texts :
               /\ documents' = With(documents, uri, text)
               /\ uri \in DOMAIN documents
               /\ halfApplied' \in {halfApplied \cup {uri},
                                    halfApplied \ {uri}}
               /\ published' \in {published, [published EXCEPT ![uri] =
                          VisibleDiagnostics(text, settings.diagnostics)]}
      BY <1>0, <1>7, DidChangeStep
    <3> QED BY <3>1, <3>2, <3>3
  <2> QED BY <1>0, <1>7, <2>1, <2>2
          DEF TypeOK, DidChange, scanVars, hintVars, worldVars
<1>8. CASE DidClose
  <2>1. PICK uri \in Uris :
          /\ documents' = Without(documents, uri)
          /\ unseen' = unseen \ {uri}
          /\ halfApplied' = halfApplied \ {uri}
    BY <1>0, <1>8, DidCloseStep
  <2>2. IsMap(documents', Uris, Texts)
    BY <1>0, <2>1, WithoutMap DEF TypeOK
  <2>3. unseen' \subseteq FileUris /\ halfApplied' \subseteq DOMAIN documents'
    BY <1>0, <2>1 DEF TypeOK, Without
  <2>4. inbox' \in Seq(Messages)
    BY <1>0, <1>8, NextMessage DEF DidClose, Handling, Took
  <2> QED BY <1>0, <1>8, <2>2, <2>3, <2>4
          DEF TypeOK, DidClose, scanVars, hintVars, worldVars
<1>9. CASE DidChangeConfiguration
  <2>1. inbox' \in Seq(Messages) /\ Head(inbox).payload \in Payloads
    BY <1>0, <1>9, NextMessage DEF DidChangeConfiguration, Handling, Took
  <2>2. settings' \in ServerSettings
    BY <1>0, <1>9, <2>1, FromValueTyped, PayloadAssumption
    DEF TypeOK, DidChangeConfiguration
  <2>3. published' \in [Uris -> SUBSET DiagnosticKinds]
    <3>1. \A uri \in DOMAIN documents : documents[uri] \in Texts
      BY <1>0 DEF TypeOK, IsMap
    <3>2. CASE published' = published
      BY <1>0, <3>2 DEF TypeOK
    <3>3. CASE published' =
                 [u \in Uris |->
                   IF u \in DOMAIN documents
                   THEN VisibleDiagnostics(documents[u], settings'.diagnostics)
                   ELSE published[u]]
      <4>1. \A u \in DOMAIN documents :
              VisibleDiagnostics(documents[u], settings'.diagnostics)
                \in SUBSET DiagnosticKinds
        BY <3>1, DiagnosticsTyped
      <4>2. \A u \in Uris : published[u] \in SUBSET DiagnosticKinds
        BY <1>0 DEF TypeOK
      <4> QED BY <3>3, <4>1, <4>2
    <3> QED BY <1>9, <3>2, <3>3 DEF DidChangeConfiguration
  <2>4. waiting' \in 0..Slots
    BY <1>0, <1>9, ServerAssumption
    DEF TypeOK, DidChangeConfiguration, Handling, Serving, InFlight
  <2> QED BY <1>0, <1>9, <2>1, <2>2, <2>3, <2>4
          DEF TypeOK, DidChangeConfiguration, scanVars, worldVars
<1>10. ASSUME NEW uri \in FileUris, DidChangeWatchedFile(uri) PROVE TypeOK'
  <2>1. unseen' \subseteq FileUris
    BY <1>0, <1>10, DidChangeWatchedFileStep DEF TypeOK
  <2>2. events' \in [FileUris -> Seq(EventKinds)]
    <3>1. Tail(events[uri]) \in Seq(EventKinds)
      BY <1>0, <1>10, HeadTailProperties DEF TypeOK, DidChangeWatchedFile
    <3> QED BY <1>0, <1>10, <3>1 DEF TypeOK, DidChangeWatchedFile
  <2> QED BY <1>0, <1>10, <2>1, <2>2
          DEF TypeOK, DidChangeWatchedFile, scanVars, hintVars
<1>11. CASE InlayHint
  <2>1. hints' \in HintOptions
    BY <1>0, <1>11 DEF TypeOK, InlayHint, ServerSettings
  <2>2. requery' \in BOOLEAN
    BY <1>11, Zenon DEF InlayHint
  <2> QED BY <1>0, <1>11, <2>1, <2>2
          DEF TypeOK, InlayHint, scanVars, worldVars
<1>12. CASE AnswerRefresh
  <2>1. requery' \in BOOLEAN
    BY <1>12, Zenon DEF AnswerRefresh
  <2>2. waiting' \in 0..Slots
    BY <1>0, <1>12, ServerAssumption DEF TypeOK, AnswerRefresh
  <2> QED BY <1>0, <1>12, <2>1, <2>2
          DEF TypeOK, AnswerRefresh, scanVars, worldVars
<1>13. ASSUME NEW uri \in Uris, NEW text \in Texts, Open(uri, text)
       PROVE  TypeOK'
  <2>1. IsMap(buffers', Uris, Texts)
    BY <1>0, <1>13, WithMap DEF TypeOK, Open
  <2>2. inbox' \in Seq(Messages)
    BY <1>0, <1>13, SendTyped DEF TypeOK, Open, Messages, OpenMessages
  <2> QED BY <1>0, <1>13, <2>1, <2>2 DEF TypeOK, Open, serverVars, scanVars
<1>14. ASSUME NEW uri \in Uris, NEW changes \in ChangeBatches,
              Edit(uri, changes)
       PROVE  TypeOK'
  <2>1. changes \in Seq(Changes) /\ changes[Len(changes)].text \in Texts
    <3>1. PICK n \in 1..MaxChanges : changes \in [1..n -> Changes]
      BY DEF ChangeBatches
    <3>2. n \in Nat /\ n # 0
      BY ServerAssumption
    <3>3. changes \in Seq(Changes) /\ Len(changes) = n
      BY <3>1, <3>2
    <3> QED BY <3>1, <3>2, <3>3 DEF Changes
  <2>2. IsMap(buffers', Uris, Texts)
    BY <1>0, <1>14, <2>1, WithMap DEF TypeOK, Edit
  <2>3. inbox' \in Seq(Messages)
    BY <1>0, <1>14, <2>1, SendTyped DEF TypeOK, Edit, Messages, ChangeMessages
  <2> QED BY <1>0, <1>14, <2>2, <2>3 DEF TypeOK, Edit, serverVars, scanVars
<1>15. ASSUME NEW uri \in Uris, Close(uri) PROVE TypeOK'
  <2>1. IsMap(buffers', Uris, Texts)
    BY <1>0, <1>15, WithoutMap DEF TypeOK, Close
  <2>2. inbox' \in Seq(Messages)
    BY <1>0, <1>15, SendTyped DEF TypeOK, Close, Messages, CloseMessages
  <2> QED BY <1>0, <1>15, <2>1, <2>2 DEF TypeOK, Close, serverVars, scanVars
<1>16. ASSUME NEW payload \in Payloads, Configure(payload) PROVE TypeOK'
  <2>1. inbox' \in Seq(Messages)
    BY <1>0, <1>16, SendTyped
    DEF TypeOK, Configure, Messages, ConfigMessages
  <2> QED BY <1>0, <1>16, <2>1
          DEF TypeOK, Configure, serverVars, scanVars, worldVars
<1>17. ASSUME NEW uri \in FileUris, NEW content \in Texts \cup {Absent},
              DiskWrite(uri, content)
       PROVE  TypeOK'
  <2>1. events' \in [FileUris -> Seq(EventKinds)]
    <3>1. \A k \in EventKinds : Append(events[uri], k) \in Seq(EventKinds)
      BY <1>0, AppendProperties DEF TypeOK
    <3> QED BY <1>0, <1>17, <3>1 DEF TypeOK, DiskWrite, EventKinds
  <2>2. disk' \in [FileUris -> Texts \cup {Absent}]
    BY <1>0, <1>17 DEF TypeOK, DiskWrite
  <2>3. unseen' \subseteq FileUris
    BY <1>0, <1>17 DEF TypeOK, DiskWrite
  <2> QED BY <1>0, <1>17, <2>1, <2>2, <2>3
          DEF TypeOK, DiskWrite, serverVars, scanVars
<1>18. CASE UNCHANGED vars
  BY <1>0, <1>18 DEF TypeOK, vars, scanVars, hintVars, worldVars
<1> QED
  BY <1>1, <1>2, <1>3, <1>4, <1>5, <1>6, <1>7, <1>8, <1>9, <1>10, <1>11,
     <1>12, <1>13, <1>14, <1>15, <1>16, <1>17, <1>18
  DEF Next, Start, Handler, Answer, User, World

-----------------------------------------------------------------------------
(* The inductive invariant holds. *)

\* No handler takes a notification before initialize is answered, and the
\* phase never goes back.
LEMMA StartingStep ==
  ASSUME ServerInv, [Next]_vars
  PROVE  Starting'
<1> USE DEF ServerInv, Starting
<1>1. CASE Start
  BY <1>1 DEF Start, WalkRoot, ScanNext, AnswerInitialize, Initialized
<1>2. CASE Handler
  BY <1>2 DEF Handler, DidOpen, DidChange, DidClose, DidChangeConfiguration,
              DidChangeWatchedFile, InlayHint, Handling, Serving, scanVars
<1>3. CASE Answer
  BY <1>3 DEF Answer, ClientRegisters, AnswerRefresh, scanVars
<1>4. CASE User \/ World
  BY <1>4 DEF User, World, Open, Edit, Close, Configure, DiskWrite,
              serverVars, scanVars
<1>5. CASE UNCHANGED vars
  BY <1>5 DEF vars, scanVars
<1> QED BY <1>1, <1>2, <1>3, <1>4, <1>5 DEF Next

\* Taking the first event of a queue leaves its last one last.
LEMMA LastOfTail ==
  ASSUME NEW T, NEW s \in Seq(T), s # <<>>, Tail(s) # <<>>
  PROVE  Tail(s)[Len(Tail(s))] = s[Len(s)]
  BY HeadTailProperties, EmptySeq, LenProperties

LEMMA EventsToldStep ==
  ASSUME ServerInv, [Next]_vars
  PROVE  EventsTold'
<1>0. TypeOK /\ EventsTold /\ events \in [FileUris -> Seq(EventKinds)]
  BY DEF ServerInv, TypeOK
<1>1. ASSUME UNCHANGED <<events, disk>>, phase = "watching" => phase' = phase
      PROVE  EventsTold'
  BY <1>0, <1>1 DEF EventsTold
<1>2. ASSUME NEW uri \in FileUris, DidChangeWatchedFile(uri)
      PROVE  EventsTold'
  <2>1. /\ phase' = phase /\ disk' = disk
        /\ events' = [events EXCEPT ![uri] = Tail(@)]
        /\ events[uri] # <<>>
    BY <1>2 DEF DidChangeWatchedFile, scanVars
  <2>2. events'[uri] # <<>> =>
          events'[uri][Len(events'[uri])] = events[uri][Len(events[uri])]
    BY <1>0, <2>1, LastOfTail
  <2> QED BY <1>0, <2>1, <2>2 DEF EventsTold
<1>3. ASSUME NEW uri \in FileUris, NEW content \in Texts \cup {Absent},
             DiskWrite(uri, content)
      PROVE  EventsTold'
  <2>1. phase' = phase /\ disk' = [disk EXCEPT ![uri] = content]
    BY <1>3 DEF DiskWrite, serverVars, scanVars
  <2>2. disk' \in [FileUris -> Texts \cup {Absent}] /\ disk'[uri] = content
    BY <1>0, <2>1 DEF TypeOK
  <2>3. CASE phase = "watching" /\ uri \in Watched
    <3>1. PICK kind \in EventKinds :
            /\ kind = "Deleted" => content = Absent
            /\ events' = [events EXCEPT ![uri] = Append(@, kind)]
      BY <1>3, <2>3 DEF DiskWrite, EventKinds
    <3>2. /\ Len(Append(events[uri], kind)) = Len(events[uri]) + 1
          /\ Append(events[uri], kind)[Len(events[uri]) + 1] = kind
      BY <1>0, AppendProperties
    <3>3. events'[uri][Len(events'[uri])] = kind
      BY <1>0, <3>1, <3>2
    <3>4. ASSUME NEW v \in FileUris, v # uri
          PROVE  events'[v] = events[v] /\ disk'[v] = disk[v]
      BY <1>0, <2>1, <3>1, <3>4 DEF TypeOK
    <3> QED BY <1>0, <2>1, <2>2, <2>3, <3>1, <3>3, <3>4 DEF EventsTold
  <2>4. CASE ~(phase = "watching" /\ uri \in Watched)
    <3>1. events' = events /\ events[uri] = <<>>
      BY <1>0, <1>3, <2>4 DEF DiskWrite, EventsTold
    <3> QED BY <1>0, <2>1, <3>1 DEF EventsTold, TypeOK
  <2> QED BY <2>3, <2>4
<1>4. CASE Start
  BY <1>1, <1>4 DEF Start, WalkRoot, ScanNext, AnswerInitialize, Initialized,
                    worldVars
<1>5. CASE DidOpen \/ DidChange \/ DidClose \/ DidChangeConfiguration
             \/ InlayHint
  BY <1>1, <1>5 DEF DidOpen, DidChange, DidClose, DidChangeConfiguration,
                    InlayHint, worldVars, scanVars
<1>6. CASE Answer
  BY <1>1, <1>6 DEF Answer, ClientRegisters, AnswerRefresh, worldVars, scanVars
<1>7. CASE User
  BY <1>1, <1>7 DEF User, Open, Edit, Close, Configure, serverVars, scanVars,
                    worldVars
<1>8. CASE UNCHANGED vars
  BY <1>1, <1>8 DEF vars, worldVars, scanVars
<1> QED BY <1>2, <1>3, <1>4, <1>5, <1>6, <1>7, <1>8 DEF Next, Handler, World

\* The inductive invariant.
THEOREM ServerAlwaysInv == Spec => []ServerInv
<1>1. Init => ServerInv
  BY TypeInit, IndexInvInit DEF Init, ServerInv, Starting, EventsTold
<1>2. ServerInv /\ [Next]_vars => ServerInv'
  <2> SUFFICES ASSUME ServerInv, [Next]_vars PROVE ServerInv'
    OBVIOUS
  <2>1. IndexInv'
    BY IndexStep DEF ServerInv
  <2> QED BY <2>1, TypeStep, StartingStep, EventsToldStep DEF ServerInv
<1> QED BY <1>1, <1>2, PTL DEF Spec

\* Every variable of the server, the client and the disk keeps its type; in
\* particular no more handlers wait for the client than there are slots.
THEOREM ServerTypeCorrect == Spec => []TypeOK
<1>1. ServerInv => TypeOK
  BY DEF ServerInv
<1> QED BY <1>1, ServerAlwaysInv, PTL

-----------------------------------------------------------------------------
(* The index and the texts. *)

\* A step that moves neither the index nor the documents keeps them together.
LEMMA OpenFilesStay ==
  ASSUME OpenFilesIndexed, UNCHANGED <<indexVars, documents, halfApplied>>
  PROVE  OpenFilesIndexed'
<1> SUFFICES ASSUME NEW uri \in (DOMAIN documents \ halfApplied)'
             PROVE  FiledAs(uri, documents[uri])'
  BY DEF OpenFilesIndexed
<1>1. PICK text : text = documents[uri]
  OBVIOUS
<1>2. FiledAs(uri, text)
  BY <1>1 DEF OpenFilesIndexed
<1>3. FiledAs(uri, text)'
  BY <1>2, SameIndexKeeps, KeepsFiled
<1> QED BY <1>1, <1>3

\* A step that moves one document keeps the index and the documents together
\* if the facts of that document become those of its new text.
LEMMA OpenFilesMove ==
  ASSUME OpenFilesIndexed, DOMAIN documents \subseteq Uris,
         DOMAIN documents' \subseteq Uris, NEW uri \in Uris,
         \A v \in Uris : v # uri => Keeps(v),
         \A v \in DOMAIN documents' : v # uri =>
            /\ v \in DOMAIN documents /\ documents'[v] = documents[v]
            /\ v \in halfApplied => v \in halfApplied',
         NEW text,
         uri \in DOMAIN documents' \ halfApplied' =>
            documents'[uri] = text /\ FiledAs(uri, text)'
  PROVE  OpenFilesIndexed'
<1> SUFFICES ASSUME NEW v \in (DOMAIN documents \ halfApplied)'
             PROVE  FiledAs(v, documents[v])'
  BY DEF OpenFilesIndexed
<1>1. CASE v = uri
  BY <1>1
<1>2. CASE v # uri
  <2>1. PICK mine : mine = documents[v]
    OBVIOUS
  <2>2. FiledAs(v, mine) /\ documents'[v] = mine
    BY <1>2, <2>1 DEF OpenFilesIndexed
  <2>3. Keeps(v)
    BY <1>2
  <2>4. FiledAs(v, mine)'
    BY <2>2, <2>3, KeepsFiled
  <2> QED BY <2>2, <2>4
<1> QED BY <1>1, <1>2

LEMMA OpenFilesStep ==
  ASSUME ServerInv, OpenFilesIndexed, [Next]_vars
  PROVE  OpenFilesIndexed'
<1>0. /\ TypeOK /\ IndexInv /\ Starting
      /\ DOMAIN documents \subseteq Uris /\ DOMAIN documents' \subseteq Uris
  BY TypeStep DEF ServerInv, TypeOK, IsMap
<1>1. ASSUME NEW uri \in FileUris, ScanNext(uri) PROVE OpenFilesIndexed'
  <2>1. DOMAIN documents' = {}
    BY <1>0, <1>1 DEF ScanNext, Starting
  <2> QED BY <2>1 DEF OpenFilesIndexed
<1>2. CASE DidOpen
  <2>1. PICK uri \in Uris, text \in Texts :
          /\ documents' = With(documents, uri, text)
          /\ halfApplied' = halfApplied \ {uri}
          /\ FiledAs(uri, text)'
          /\ \A v \in Uris : v # uri => Keeps(v)
    BY <1>0, <1>2, DidOpenStep
  <2>2. /\ documents'[uri] = text
        /\ \A v \in DOMAIN documents' : v # uri =>
             v \in DOMAIN documents /\ documents'[v] = documents[v]
    BY <2>1 DEF With
  <2> QED BY <1>0, <2>1, <2>2, OpenFilesMove
<1>3. CASE DidChange
  <2>1. CASE /\ \A v \in Uris : Keeps(v)
             /\ UNCHANGED <<documents, halfApplied>>
    <3> SUFFICES ASSUME NEW v \in DOMAIN documents \ halfApplied
                 PROVE  FiledAs(v, documents[v])'
      BY <2>1 DEF OpenFilesIndexed
    <3>1. PICK mine : mine = documents[v]
      OBVIOUS
    <3>2. Keeps(v) /\ FiledAs(v, mine)
      BY <1>0, <2>1, <3>1 DEF OpenFilesIndexed
    <3>3. FiledAs(v, mine)' /\ documents'[v] = mine
      BY <2>1, <3>1, <3>2, KeepsFiled
    <3> QED BY <3>3
  <2>2. ASSUME NEW uri \in Uris, NEW text \in Texts,
               \A v \in Uris : v # uri => Keeps(v),
               documents' = With(documents, uri, text),
               \/ halfApplied' = halfApplied \cup {uri}
               \/ FiledAs(uri, text)' /\ halfApplied' = halfApplied \ {uri}
        PROVE  OpenFilesIndexed'
    <3>1. /\ documents'[uri] = text
          /\ \A v \in DOMAIN documents' : v # uri =>
               v \in DOMAIN documents /\ documents'[v] = documents[v]
      BY <2>2 DEF With
    <3>2. uri \in DOMAIN documents' \ halfApplied' => FiledAs(uri, text)'
      BY <2>2
    <3>3. \A v : v # uri /\ v \in halfApplied => v \in halfApplied'
      BY <2>2
    <3> QED BY <1>0, <2>2, <3>1, <3>2, <3>3, OpenFilesMove
  <2> QED BY <1>0, <1>3, <2>1, <2>2, DidChangeStep
<1>4. CASE DidClose
  <2>1. PICK uri \in Uris :
          /\ documents' = Without(documents, uri)
          /\ halfApplied' = halfApplied \ {uri}
          /\ \A v \in Uris : v # uri => Keeps(v)
    BY <1>0, <1>4, DidCloseStep
  <2>2. /\ uri \notin DOMAIN documents'
        /\ \A v \in DOMAIN documents' : v # uri =>
             v \in DOMAIN documents /\ documents'[v] = documents[v]
    BY <2>1 DEF Without
  <2> QED BY <1>0, <2>1, <2>2, OpenFilesMove
<1>5. ASSUME NEW uri \in FileUris, DidChangeWatchedFile(uri)
      PROVE  OpenFilesIndexed'
  <2>1. UNCHANGED <<documents, halfApplied>>
    BY <1>5 DEF DidChangeWatchedFile
  <2>2. /\ uri \in Uris
        /\ \A v \in Uris : v # uri => Keeps(v)
        /\ uri \in DOMAIN documents => Keeps(uri)
    BY <1>0, <1>5, DidChangeWatchedFileStep
  <2> SUFFICES ASSUME NEW v \in DOMAIN documents \ halfApplied
               PROVE  FiledAs(v, documents[v])'
    BY <2>1 DEF OpenFilesIndexed
  <2>3. PICK mine : mine = documents[v]
    OBVIOUS
  <2>4. Keeps(v) /\ FiledAs(v, mine)
    BY <1>0, <2>2, <2>3 DEF OpenFilesIndexed
  <2>5. FiledAs(v, mine)' /\ documents'[v] = mine
    BY <2>1, <2>3, <2>4, KeepsFiled
  <2> QED BY <2>5
<1>6. CASE \/ \E root \in Roots : WalkRoot(root)
           \/ \E options \in InitializationOptions : AnswerInitialize(options)
           \/ Initialized \/ DidChangeConfiguration \/ InlayHint
           \/ Answer \/ User \/ World
  BY <1>6, OpenFilesStay
  DEF WalkRoot, AnswerInitialize, Initialized, DidChangeConfiguration,
      InlayHint, Answer, ClientRegisters, AnswerRefresh, User, Open, Edit,
      Close, Configure, World, DiskWrite, serverVars
<1>7. CASE UNCHANGED vars
  BY <1>7, OpenFilesStay DEF vars
<1> QED BY <1>1, <1>2, <1>3, <1>4, <1>5, <1>6, <1>7 DEF Next, Start, Handler

\* An open document is indexed from its live text, whatever closes, saves,
\* watcher events and changes of other documents come between; the exception
\* is a document whose last batch of changes stopped half-way.
THEOREM OpenFilesAlwaysIndexed == Spec => []OpenFilesIndexed
<1>1. Init => OpenFilesIndexed
  BY DEF Init, OpenFilesIndexed
<1>2. ServerInv /\ OpenFilesIndexed /\ [Next]_vars => OpenFilesIndexed'
  BY OpenFilesStep
<1> QED BY <1>1, <1>2, ServerAlwaysInv, PTL DEF Spec

\* No step leaves a closed file whose events are delivered behind the disk.
LEMMA ClosedFilesStep ==
  ASSUME ServerInv, ClosedFilesFollowDisk, [Next]_vars
  PROVE  ClosedFilesFollowDisk'
<1>0. TypeOK /\ IndexInv /\ EventsTold /\ FileUris \subseteq Uris
  BY ServerAssumption DEF ServerInv
\* One file at a time.
<1> DEFINE Told(v) == v \notin DOMAIN documents \cup unseen /\ events[v] = <<>>
<1>a. \A v \in FileUris : Told(v) => FollowsDisk(v)
  BY DEF ClosedFilesFollowDisk, FollowsDisk
<1>b. (\A v \in FileUris : Told(v)' => FollowsDisk(v)')
        => ClosedFilesFollowDisk'
  BY DEF ClosedFilesFollowDisk, FollowsDisk
<1>c. ASSUME NEW v \in FileUris, Keeps(v), disk'[v] = disk[v], FollowsDisk(v)
      PROVE  FollowsDisk(v)'
  <2>1. CASE disk[v] = Absent
    BY <1>c, <2>1, KeepsFiled DEF FollowsDisk
  <2>2. CASE disk[v] # Absent
    <3>1. PICK text : text = disk[v]
      OBVIOUS
    <3>2. FiledAs(v, text)'
      BY <1>c, <2>2, <3>1, KeepsFiled DEF FollowsDisk
    <3> QED BY <1>c, <2>2, <3>1, <3>2 DEF FollowsDisk
  <2> QED BY <2>1, <2>2
<1>d. ASSUME \A v \in FileUris : Told(v)' =>
                FollowsDisk(v)' \/ (Told(v) /\ Keeps(v) /\ disk'[v] = disk[v])
      PROVE  ClosedFilesFollowDisk'
  BY <1>a, <1>b, <1>c, <1>d
<1>f. ASSUME NEW uri \in FileUris, Told(uri)' => FollowsDisk(uri)',
             \A v \in FileUris : v # uri =>
               (Told(v)' => Told(v) /\ Keeps(v) /\ disk'[v] = disk[v])
      PROVE  ClosedFilesFollowDisk'
  <2> SUFFICES ASSUME NEW v \in FileUris, Told(v)'
               PROVE  FollowsDisk(v)'
    BY <1>b
  <2>1. CASE v = uri
    BY <1>f, <2>1 DEF FollowsDisk, NotFiled, FiledAs
  <2>2. CASE v # uri
    BY <1>a, <1>c, <1>f, <2>2
  <2> QED BY <2>1, <2>2
<1>e. ASSUME UNCHANGED <<indexVars, documents, unseen, events, disk>>
      PROVE  ClosedFilesFollowDisk'
  BY <1>d, <1>e, SameIndexKeeps
<1>1. ASSUME NEW uri \in FileUris, ScanNext(uri)
      PROVE  ClosedFilesFollowDisk'
  <2>1. UNCHANGED <<documents, events, disk>>
    BY <1>1 DEF ScanNext, worldVars
  <2>2. /\ \A v \in Uris : v # uri => Keeps(v)
        /\ \/ Keeps(uri) /\ unseen' = unseen
           \/ FollowsDisk(uri)' /\ unseen' = unseen \ {uri}
    BY <1>0, <1>1, ScanNextStep
  <2>3. ASSUME NEW v \in FileUris, v # uri
        PROVE  Told(v)' => Told(v) /\ Keeps(v) /\ disk'[v] = disk[v]
    BY <1>0, <2>1, <2>2, <2>3
  <2>4. CASE Keeps(uri) /\ unseen' = unseen
    BY <1>d, <2>1, <2>3, <2>4
  <2>5. CASE FollowsDisk(uri)'
    BY <1>f, <2>3, <2>5
  <2> QED BY <2>2, <2>4, <2>5
<1>2. CASE DidOpen
  <2>1. PICK uri \in Uris, text \in Texts :
          /\ documents' = With(documents, uri, text)
          /\ \A v \in Uris : v # uri => Keeps(v)
    BY <1>0, <1>2, DidOpenStep
  <2>2. UNCHANGED <<events, disk, unseen>>
    BY <1>2 DEF DidOpen, worldVars
  <2>3. DOMAIN documents' = DOMAIN documents \cup {uri}
    BY <2>1 DEF With
  <2> QED BY <1>0, <1>d, <2>1, <2>2, <2>3
<1>3. CASE DidChange
  <2>1. \/ \A v \in Uris : Keeps(v) /\ documents' = documents
        \/ \E uri \in DOMAIN documents :
             /\ \A v \in Uris : v # uri => Keeps(v)
             /\ \E text \in Texts : documents' = With(documents, uri, text)
    BY <1>0, <1>3, DidChangeStep
  <2>2. UNCHANGED <<events, disk, unseen>>
    BY <1>3 DEF DidChange, worldVars
  <2>3. DOMAIN documents' = DOMAIN documents
    BY <1>0, <1>3, DidChangeStep DEF With
  <2>4. ASSUME NEW v \in FileUris, Told(v)'
        PROVE  Told(v) /\ Keeps(v) /\ disk'[v] = disk[v]
    BY <1>0, <2>1, <2>2, <2>3, <2>4
  <2> QED BY <1>d, <2>4
<1>4. CASE DidClose
  <2>1. PICK uri \in Uris :
          /\ documents' = Without(documents, uri)
          /\ unseen' = unseen \ {uri}
          /\ uri \in FileUris => FollowsDisk(uri)'
          /\ \A v \in Uris : v # uri => Keeps(v)
    BY <1>0, <1>4, DidCloseStep
  <2>2. UNCHANGED <<events, disk>>
    BY <1>4 DEF DidClose, worldVars
  <2>3. DOMAIN documents' = DOMAIN documents \ {uri}
    BY <2>1 DEF Without
  <2>4. ASSUME NEW v \in FileUris, v # uri, Told(v)'
        PROVE  Told(v) /\ Keeps(v) /\ disk'[v] = disk[v]
    BY <1>0, <2>1, <2>2, <2>3, <2>4
  <2>5. CASE uri \in FileUris
    BY <1>f, <2>1, <2>4, <2>5
  <2>6. CASE uri \notin FileUris
    BY <1>d, <2>4, <2>6
  <2> QED BY <2>5, <2>6
<1>5. ASSUME NEW uri \in FileUris, DidChangeWatchedFile(uri)
      PROVE  ClosedFilesFollowDisk'
  <2>1. /\ UNCHANGED <<documents, disk>>
        /\ events' = [events EXCEPT ![uri] = Tail(@)] /\ events[uri] # <<>>
    BY <1>5 DEF DidChangeWatchedFile
  <2>2. /\ \A v \in Uris : v # uri => Keeps(v)
        /\ unseen' = unseen \/ unseen' = unseen \ {uri}
        /\ uri \notin DOMAIN documents =>
             IF Head(events[uri]) = "Deleted" THEN NotFiled(uri)'
                                              ELSE FollowsDisk(uri)'
    BY <1>0, <1>5, DidChangeWatchedFileStep
  <2>3. ASSUME Told(uri)' PROVE FollowsDisk(uri)'
    <3>1. events[uri] \in Seq(EventKinds) /\ Tail(events[uri]) = <<>>
      BY <1>0, <2>1, <2>3 DEF TypeOK
    <3>2. events[uri][Len(events[uri])] = Head(events[uri])
      <4>1. Len(Tail(events[uri])) = Len(events[uri]) - 1
        BY <2>1, <3>1, HeadTailProperties
      <4>2. Len(events[uri]) \in Nat
        BY <3>1, LenProperties
      <4>3. Len(Tail(events[uri])) = 0
        BY <3>1, EmptySeq
      <4>4. Len(events[uri]) = 1
        BY <4>1, <4>2, <4>3
      <4> QED BY <3>1, <4>4
    <3>3. Head(events[uri]) = "Deleted" => disk'[uri] = Absent
      BY <1>0, <2>1, <3>2 DEF EventsTold
    <3> QED BY <2>1, <2>2, <2>3, <3>3 DEF FollowsDisk
  <2>4. ASSUME NEW v \in FileUris, v # uri
        PROVE  Told(v)' => Told(v) /\ Keeps(v) /\ disk'[v] = disk[v]
    BY <1>0, <2>1, <2>2, <2>4 DEF TypeOK
  <2> QED BY <1>f, <2>3, <2>4
<1>6. ASSUME NEW uri \in FileUris, NEW content \in Texts \cup {Absent},
             DiskWrite(uri, content)
      PROVE  ClosedFilesFollowDisk'
  <2>1. /\ UNCHANGED <<indexVars, documents>>
        /\ disk' = [disk EXCEPT ![uri] = content]
    BY <1>6 DEF DiskWrite, serverVars
  <2>2. CASE phase = "watching" /\ uri \in Watched
    <3>1. PICK kind \in EventKinds :
            events' = [events EXCEPT ![uri] = Append(@, kind)]
      BY <1>6, <2>2 DEF DiskWrite, EventKinds
    <3>2. unseen' = unseen
      BY <1>6, <2>2 DEF DiskWrite
    <3>3. Append(events[uri], kind) # <<>>
      BY <1>0, AppendProperties, EmptySeq DEF TypeOK
    <3>4. ~Told(uri)'
      BY <1>0, <3>1, <3>3 DEF TypeOK
    <3>5. ASSUME NEW v \in FileUris, v # uri
          PROVE  Told(v)' => Told(v) /\ Keeps(v) /\ disk'[v] = disk[v]
      BY <1>0, <2>1, <3>1, <3>2, <3>5, SameIndexKeeps DEF TypeOK
    <3> QED BY <1>d, <3>4, <3>5
  <2>3. CASE ~(phase = "watching" /\ uri \in Watched)
    <3>1. unseen' = unseen \cup {uri} /\ events' = events
      BY <1>6, <2>3 DEF DiskWrite
    <3>2. ASSUME NEW v \in FileUris
          PROVE  Told(v)' => Told(v) /\ Keeps(v) /\ disk'[v] = disk[v]
      BY <1>0, <2>1, <3>1, SameIndexKeeps DEF TypeOK
    <3> QED BY <1>d, <3>2
  <2> QED BY <2>2, <2>3
<1>7. CASE \/ \E root \in Roots : WalkRoot(root)
           \/ \E options \in InitializationOptions : AnswerInitialize(options)
           \/ Initialized \/ DidChangeConfiguration \/ InlayHint \/ Answer
           \/ User
  BY <1>7, <1>e
  DEF WalkRoot, AnswerInitialize, Initialized, DidChangeConfiguration,
      InlayHint, Answer, ClientRegisters, AnswerRefresh, User, Open, Edit,
      Close, Configure, serverVars, worldVars
<1>8. CASE UNCHANGED vars
  BY <1>8, <1>e DEF vars, worldVars
<1> QED BY <1>1, <1>2, <1>3, <1>4, <1>5, <1>6, <1>7, <1>8
        DEF Next, Start, Handler, World

\* A closed file is indexed from the disk as soon as its events are delivered,
\* whatever order opens, closes, writes and events came in: an event handled
\* late, or skipped because the file was open, never leaves an older text.
THEOREM ClosedFilesAlwaysFollowDisk == Spec => []ClosedFilesFollowDisk
<1>1. Init => ClosedFilesFollowDisk
  BY DEF Init, IndexInit, ClosedFilesFollowDisk, NotFiled, Entries, At
<1>2. ServerInv /\ ClosedFilesFollowDisk /\ [Next]_vars
        => ClosedFilesFollowDisk'
  BY ClosedFilesStep
<1> QED BY <1>1, <1>2, ServerAlwaysInv, PTL DEF Spec

-----------------------------------------------------------------------------
(* What the client shows. *)

\* A handler that publishes one document keeps the others current.
LEMMA PublishOne ==
  ASSUME TypeOK, PublishedCurrent, NEW uri \in Uris, NEW text,
         documents' = With(documents, uri, text), settings' = settings,
         \/ halfApplied' = halfApplied \cup {uri} /\ published' = published
         \/ /\ halfApplied' = halfApplied \ {uri}
            /\ published' = [published EXCEPT ![uri] =
                 VisibleDiagnostics(text, settings.diagnostics)]
  PROVE  PublishedCurrent'
<1> SUFFICES ASSUME NEW v \in DOMAIN documents' \ halfApplied'
             PROVE  published'[v] =
                      VisibleDiagnostics(documents'[v], settings.diagnostics)
  BY DEF PublishedCurrent, VisibleDiagnostics, Allows
<1>1. /\ documents'[v] = IF v = uri THEN text ELSE documents[v]
      /\ v # uri => v \in DOMAIN documents
  BY DEF With
<1>2. v \in Uris /\ published \in [Uris -> SUBSET DiagnosticKinds]
  BY <1>1 DEF TypeOK, IsMap
<1>3. CASE v = uri
  BY <1>1, <1>2, <1>3
<1>4. CASE v # uri
  <2>1. v \in DOMAIN documents \ halfApplied
    BY <1>1, <1>4
  <2>2. published[v] = VisibleDiagnostics(documents[v], settings.diagnostics)
    BY <2>1 DEF PublishedCurrent
  <2>3. published'[v] = published[v]
    BY <1>2, <1>4
  <2> QED BY <1>1, <1>4, <2>2, <2>3
<1> QED BY <1>3, <1>4

LEMMA PublishedStep ==
  ASSUME ServerInv, PublishedCurrent, [Next]_vars
  PROVE  PublishedCurrent'
<1>0. TypeOK /\ IndexInv /\ Starting
  BY DEF ServerInv
<1>1. ASSUME UNCHANGED <<documents, halfApplied, published, settings>>
      PROVE  PublishedCurrent'
  BY <1>1 DEF PublishedCurrent, VisibleDiagnostics, Allows
<1>2. ASSUME NEW options \in InitializationOptions, AnswerInitialize(options)
      PROVE  PublishedCurrent'
  <2>1. DOMAIN documents' = {}
    BY <1>0, <1>2 DEF AnswerInitialize, Starting
  <2> QED BY <2>1 DEF PublishedCurrent
<1>3. CASE DidOpen
  <2>1. settings' = settings
    BY <1>3 DEF DidOpen
  <2> QED BY <1>0, <1>3, <2>1, DidOpenStep, PublishOne
<1>4. CASE DidChange
  <2>1. settings' = settings
    BY <1>4 DEF DidChange
  <2> QED BY <1>0, <1>1, <1>4, <2>1, DidChangeStep, PublishOne
<1>5. CASE DidClose
  <2>1. PICK uri \in Uris :
          /\ documents' = Without(documents, uri)
          /\ halfApplied' = halfApplied \ {uri}
    BY <1>0, <1>5, DidCloseStep
  <2>2. UNCHANGED <<published, settings>>
    BY <1>5 DEF DidClose
  <2>3. \A v \in DOMAIN documents' \ halfApplied' :
          v \in DOMAIN documents \ halfApplied /\ documents'[v] = documents[v]
    BY <2>1 DEF Without
  <2> QED BY <2>2, <2>3 DEF PublishedCurrent, VisibleDiagnostics, Allows
<1>6. CASE DidChangeConfiguration
  <2>1. UNCHANGED <<documents, halfApplied>>
    BY <1>6 DEF DidChangeConfiguration
  <2>2. CASE UNCHANGED <<settings, published>>
    BY <1>1, <2>1, <2>2
  <2>3. CASE /\ PolicyChanged(settings, settings')
             /\ published' =
                  [u \in Uris |->
                    IF u \in DOMAIN documents
                    THEN VisibleDiagnostics(documents[u],
                                            settings'.diagnostics)
                    ELSE published[u]]
    <3>1. DOMAIN documents \subseteq Uris
      BY <1>0 DEF TypeOK, IsMap
    <3> QED BY <2>1, <2>3, <3>1 DEF PublishedCurrent, VisibleDiagnostics, Allows
  <2>4. CASE /\ ~PolicyChanged(settings, settings')
             /\ published' = published
    <3>1. settings'.diagnostics = settings.diagnostics
      BY <2>4 DEF PolicyChanged
    <3> QED BY <2>1, <2>4, <3>1 DEF PublishedCurrent, VisibleDiagnostics, Allows
  <2> QED BY <1>6, <2>2, <2>3, <2>4 DEF DidChangeConfiguration
<1>7. CASE \/ \E root \in Roots : WalkRoot(root)
           \/ \E uri \in FileUris : ScanNext(uri)
           \/ Initialized \/ InlayHint \/ Answer \/ User \/ World
           \/ \E uri \in FileUris : DidChangeWatchedFile(uri)
  BY <1>1, <1>7
  DEF WalkRoot, ScanNext, Initialized, InlayHint, Answer, ClientRegisters,
      AnswerRefresh, User, Open, Edit, Close, Configure, World, DiskWrite,
      DidChangeWatchedFile, serverVars
<1>8. CASE UNCHANGED vars
  BY <1>1, <1>8 DEF vars
<1> QED BY <1>2, <1>3, <1>4, <1>5, <1>6, <1>7, <1>8 DEF Next, Start, Handler

\* What is published for an open document is what the policy in force shows of
\* its text, although no watcher event, close or hint setting publishes.
THEOREM PublishedAlwaysCurrent == Spec => []PublishedCurrent
<1>1. Init => PublishedCurrent
  BY DEF Init, PublishedCurrent
<1>2. ServerInv /\ PublishedCurrent /\ [Next]_vars => PublishedCurrent'
  BY PublishedStep
<1> QED BY <1>1, <1>2, ServerAlwaysInv, PTL DEF Spec

LEMMA HintsStep ==
  ASSUME ServerInv, HintsRefreshed, [Next]_vars
  PROVE  HintsRefreshed'
<1>0. TypeOK
  BY DEF ServerInv
<1>1. ASSUME UNCHANGED <<settings, hints, waiting, requery>>
      PROVE  HintsRefreshed'
  BY <1>1 DEF HintsRefreshed
<1>2. ASSUME hints' = settings'.inlayHints PROVE HintsRefreshed'
  BY <1>2 DEF HintsRefreshed
<1>3. CASE \E options \in InitializationOptions : AnswerInitialize(options)
  BY <1>2, <1>3 DEF AnswerInitialize
<1>4. CASE InlayHint
  BY <1>2, <1>4 DEF InlayHint
<1>5. CASE AnswerRefresh
  BY <1>5 DEF AnswerRefresh, HintsRefreshed
<1>6. CASE DidChangeConfiguration
  <2>1. UNCHANGED <<hints, requery>> /\ waiting \in Nat
    BY <1>0, <1>6, ServerAssumption DEF DidChangeConfiguration, TypeOK
  <2>2. CASE UNCHANGED <<settings, waiting>>
    BY <1>1, <2>1, <2>2
  <2>3. CASE waiting' = waiting + 1
    BY <2>1, <2>3 DEF HintsRefreshed
  <2>4. CASE /\ ~(RefreshSupport /\ HintsChanged(settings, settings'))
             /\ waiting' = waiting
    BY <2>1, <2>4 DEF HintsRefreshed, HintsChanged
  <2> QED BY <1>6, <2>2, <2>3, <2>4 DEF DidChangeConfiguration
<1>7. CASE \/ \E root \in Roots : WalkRoot(root)
           \/ \E uri \in FileUris : ScanNext(uri)
           \/ Initialized \/ DidOpen \/ DidChange \/ DidClose
           \/ \E uri \in FileUris : DidChangeWatchedFile(uri)
           \/ ClientRegisters \/ User \/ World
  BY <1>1, <1>7
  DEF WalkRoot, ScanNext, Initialized, DidOpen, DidChange, DidClose,
      DidChangeWatchedFile, ClientRegisters, User, Open, Edit, Close,
      Configure, World, DiskWrite, serverVars, hintVars
<1>8. CASE UNCHANGED vars
  BY <1>1, <1>8 DEF vars, hintVars
<1> QED BY <1>3, <1>4, <1>5, <1>6, <1>7, <1>8 DEF Next, Start, Handler, Answer

\* Hints made with other options than those in force are about to be replaced,
\* for any number of slots and any interleaving of changes and answers.
THEOREM HintsAlwaysRefreshed == Spec => []HintsRefreshed
<1>1. Init => HintsRefreshed
  BY DEF Init, HintsRefreshed, DefaultSettings
<1>2. ServerInv /\ HintsRefreshed /\ [Next]_vars => HintsRefreshed'
  BY HintsStep
<1> QED BY <1>1, <1>2, ServerAlwaysInv, PTL DEF Spec

-----------------------------------------------------------------------------
(* The index inside the server. *)

LEMMA ReindexIsIndexNext ==
  ASSUME TypeOK, NEW uri \in Uris, ReindexFromDisk(uri)
  PROVE  [IndexNext]_indexVars
<1>1. CASE uri \in FileUris /\ disk[uri] # Absent
  <2>1. disk[uri] \in Texts
    BY <1>1 DEF TypeOK
  <2> QED BY <1>1, <2>1 DEF ReindexFromDisk, IndexNext
<1>2. CASE uri \in FileUris /\ disk[uri] = Absent
  BY <1>2 DEF ReindexFromDisk, IndexNext
<1>3. CASE uri \notin FileUris
  BY <1>3 DEF ReindexFromDisk
<1> QED BY <1>1, <1>2, <1>3

LEMMA ServerStepIsIndexStep ==
  ASSUME TypeOK, TypeOK', [Next]_vars
  PROVE  [IndexNext]_indexVars
<1>1. ASSUME NEW uri \in FileUris, ScanNext(uri) PROVE [IndexNext]_indexVars
  <2>1. uri \in Uris
    BY ServerAssumption
  <2>2. CASE disk[uri] # Absent
    <3>1. disk[uri] \in Texts
      BY <2>2 DEF TypeOK
    <3>2. ScanFile(uri, disk[uri])
      BY <1>1, <2>2 DEF ScanNext
    <3> QED BY <2>1, <3>1, <3>2 DEF IndexNext
  <2> QED BY <1>1, <2>2 DEF ScanNext
<1>2. CASE DidOpen
  <2>1. Head(inbox).uri \in Uris /\ Head(inbox).text \in Texts
    BY <1>2, NextMessage DEF DidOpen, Handling
  <2>2. IndexFile(Head(inbox).uri, Head(inbox).text)
    BY <1>2 DEF DidOpen
  <2> QED BY <2>1, <2>2 DEF IndexNext
<1>3. CASE DidChange
  <2>1. PICK uri \in Uris : uri = Head(inbox).uri
    BY <1>3, NextMessage DEF DidChange, Handling
  <2>2. UNCHANGED indexVars \/ IndexFile(uri, documents'[uri])
    BY <1>3, <2>1 DEF DidChange
  <2>3. uri \in DOMAIN documents' => documents'[uri] \in Texts
    BY DEF TypeOK, IsMap
  <2>4. CASE uri \in DOMAIN documents'
    BY <2>2, <2>3, <2>4 DEF IndexNext
  <2>5. CASE uri \notin DOMAIN documents'
    <3>1. uri \notin DOMAIN documents
      BY <1>3, <2>1, <2>5 DEF DidChange, With
    <3> QED BY <1>3, <2>1, <3>1 DEF DidChange
  <2> QED BY <2>4, <2>5
<1>4. CASE DidClose
  <2>1. Head(inbox).uri \in Uris
    BY <1>4, NextMessage DEF DidClose, Handling
  <2> QED BY <1>4, <2>1, ReindexIsIndexNext DEF DidClose
<1>5. ASSUME NEW uri \in FileUris, DidChangeWatchedFile(uri)
      PROVE  [IndexNext]_indexVars
  <2>1. uri \in Uris
    BY ServerAssumption
  <2>2. UNCHANGED indexVars \/ RemoveFile(uri) \/ ReindexFromDisk(uri)
    BY <1>5 DEF DidChangeWatchedFile
  <2> QED BY <2>1, <2>2, ReindexIsIndexNext DEF IndexNext
<1>6. CASE \/ \E root \in Roots : WalkRoot(root)
           \/ \E options \in InitializationOptions : AnswerInitialize(options)
           \/ Initialized \/ DidChangeConfiguration \/ InlayHint
           \/ Answer \/ User \/ World
  BY <1>6
  DEF WalkRoot, AnswerInitialize, Initialized, DidChangeConfiguration,
      InlayHint, Answer, ClientRegisters, AnswerRefresh, User, Open, Edit,
      Close, Configure, World, DiskWrite, serverVars
<1>7. CASE UNCHANGED vars
  BY <1>7 DEF vars
<1> QED BY <1>1, <1>2, <1>3, <1>4, <1>5, <1>6, <1>7 DEF Next, Start, Handler

\* The server changes the index through its three calls alone: every behaviour
\* of the server is one of the index.
THEOREM ServerDrivesIndex == Spec => IndexSpec
<1>1. Init => IndexInit
  BY DEF Init
<1>2. ServerInv => TypeOK
  BY DEF ServerInv
<1>3. TypeOK /\ TypeOK' /\ [Next]_vars => [IndexNext]_indexVars
  BY ServerStepIsIndexStep
<1> QED BY <1>1, <1>2, <1>3, ServerAlwaysInv, PTL DEF Spec, IndexSpec

\* So what the server finds in its index are the facts of one text of each
\* file, whatever the client, the user and the disk do.
THEOREM ServerKeepsFileFacts == Spec => IsFileFacts
  BY ServerDrivesIndex, IndexImplementsFileFacts

-----------------------------------------------------------------------------
(* The server's copies of the client's buffers. *)

IsAbout(m, uri) == m.method # "didChangeConfiguration" /\ m.uri = uri

\* The notifications under way about a document, by their place in the inbox.
Pending(uri) == {i \in DOMAIN inbox : IsAbout(inbox[i], uri)}

\* The text a document has in the editor that sent an open or a change.
TextSent(m) ==
  IF m.method = "didOpen" THEN m.text ELSE m.changes[Len(m.changes)].text

\* Nothing about the document is under way: the server has what the client has.
Synced(uri) ==
  Pending(uri) = {} =>
    /\ uri \in DOMAIN documents <=> uri \in DOMAIN buffers
    /\ uri \in DOMAIN documents \ halfApplied => documents[uri] = buffers[uri]

\* Otherwise the last notification under way tells what the client has.
LastTells(uri) ==
  \A i \in Pending(uri) :
    (\A j \in Pending(uri) : j <= i) =>
      IF inbox[i].method = "didClose" THEN uri \notin DOMAIN buffers
      ELSE uri \in DOMAIN buffers /\ buffers[uri] = TextSent(inbox[i])

\* A change finds its document open: what comes just before it about the
\* document is not a close, and if nothing does it is open already.
ChangesFindTheirDocument(uri) ==
  \A i \in Pending(uri) :
    inbox[i].method = "didChange" =>
      /\ inbox[i].changes # <<>>
      /\ (\A j \in Pending(uri) : i <= j) => uri \in DOMAIN documents
      /\ \A j \in Pending(uri) :
           j < i /\ (\A k \in Pending(uri) : k <= j \/ i <= k) =>
             inbox[j].method # "didClose"

SyncOf(uri) == Synced(uri) /\ LastTells(uri) /\ ChangesFindTheirDocument(uri)

SyncInv == \A uri \in Uris : SyncOf(uri)

\* What the server, and the client, hold for a document is as it was.
ServerHolds(uri) ==
  /\ uri \in DOMAIN documents' <=> uri \in DOMAIN documents
  /\ uri \in halfApplied' <=> uri \in halfApplied
  /\ uri \in DOMAIN documents => documents'[uri] = documents[uri]

ClientHolds(uri) ==
  /\ uri \in DOMAIN buffers' <=> uri \in DOMAIN buffers
  /\ uri \in DOMAIN buffers => buffers'[uri] = buffers[uri]

\* The notifications under way when the first is taken: each moves up by one.
LEMMA TakenPending ==
  ASSUME inbox \in Seq(Messages), inbox # <<>>, Took, NEW uri
  PROVE  /\ \A i \in Pending(uri)' : i \in Nat /\ i + 1 \in Pending(uri)
                                     /\ inbox'[i] = inbox[i + 1]
         /\ \A i \in Pending(uri) : i \in Nat /\ (i = 1 \/ i - 1 \in Pending(uri)')
         /\ 1 \in DOMAIN inbox /\ Head(inbox) = inbox[1]
<1>1. /\ Len(inbox) \in Nat /\ DOMAIN inbox = 1..Len(inbox) /\ Len(inbox) # 0
      /\ Head(inbox) = inbox[1]
  BY HeadTailProperties, EmptySeq, LenProperties
<1>2. /\ DOMAIN inbox' = 1..(Len(inbox) - 1)
      /\ \A i \in 1..(Len(inbox) - 1) : inbox'[i] = inbox[i + 1]
  BY HeadTailProperties, LenProperties DEF Took
<1> QED BY <1>1, <1>2 DEF Pending

\* ... and when one is sent: it is the last.
LEMMA SentPending ==
  ASSUME inbox \in Seq(Messages), NEW m \in Messages, Send(m), NEW uri
  PROVE  /\ Len(inbox) \in Nat
         /\ \A i \in Pending(uri) : i \in Nat /\ i <= Len(inbox)
                                    /\ inbox'[i] = inbox[i]
         /\ inbox'[Len(inbox) + 1] = m
         /\ Pending(uri)' = Pending(uri) \cup
              (IF IsAbout(m, uri) THEN {Len(inbox) + 1} ELSE {})
<1>1. Len(inbox) \in Nat /\ DOMAIN inbox = 1..Len(inbox)
  BY LenProperties
<1>2. /\ DOMAIN inbox' = 1..(Len(inbox) + 1)
      /\ \A i \in 1..Len(inbox) : inbox'[i] = inbox[i]
      /\ inbox'[Len(inbox) + 1] = m
  BY AppendProperties, LenProperties DEF Send
<1> QED BY <1>1, <1>2 DEF Pending

\* The server takes a notification about something else.
LEMMA TakeOther ==
  ASSUME inbox \in Seq(Messages), inbox # <<>>, Took, NEW uri, SyncOf(uri),
         ~IsAbout(Head(inbox), uri), ServerHolds(uri), ClientHolds(uri)
  PROVE  SyncOf(uri)'
<1>1. /\ \A i \in Pending(uri)' : i \in Nat /\ i + 1 \in Pending(uri)
                                  /\ inbox'[i] = inbox[i + 1]
      /\ \A i \in Pending(uri) : i \in Nat /\ i - 1 \in Pending(uri)'
  BY TakenPending DEF Pending
<1>2. Synced(uri)'
  BY <1>1 DEF SyncOf, Synced, ServerHolds, ClientHolds
<1>3. LastTells(uri)'
  <2> SUFFICES ASSUME NEW i \in Pending(uri)', \A j \in Pending(uri)' : j <= i
               PROVE  (IF inbox[i].method = "didClose" THEN uri \notin DOMAIN buffers
                       ELSE uri \in DOMAIN buffers /\ buffers[uri] = TextSent(inbox[i]))'
    BY DEF LastTells
  <2>1. \A j \in Pending(uri) : j <= i + 1
    BY <1>1
  <2>2. IF inbox[i + 1].method = "didClose" THEN uri \notin DOMAIN buffers
        ELSE uri \in DOMAIN buffers /\ buffers[uri] = TextSent(inbox[i + 1])
    BY <1>1, <2>1 DEF SyncOf, LastTells
  <2> QED BY <1>1, <2>2 DEF ClientHolds, TextSent
<1>4. ChangesFindTheirDocument(uri)'
  <2> SUFFICES ASSUME NEW i \in Pending(uri)', inbox'[i].method = "didChange"
               PROVE  /\ inbox'[i].changes # <<>>
                      /\ (\A j \in Pending(uri)' : i <= j) => uri \in DOMAIN documents'
                      /\ \A j \in Pending(uri)' :
                           j < i /\ (\A k \in Pending(uri)' : k <= j \/ i <= k) =>
                             inbox'[j].method # "didClose"
    BY DEF ChangesFindTheirDocument
  <2>1. inbox[i + 1].method = "didChange" /\ i + 1 \in Pending(uri)
    BY <1>1
  <2>2. inbox'[i].changes # <<>>
    BY <1>1, <2>1 DEF SyncOf, ChangesFindTheirDocument
  <2>3. ASSUME \A j \in Pending(uri)' : i <= j PROVE uri \in DOMAIN documents'
    <3>1. \A j \in Pending(uri) : i + 1 <= j
      BY <1>1, <2>3
    <3> QED BY <2>1, <3>1 DEF SyncOf, ChangesFindTheirDocument, ServerHolds
  <2>4. ASSUME NEW j \in Pending(uri)', j < i, \A k \in Pending(uri)' : k <= j \/ i <= k
        PROVE  inbox'[j].method # "didClose"
    <3>1. ASSUME NEW k \in Pending(uri) PROVE k <= j + 1 \/ i + 1 <= k
      <4>1. k \in Nat /\ i \in Nat /\ j \in Nat /\ k - 1 \in Pending(uri)'
        BY <1>1
      <4>2. k - 1 <= j \/ i <= k - 1
        BY <2>4, <4>1
      <4> QED BY <4>1, <4>2
    <3>2. j + 1 \in Pending(uri) /\ j + 1 < i + 1
      BY <1>1, <2>4
    <3>3. inbox[j + 1].method # "didClose"
      BY <2>1, <3>1, <3>2 DEF SyncOf, ChangesFindTheirDocument
    <3> QED BY <1>1, <3>3
  <2> QED BY <2>2, <2>3, <2>4
<1> QED BY <1>2, <1>3, <1>4 DEF SyncOf

\* The server takes a notification about the document and does what it says.
LEMMA TakeOwn ==
  ASSUME inbox \in Seq(Messages), inbox # <<>>, Took, NEW uri, SyncOf(uri),
         IsAbout(Head(inbox), uri), ClientHolds(uri),
         Head(inbox).method = "didOpen" =>
           uri \in DOMAIN documents' /\ documents'[uri] = TextSent(Head(inbox)),
         Head(inbox).method = "didClose" => uri \notin DOMAIN documents',
         Head(inbox).method = "didChange" =>
           /\ uri \in DOMAIN documents => uri \in DOMAIN documents'
           /\ uri \in DOMAIN documents =>
                uri \in halfApplied' \/ documents'[uri] = TextSent(Head(inbox)),
         Head(inbox).method \in {"didOpen", "didClose", "didChange"}
  PROVE  SyncOf(uri)'
<1>1. /\ \A i \in Pending(uri)' : i \in Nat /\ i + 1 \in Pending(uri)
                                  /\ inbox'[i] = inbox[i + 1]
      /\ \A i \in Pending(uri) : i \in Nat /\ (i = 1 \/ i - 1 \in Pending(uri)')
      /\ 1 \in Pending(uri) /\ Head(inbox) = inbox[1]
  BY TakenPending DEF Pending
<1>2. Head(inbox).method = "didChange" => uri \in DOMAIN documents
  <2> SUFFICES ASSUME Head(inbox).method = "didChange"
               PROVE  uri \in DOMAIN documents
    OBVIOUS
  <2>1. \A j \in Pending(uri) : 1 <= j
    BY <1>1
  <2> QED BY <1>1, <2>1 DEF SyncOf, ChangesFindTheirDocument
<1>3. uri \in DOMAIN documents' <=> Head(inbox).method # "didClose"
  BY <1>2
<1>4. Synced(uri)'
  <2> SUFFICES ASSUME Pending(uri)' = {}
               PROVE  /\ uri \in DOMAIN documents' <=> uri \in DOMAIN buffers'
                      /\ uri \in DOMAIN documents' \ halfApplied' =>
                           documents'[uri] = buffers'[uri]
    BY DEF Synced
  <2>1. \A j \in Pending(uri) : j <= 1
    BY <1>1
  <2>2. IF Head(inbox).method = "didClose" THEN uri \notin DOMAIN buffers
        ELSE uri \in DOMAIN buffers /\ buffers[uri] = TextSent(Head(inbox))
    BY <1>1, <2>1 DEF SyncOf, LastTells
  <2> QED BY <1>2, <1>3, <2>2 DEF ClientHolds
<1>5. LastTells(uri)'
  <2> SUFFICES ASSUME NEW i \in Pending(uri)', \A j \in Pending(uri)' : j <= i
               PROVE  (IF inbox[i].method = "didClose" THEN uri \notin DOMAIN buffers
                       ELSE uri \in DOMAIN buffers /\ buffers[uri] = TextSent(inbox[i]))'
    BY DEF LastTells
  <2>1. \A j \in Pending(uri) : j <= i + 1
    BY <1>1
  <2>2. IF inbox[i + 1].method = "didClose" THEN uri \notin DOMAIN buffers
        ELSE uri \in DOMAIN buffers /\ buffers[uri] = TextSent(inbox[i + 1])
    BY <1>1, <2>1 DEF SyncOf, LastTells
  <2> QED BY <1>1, <2>2 DEF ClientHolds, TextSent
<1>6. ChangesFindTheirDocument(uri)'
  <2> SUFFICES ASSUME NEW i \in Pending(uri)', inbox'[i].method = "didChange"
               PROVE  /\ inbox'[i].changes # <<>>
                      /\ (\A j \in Pending(uri)' : i <= j) => uri \in DOMAIN documents'
                      /\ \A j \in Pending(uri)' :
                           j < i /\ (\A k \in Pending(uri)' : k <= j \/ i <= k) =>
                             inbox'[j].method # "didClose"
    BY DEF ChangesFindTheirDocument
  <2>1. inbox[i + 1].method = "didChange" /\ i + 1 \in Pending(uri) /\ i \in Nat
    BY <1>1
  <2>2. inbox'[i].changes # <<>>
    BY <1>1, <2>1 DEF SyncOf, ChangesFindTheirDocument
  <2>3. ASSUME \A j \in Pending(uri)' : i <= j PROVE uri \in DOMAIN documents'
    <3>1. ASSUME NEW k \in Pending(uri) PROVE k <= 1 \/ i + 1 <= k
      BY <1>1, <2>1, <2>3
    <3>2. 1 < i + 1
      BY <1>1, <2>1 DEF Pending
    <3>3. inbox[1].method # "didClose"
      BY <1>1, <2>1, <3>1, <3>2 DEF SyncOf, ChangesFindTheirDocument
    <3> QED BY <1>1, <1>3, <3>3
  <2>4. ASSUME NEW j \in Pending(uri)', j < i, \A k \in Pending(uri)' : k <= j \/ i <= k
        PROVE  inbox'[j].method # "didClose"
    <3>1. ASSUME NEW k \in Pending(uri) PROVE k <= j + 1 \/ i + 1 <= k
      <4>1. k \in Nat /\ j \in Nat /\ (k = 1 \/ k - 1 \in Pending(uri)')
        BY <1>1
      <4>2. CASE k = 1
        BY <4>1, <4>2
      <4>3. CASE k - 1 \in Pending(uri)'
        <5>1. k - 1 <= j \/ i <= k - 1
          BY <2>4, <4>3
        <5> QED BY <2>1, <4>1, <5>1
      <4> QED BY <4>1, <4>2, <4>3
    <3>2. j + 1 \in Pending(uri) /\ j + 1 < i + 1
      BY <1>1, <2>1, <2>4
    <3>3. inbox[j + 1].method # "didClose"
      BY <2>1, <3>1, <3>2 DEF SyncOf, ChangesFindTheirDocument
    <3> QED BY <1>1, <3>3
  <2> QED BY <2>2, <2>3, <2>4
<1> QED BY <1>4, <1>5, <1>6 DEF SyncOf

\* The client sends a notification about something else, ...
LEMMA SendOther ==
  ASSUME inbox \in Seq(Messages), NEW m \in Messages, Send(m), NEW uri, SyncOf(uri),
         ~IsAbout(m, uri), ServerHolds(uri), ClientHolds(uri)
  PROVE  SyncOf(uri)'
<1>1. /\ Pending(uri)' = Pending(uri)
      /\ \A i \in Pending(uri) : inbox'[i] = inbox[i]
  <2>1. /\ Pending(uri)' = Pending(uri) \cup
             (IF IsAbout(m, uri) THEN {Len(inbox) + 1} ELSE {})
        /\ \A i \in Pending(uri) : inbox'[i] = inbox[i]
    BY SentPending
  <2> QED BY <2>1
<1>2. Synced(uri)'
  BY <1>1 DEF SyncOf, Synced, ServerHolds, ClientHolds
<1>3. LastTells(uri)'
  BY <1>1 DEF SyncOf, LastTells, ClientHolds, TextSent
<1>4. ChangesFindTheirDocument(uri)'
  BY <1>1 DEF SyncOf, ChangesFindTheirDocument, ServerHolds
<1> QED BY <1>2, <1>3, <1>4 DEF SyncOf

\* ... or about the document: a change only of one that is open.
LEMMA SendOwn ==
  ASSUME inbox \in Seq(Messages), NEW m \in Messages, Send(m), NEW uri, SyncOf(uri),
         IsAbout(m, uri), ServerHolds(uri),
         m.method = "didClose" => uri \notin DOMAIN buffers',
         m.method # "didClose" =>
           uri \in DOMAIN buffers' /\ buffers'[uri] = TextSent(m),
         m.method = "didChange" => uri \in DOMAIN buffers /\ m.changes # <<>>
  PROVE  SyncOf(uri)'
<1> DEFINE n == Len(inbox) + 1
<1>1. /\ n \in Nat /\ inbox'[n] = m
      /\ Pending(uri)' = Pending(uri) \cup {n}
      /\ \A i \in Pending(uri) : i \in Nat /\ i < n /\ inbox'[i] = inbox[i]
  BY SentPending
<1> HIDE DEF n
<1>2. Synced(uri)'
  BY <1>1 DEF Synced
<1>3. LastTells(uri)'
  <2> SUFFICES ASSUME NEW i \in Pending(uri)', \A j \in Pending(uri)' : j <= i
               PROVE  (IF inbox[i].method = "didClose" THEN uri \notin DOMAIN buffers
                       ELSE uri \in DOMAIN buffers /\ buffers[uri] = TextSent(inbox[i]))'
    BY DEF LastTells
  <2>1. i = n
    BY <1>1
  <2> QED BY <1>1, <2>1 DEF TextSent
<1>4. ASSUME m.method = "didChange", Pending(uri) = {} PROVE uri \in DOMAIN documents'
  BY <1>4 DEF SyncOf, Synced, ServerHolds
<1>5. ASSUME m.method = "didChange", NEW j \in Pending(uri),
             \A k \in Pending(uri) : k <= j
      PROVE  inbox[j].method # "didClose"
  BY <1>5 DEF SyncOf, LastTells
<1>6. ChangesFindTheirDocument(uri)'
  <2> SUFFICES ASSUME NEW i \in Pending(uri)', inbox'[i].method = "didChange"
               PROVE  /\ inbox'[i].changes # <<>>
                      /\ (\A j \in Pending(uri)' : i <= j) => uri \in DOMAIN documents'
                      /\ \A j \in Pending(uri)' :
                           j < i /\ (\A k \in Pending(uri)' : k <= j \/ i <= k) =>
                             inbox'[j].method # "didClose"
    BY DEF ChangesFindTheirDocument
  <2>1. CASE i = n
    <3>1. ASSUME \A j \in Pending(uri)' : i <= j PROVE Pending(uri) = {}
      BY <1>1, <2>1, <3>1
    <3>2. ASSUME NEW j \in Pending(uri)', j < i,
                 \A k \in Pending(uri)' : k <= j \/ i <= k
          PROVE  inbox'[j].method # "didClose"
      <4>1. j \in Pending(uri)
        BY <1>1, <2>1, <3>2
      <4>2. ASSUME NEW k \in Pending(uri) PROVE k <= j
        BY <1>1, <2>1, <3>2
      <4> QED BY <1>1, <1>5, <2>1, <4>1, <4>2
    <3> QED BY <1>1, <1>4, <2>1, <3>1, <3>2
  <2>2. CASE i \in Pending(uri)
    <3>1. inbox[i].method = "didChange" /\ inbox'[i] = inbox[i]
      BY <1>1, <2>2
    <3>2. ASSUME \A j \in Pending(uri)' : i <= j PROVE uri \in DOMAIN documents'
      <4>1. \A j \in Pending(uri) : i <= j
        BY <1>1, <3>2
      <4> QED BY <2>2, <3>1, <4>1 DEF SyncOf, ChangesFindTheirDocument, ServerHolds
    <3>3. ASSUME NEW j \in Pending(uri)', j < i,
                 \A k \in Pending(uri)' : k <= j \/ i <= k
          PROVE  inbox'[j].method # "didClose"
      <4>1. j \in Pending(uri) /\ \A k \in Pending(uri) : k <= j \/ i <= k
        BY <1>1, <2>2, <3>3
      <4>2. inbox[j].method # "didClose"
        BY <2>2, <3>1, <3>3, <4>1 DEF SyncOf, ChangesFindTheirDocument
      <4> QED BY <1>1, <4>1, <4>2
    <3>4. inbox'[i].changes # <<>>
      BY <2>2, <3>1 DEF SyncOf, ChangesFindTheirDocument
    <3> QED BY <3>2, <3>3, <3>4
  <2> QED BY <1>1, <2>1, <2>2
<1> QED BY <1>2, <1>3, <1>6 DEF SyncOf

\* A batch of changes ends with the text of its last change, or stops half-way.
LEMMA DidChangeSync ==
  ASSUME TypeOK, DidChange, Head(inbox).changes # <<>>,
         Head(inbox).uri \in DOMAIN documents
  PROVE  /\ Head(inbox).uri \in DOMAIN documents'
         /\ \/ Head(inbox).uri \in halfApplied'
            \/ documents'[Head(inbox).uri] = TextSent(Head(inbox))
<1>1. /\ Head(inbox).changes \in Seq(Changes) /\ Head(inbox).method = "didChange"
  BY NextMessage DEF DidChange, Handling
<1> DEFINE uri == Head(inbox).uri
           changes == Head(inbox).changes
<1>2. PICK n \in 0..Len(changes) :
        /\ documents' = IF n = 0 THEN documents
                        ELSE With(documents, uri, changes[n].text)
        /\ IF n < Len(changes) THEN halfApplied' = halfApplied \cup {uri} ELSE TRUE
  BY DEF DidChange
<1>3. Len(changes) \in Nat /\ Len(changes) # 0
  BY <1>1, LenProperties, EmptySeq
<1>4. uri \in DOMAIN documents'
  BY <1>2 DEF With
<1>5. CASE n < Len(changes)
  BY <1>2, <1>4, <1>5
<1>6. CASE n = Len(changes)
  <2>1. documents'[uri] = changes[Len(changes)].text
    BY <1>2, <1>3, <1>6 DEF With
  <2> QED BY <1>1, <1>4, <2>1 DEF TextSent
<1> QED BY <1>2, <1>3, <1>5, <1>6

\* Every step keeps the server's copies in step with the buffers.
LEMMA SyncStep ==
  ASSUME ServerInv, SyncInv, [Next]_vars
  PROVE  SyncInv'
<1> SUFFICES ASSUME NEW uri \in Uris PROVE SyncOf(uri)'
  BY DEF SyncInv
<1>0. /\ TypeOK /\ inbox \in Seq(Messages) /\ SyncOf(uri)
      /\ halfApplied \subseteq DOMAIN documents
  BY DEF ServerInv, TypeOK, SyncInv
<1>1. ASSUME UNCHANGED <<documents, halfApplied, buffers, inbox>>
      PROVE  SyncOf(uri)'
  BY <1>0, <1>1 DEF SyncOf, Synced, LastTells, ChangesFindTheirDocument, Pending,
                    TextSent
<1>2. CASE DidOpen
  <2>1. /\ inbox # <<>> /\ Took /\ Head(inbox).method = "didOpen" /\ ClientHolds(uri)
    BY <1>2 DEF DidOpen, Handling, worldVars, ClientHolds
  <2>2. /\ documents' = With(documents, Head(inbox).uri, Head(inbox).text)
        /\ halfApplied' = halfApplied \ {Head(inbox).uri}
    BY <1>2 DEF DidOpen
  <2>3. CASE Head(inbox).uri = uri
    BY <1>0, <2>1, <2>2, <2>3, TakeOwn DEF IsAbout, With, TextSent
  <2>4. CASE Head(inbox).uri # uri
    <3>1. ServerHolds(uri)
      BY <2>2, <2>4 DEF ServerHolds, With
    <3> QED BY <1>0, <2>1, <2>4, <3>1, TakeOther DEF IsAbout
  <2> QED BY <2>3, <2>4
<1>3. CASE DidChange
  <2>1. /\ inbox # <<>> /\ Took /\ Head(inbox).method = "didChange" /\ ClientHolds(uri)
    BY <1>3 DEF DidChange, Handling, worldVars, ClientHolds
  <2>2. CASE Head(inbox).uri = uri
    <3>1. 1 \in Pending(uri) /\ inbox[1] = Head(inbox)
      BY <1>0, <2>1, <2>2, TakenPending DEF Pending, IsAbout
    <3>2. Head(inbox).changes # <<>>
      BY <1>0, <2>1, <3>1 DEF SyncOf, ChangesFindTheirDocument
    <3>3. uri \in DOMAIN documents =>
            /\ uri \in DOMAIN documents'
            /\ uri \in halfApplied' \/ documents'[uri] = TextSent(Head(inbox))
      BY <1>0, <1>3, <2>2, <3>2, DidChangeSync
    <3> QED BY <1>0, <2>1, <2>2, <3>3, TakeOwn DEF IsAbout
  <2>3. CASE Head(inbox).uri # uri
    <3>1. \/ UNCHANGED <<documents, halfApplied>>
          \/ \E n \in 0..Len(Head(inbox).changes) :
               /\ documents' = IF n = 0 THEN documents
                    ELSE With(documents, Head(inbox).uri, Head(inbox).changes[n].text)
               /\ \/ halfApplied' = halfApplied \cup {Head(inbox).uri}
                  \/ halfApplied' = halfApplied \ {Head(inbox).uri}
      BY <1>3 DEF DidChange
    <3>2. ServerHolds(uri)
      BY <2>3, <3>1 DEF ServerHolds, With
    <3> QED BY <1>0, <2>1, <2>3, <3>2, TakeOther DEF IsAbout
  <2> QED BY <2>2, <2>3
<1>4. CASE DidClose
  <2>1. /\ inbox # <<>> /\ Took /\ Head(inbox).method = "didClose" /\ ClientHolds(uri)
    BY <1>4 DEF DidClose, Handling, worldVars, ClientHolds
  <2>2. /\ documents' = Without(documents, Head(inbox).uri)
        /\ halfApplied' = halfApplied \ {Head(inbox).uri}
    BY <1>4 DEF DidClose
  <2>3. CASE Head(inbox).uri = uri
    BY <1>0, <2>1, <2>2, <2>3, TakeOwn DEF IsAbout, Without
  <2>4. CASE Head(inbox).uri # uri
    <3>1. ServerHolds(uri)
      BY <2>2, <2>4 DEF ServerHolds, Without
    <3> QED BY <1>0, <2>1, <2>4, <3>1, TakeOther DEF IsAbout
  <2> QED BY <2>3, <2>4
<1>5. CASE DidChangeConfiguration
  <2>1. /\ inbox # <<>> /\ Took /\ Head(inbox).method = "didChangeConfiguration"
        /\ ClientHolds(uri) /\ ServerHolds(uri)
    BY <1>5 DEF DidChangeConfiguration, Handling, worldVars, ClientHolds, ServerHolds
  <2> QED BY <1>0, <2>1, TakeOther DEF IsAbout
<1>6. ASSUME NEW u \in Uris, NEW text \in Texts, Open(u, text) PROVE SyncOf(uri)'
  <2> DEFINE m == [method |-> "didOpen", uri |-> u, text |-> text]
  <2>1. /\ m \in Messages /\ Send(m) /\ ServerHolds(uri)
        /\ buffers' = With(buffers, u, text)
        /\ m.method = "didOpen" /\ m.uri = u /\ TextSent(m) = text
    BY <1>6 DEF Open, Messages, OpenMessages, serverVars, ServerHolds, TextSent
  <2> HIDE DEF m
  <2>2. CASE u = uri
    BY <1>0, <2>1, <2>2, SendOwn DEF IsAbout, With
  <2>3. CASE u # uri
    <3>1. ClientHolds(uri)
      BY <2>1, <2>3 DEF ClientHolds, With
    <3> QED BY <1>0, <2>1, <2>3, <3>1, SendOther DEF IsAbout
  <2> QED BY <2>2, <2>3
<1>7. ASSUME NEW u \in Uris, NEW changes \in ChangeBatches, Edit(u, changes)
      PROVE  SyncOf(uri)'
  <2> DEFINE m == [method |-> "didChange", uri |-> u, changes |-> changes]
  <2>1. PICK n \in 1..MaxChanges : changes \in [1..n -> Changes]
    BY DEF ChangeBatches
  <2>2. changes \in Seq(Changes) /\ changes # <<>>
    BY <2>1, ServerAssumption, SeqDef, EmptySeq
  <2>3. /\ m \in Messages /\ Send(m) /\ ServerHolds(uri)
        /\ u \in DOMAIN buffers
        /\ buffers' = With(buffers, u, changes[Len(changes)].text)
        /\ m.method = "didChange" /\ m.uri = u /\ m.changes # <<>>
        /\ TextSent(m) = changes[Len(changes)].text
    BY <1>7, <2>2 DEF Edit, Messages, ChangeMessages, serverVars, ServerHolds, TextSent
  <2> HIDE DEF m
  <2>4. CASE u = uri
    BY <1>0, <2>3, <2>4, SendOwn DEF IsAbout, With
  <2>5. CASE u # uri
    <3>1. ClientHolds(uri)
      BY <2>3, <2>5 DEF ClientHolds, With
    <3> QED BY <1>0, <2>3, <2>5, <3>1, SendOther DEF IsAbout
  <2> QED BY <2>4, <2>5
<1>8. ASSUME NEW u \in Uris, Close(u) PROVE SyncOf(uri)'
  <2> DEFINE m == [method |-> "didClose", uri |-> u]
  <2>1. /\ m \in Messages /\ Send(m) /\ ServerHolds(uri)
        /\ buffers' = Without(buffers, u)
        /\ m.method = "didClose" /\ m.uri = u
    BY <1>8 DEF Close, Messages, CloseMessages, serverVars, ServerHolds
  <2> HIDE DEF m
  <2>2. CASE u = uri
    BY <1>0, <2>1, <2>2, SendOwn DEF IsAbout, Without
  <2>3. CASE u # uri
    <3>1. ClientHolds(uri)
      BY <2>1, <2>3 DEF ClientHolds, Without
    <3> QED BY <1>0, <2>1, <2>3, <3>1, SendOther DEF IsAbout
  <2> QED BY <2>2, <2>3
<1>9. ASSUME NEW payload \in Payloads, Configure(payload) PROVE SyncOf(uri)'
  <2> DEFINE m == [method |-> "didChangeConfiguration", payload |-> payload]
  <2>1. /\ m \in Messages /\ Send(m) /\ ServerHolds(uri) /\ ClientHolds(uri)
        /\ m.method = "didChangeConfiguration"
    BY <1>9 DEF Configure, Messages, ConfigMessages, serverVars, worldVars,
                ServerHolds, ClientHolds
  <2> HIDE DEF m
  <2> QED BY <1>0, <2>1, SendOther DEF IsAbout
<1>10. CASE Start \/ Answer \/ World \/ InlayHint
            \/ (\E u \in FileUris : DidChangeWatchedFile(u)) \/ UNCHANGED vars
  BY <1>1, <1>10
  DEF Start, WalkRoot, ScanNext, AnswerInitialize, Initialized, Answer,
      ClientRegisters, AnswerRefresh, World, DiskWrite, InlayHint,
      DidChangeWatchedFile, vars, serverVars, worldVars
<1> QED
  BY <1>2, <1>3, <1>4, <1>5, <1>6, <1>7, <1>8, <1>9, <1>10 DEF Next, Handler, User

LEMMA SyncInit == Init => SyncInv
  BY DEF Init, SyncInv, SyncOf, Synced, LastTells, ChangesFindTheirDocument, Pending

THEOREM SyncAlwaysInv == Spec => []SyncInv
<1>1. ServerInv /\ SyncInv /\ [Next]_vars => SyncInv'
  BY SyncStep
<1> QED BY <1>1, SyncInit, ServerAlwaysInv, PTL DEF Spec

\* A client whose ranges all have a place in the document never leaves the
\* server half-way through a batch.
NeverHalfApplied == halfApplied = {}

LEMMA WholeBatches ==
  ASSUME FALSE \notin Resolvable, TypeOK, NeverHalfApplied, [Next]_vars
  PROVE  NeverHalfApplied'
<1>1. CASE DidChange
  <2>1. /\ Head(inbox).changes \in Seq(Changes)
    BY <1>1, NextMessage DEF DidChange, Handling
  <2>2. \A k \in 1..Len(Head(inbox).changes) : Head(inbox).changes[k].resolves
    <3> SUFFICES ASSUME NEW k \in 1..Len(Head(inbox).changes)
                 PROVE  Head(inbox).changes[k].resolves
      OBVIOUS
    <3>1. Head(inbox).changes[k] \in Changes
      BY <2>1, ElementOfSeq
    <3>2. Head(inbox).changes[k].resolves \in Resolvable
      BY <3>1 DEF Changes
    <3> QED BY <3>2, ServerAssumption
  <2>3. Len(Head(inbox).changes) \in Nat
    BY <2>1, LenProperties
  <2> QED BY <1>1, <2>2, <2>3 DEF DidChange, NeverHalfApplied
<1>2. CASE DidOpen \/ DidClose
  BY <1>2 DEF DidOpen, DidClose, NeverHalfApplied
<1>3. CASE ~DidChange /\ ~DidOpen /\ ~DidClose
  <2>1. halfApplied' = halfApplied
    BY <1>3
    DEF Next, Start, Handler, Answer, User, World, WalkRoot, ScanNext,
        AnswerInitialize, Initialized, ClientRegisters, AnswerRefresh,
        DidChangeConfiguration, DidChangeWatchedFile, InlayHint, Open, Edit,
        Close, Configure, DiskWrite, vars, serverVars
  <2> QED BY <2>1 DEF NeverHalfApplied
<1> QED BY <1>1, <1>2, <1>3

LEMMA NeverHalfAppliedAlways ==
  ASSUME FALSE \notin Resolvable
  PROVE  Spec => []NeverHalfApplied
<1>1. Init => NeverHalfApplied
  BY DEF Init, NeverHalfApplied
<1>2. ServerInv => TypeOK
  BY DEF ServerInv
<1>3. TypeOK /\ NeverHalfApplied /\ [Next]_vars => NeverHalfApplied'
  BY WholeBatches
<1> QED BY <1>1, <1>2, <1>3, ServerAlwaysInv, PTL DEF Spec

\* When the server has handled everything the client has sent it has the
\* client's documents, text for text, if every range the client sends has a
\* place in the document.
THEOREM AlwaysMirrorsClient ==
  ASSUME FALSE \notin Resolvable
  PROVE  Spec => []MirrorsClient
<1>1. Spec => []NeverHalfApplied
  BY NeverHalfAppliedAlways
<1>2. TypeOK /\ SyncInv /\ NeverHalfApplied => MirrorsClient
  <2> SUFFICES ASSUME TypeOK, SyncInv, NeverHalfApplied, inbox = <<>>
               PROVE  documents = buffers
    BY DEF MirrorsClient
  <2>1. \A uri \in Uris : Pending(uri) = {}
    BY DEF Pending
  <2>2. \A uri \in Uris :
          /\ uri \in DOMAIN documents <=> uri \in DOMAIN buffers
          /\ uri \in DOMAIN documents => documents[uri] = buffers[uri]
    BY <2>1 DEF SyncInv, SyncOf, Synced, NeverHalfApplied
  <2>3. /\ documents \in [DOMAIN documents -> Texts]
        /\ buffers \in [DOMAIN buffers -> Texts]
        /\ DOMAIN documents \subseteq Uris /\ DOMAIN buffers \subseteq Uris
    BY DEF TypeOK, IsMap
  <2>4. DOMAIN documents = DOMAIN buffers
    BY <2>2, <2>3
  <2> QED BY <2>2, <2>3, <2>4
<1> QED BY <1>1, <1>2, SyncAlwaysInv, ServerTypeCorrect, PTL

\* Whatever ranges the client sends, and whatever the server makes of them: when
\* it has handled everything, it has open what the client has open.
THEOREM SameDocumentsOpen ==
  Spec => [](inbox = <<>> => DOMAIN documents = DOMAIN buffers)
<1>1. ServerInv /\ SyncInv => (inbox = <<>> => DOMAIN documents = DOMAIN buffers)
  <2> SUFFICES ASSUME TypeOK, SyncInv, inbox = <<>>
               PROVE  DOMAIN documents = DOMAIN buffers
    BY DEF ServerInv
  <2>1. \A uri \in Uris : Pending(uri) = {}
    BY DEF Pending
  <2>2. DOMAIN documents \subseteq Uris /\ DOMAIN buffers \subseteq Uris
    BY DEF TypeOK, IsMap
  <2> QED BY <2>1, <2>2 DEF SyncInv, SyncOf, Synced
<1> QED BY <1>1, SyncAlwaysInv, ServerAlwaysInv, PTL

-----------------------------------------------------------------------------
(* Find references and rename.  An answer is made in one state, so there is   *)
(* no invariant of its own: what it says of the texts the client edits        *)
(* follows from those of the server, that its documents are the client's      *)
(* buffers (MirrorsClient) and its index what the files say                   *)
(* (OpenFilesIndexed, ClosedFilesFollowDisk).                                 *)

\* With everything handled, the text the server takes of a document or of a
\* file is the one the client edits.
LEMMA ServerReadsClientText ==
  ASSUME TypeOK, MirrorsClient, inbox = <<>>
  PROVE  /\ \A uri \in DOMAIN documents :
              /\ ClientText(uri) = documents[uri]
              /\ documents[uri] \in Texts
         /\ \A w \in WorkspaceFileUris :
              ClientText(w[1]) = LiveText(w[1]) /\ LiveText(w[1]) \in Texts
<1>1. documents = buffers /\ IsMap(documents, Uris, Texts)
  BY DEF MirrorsClient, TypeOK
<1>2. ASSUME NEW uri \in DOMAIN documents
      PROVE  ClientText(uri) = documents[uri] /\ documents[uri] \in Texts
  BY <1>1 DEF ClientText, IsMap
<1>3. ASSUME NEW w \in WorkspaceFileUris
      PROVE  ClientText(w[1]) = LiveText(w[1]) /\ LiveText(w[1]) \in Texts
  <2>1. w[1] \in FileUris /\ disk[w[1]] # Absent
    BY DEF WorkspaceFileUris
  <2>2. disk[w[1]] \in Texts
    BY <2>1 DEF TypeOK
  <2> QED BY <1>1, <1>2, <2>1, <2>2 DEF ClientText, LiveText
<1> QED BY <1>2, <1>3

\* An edit of a rename: in the document that asked, or in a file under a
\* workspace folder, at an occurrence of the name.
LEMMA EditIs ==
  ASSUME NEW uri, NEW o \in Analysis[documents[uri]].occurrences,
         NEW e \in RenameEdits(uri, o)
  PROVE  \/ /\ e.uri = uri /\ e.walk = Here
            /\ \E p \in Analysis[documents[uri]].occurrences :
                 p.name = o.name /\ p.range = e.range
         \/ /\ e.uri # uri
            /\ \E w \in WorkspaceFileUris :
                 /\ e.uri = w[1] /\ e.walk = w[2]
                 /\ \E p \in Analysis[LiveText(w[1])].occurrences :
                      p.name = o.name /\ p.range = e.range
<1> DEFINE Goal == \/ /\ e.uri = uri /\ e.walk = Here
                      /\ \E p \in Analysis[documents[uri]].occurrences :
                           p.name = o.name /\ p.range = e.range
                   \/ /\ e.uri # uri
                      /\ \E w \in WorkspaceFileUris :
                           /\ e.uri = w[1] /\ e.walk = w[2]
                           /\ \E p \in Analysis[LiveText(w[1])].occurrences :
                                p.name = o.name /\ p.range = e.range
<1>1. ASSUME NEW ranges, e \in InDocument(uri, ranges),
             \A r \in ranges : \E p \in Analysis[documents[uri]].occurrences :
                                 p.name = o.name /\ p.range = r
      PROVE  Goal
  <2>1. PICK r \in ranges : e = [uri |-> uri, walk |-> Here, range |-> r]
    BY <1>1 DEF InDocument
  <2> QED BY <1>1, <2>1
<1>2. ASSUME e \in CrossFileGlobalReferences(o.name, uri) PROVE Goal
  <2>1. PICK w \in {v \in WorkspaceFileUris : v[1] # uri} :
          \E r \in GlobalReferenceRanges(LiveText(w[1]), o.name) :
            e = [uri |-> w[1], walk |-> w[2], range |-> r]
    BY <1>2 DEF CrossFileGlobalReferences
  <2>2. PICK r \in GlobalReferenceRanges(LiveText(w[1]), o.name) :
          e = [uri |-> w[1], walk |-> w[2], range |-> r]
    BY <2>1
  <2>3. \E p \in Analysis[LiveText(w[1])].occurrences :
          p.name = o.name /\ p.range = r
    BY <2>2 DEF GlobalReferenceRanges
  <2> QED BY <2>1, <2>2, <2>3
<1>3. \A r \in LocalReferenceRanges(documents[uri], o) :
        \E p \in Analysis[documents[uri]].occurrences : p.name = o.name /\ p.range = r
  BY DEF LocalReferenceRanges
<1>4. \A r \in GlobalReferenceRanges(documents[uri], o.name) :
        \E p \in Analysis[documents[uri]].occurrences : p.name = o.name /\ p.range = r
  BY DEF GlobalReferenceRanges
<1>5. ReferenceTarget(o) \in {"None", "Local", "Global"}
  BY DEF ReferenceTarget
<1>6. \/ e \in InDocument(uri, LocalReferenceRanges(documents[uri], o))
      \/ e \in InDocument(uri, GlobalReferenceRanges(documents[uri], o.name))
      \/ e \in CrossFileGlobalReferences(o.name, uri)
  BY <1>5 DEF RenameEdits
<1> HIDE DEF Goal
<1>7. Goal
  BY <1>1, <1>2, <1>3, <1>4, <1>6
<1> QED BY <1>7 DEF Goal

\* No two edits of a rename replace the same occurrence, and with everything
\* handled each replaces an occurrence of the name in the client's text, if no
\* file is under two workspace folders and every range the client sends has a
\* place in the document.
THEOREM EditsAlwaysFitTheClient ==
  ASSUME FALSE \notin Resolvable,
         \A uri \in FileUris : \A r, s \in RootsOf[uri] : r = s
  PROVE  Spec => []EditsFitTheClient
<1>1. TypeOK /\ MirrorsClient => EditsFitTheClient
  <2> SUFFICES ASSUME TypeOK, MirrorsClient, NEW q \in Requests,
                      NEW e \in RenameEdits(q[1], q[2])
               PROVE  /\ inbox = <<>> =>
                           /\ ClientText(e.uri) # Absent
                           /\ \E o \in Analysis[ClientText(e.uri)].occurrences :
                                o.name = q[2].name /\ o.range = e.range
                      /\ \A other \in RenameEdits(q[1], q[2]) :
                           e.uri = other.uri /\ e.range = other.range =>
                             e.walk = other.walk
    BY DEF EditsFitTheClient
  <2>1. q[1] \in DOMAIN documents /\ q[2] \in Analysis[documents[q[1]]].occurrences
    BY DEF Requests
  <2>2. ASSUME inbox = <<>>
        PROVE  /\ ClientText(e.uri) # Absent
               /\ \E o \in Analysis[ClientText(e.uri)].occurrences :
                    o.name = q[2].name /\ o.range = e.range
    <3>1. Absent \notin Texts
      BY ServerAssumption
    <3> QED BY <2>1, <2>2, <3>1, EditIs, ServerReadsClientText
  <2>3. ASSUME NEW other \in RenameEdits(q[1], q[2]), e.uri = other.uri
        PROVE  e.walk = other.walk
    <3>1. \A d \in RenameEdits(q[1], q[2]) :
            \/ d.uri = q[1] /\ d.walk = Here
            \/ d.uri # q[1] /\ <<d.uri, d.walk>> \in WorkspaceFileUris
      <4>1. ASSUME NEW w \in WorkspaceFileUris PROVE w = <<w[1], w[2]>>
        BY DEF WorkspaceFileUris
      <4> QED BY <2>1, <4>1, EditIs
    <3>2. \A u, r, s : <<u, r>> \in WorkspaceFileUris /\ <<u, s>> \in WorkspaceFileUris
                         => r = s
      BY DEF WorkspaceFileUris
    <3> QED BY <2>3, <3>1, <3>2
  <2> QED BY <2>2, <2>3
<1>2. Spec => []MirrorsClient
  BY AlwaysMirrorsClient
<1> QED BY <1>1, <1>2, ServerTypeCorrect, PTL

\* With everything handled, a rename of a global name reaches every use of it
\* in the client's text of the document and of every saved file under a
\* workspace folder, open or not.
THEOREM RenameAlwaysReachesSavedFiles ==
  ASSUME FALSE \notin Resolvable
  PROVE  Spec => []RenameReachesSavedFiles
<1>1. TypeOK /\ MirrorsClient => RenameReachesSavedFiles
  <2> SUFFICES ASSUME TypeOK, MirrorsClient, inbox = <<>>, NEW q \in Requests,
                      ReferenceTarget(q[2]) = "Global",
                      NEW uri \in {q[1]} \cup SavedFiles,
                      NEW r \in Uses(uri, q[2].name)
               PROVE  \E e \in RenameEdits(q[1], q[2]) : e.uri = uri /\ e.range = r
    BY DEF RenameReachesSavedFiles
  <2>1. q[1] \in DOMAIN documents
    BY DEF Requests
  <2>2. r \in GlobalReferenceRanges(ClientText(uri), q[2].name)
    BY DEF Uses, GlobalReferenceRanges
  <2>3. RenameEdits(q[1], q[2]) =
          InDocument(q[1], GlobalReferenceRanges(documents[q[1]], q[2].name))
            \cup CrossFileGlobalReferences(q[2].name, q[1])
    BY DEF RenameEdits
  <2>4. CASE uri = q[1]
    <3>1. [uri |-> uri, walk |-> Here, range |-> r]
            \in InDocument(q[1], GlobalReferenceRanges(documents[q[1]], q[2].name))
      BY <2>1, <2>2, <2>4, ServerReadsClientText DEF InDocument
    <3> QED BY <2>3, <3>1
  <2>5. CASE uri # q[1]
    <3>1. PICK root \in RootsOf[uri] : uri \in FileUris /\ disk[uri] # Absent
      BY <2>5 DEF SavedFiles
    <3>2. <<uri, root>> \in WorkspaceFileUris
      BY <3>1, ServerAssumption DEF WorkspaceFileUris
    <3>3. r \in GlobalReferenceRanges(LiveText(uri), q[2].name)
      BY <2>2, <3>2, ServerReadsClientText
    <3>4. PICK w \in {v \in WorkspaceFileUris : v[1] # q[1]} : w = <<uri, root>>
      BY <2>5, <3>2
    <3>5. /\ w[1] = uri /\ r \in GlobalReferenceRanges(LiveText(w[1]), q[2].name)
      BY <3>3, <3>4
    <3> DEFINE Under(v) == {[uri |-> v[1], walk |-> v[2], range |-> s] :
                              s \in GlobalReferenceRanges(LiveText(v[1]), q[2].name)}
    <3>6. [uri |-> w[1], walk |-> w[2], range |-> r] \in Under(w)
      BY <3>5
    <3>7. CrossFileGlobalReferences(q[2].name, q[1]) =
            UNION {Under(v) : v \in {x \in WorkspaceFileUris : x[1] # q[1]}}
      BY DEF CrossFileGlobalReferences
    <3> HIDE DEF Under
    <3>8. [uri |-> w[1], walk |-> w[2], range |-> r]
            \in CrossFileGlobalReferences(q[2].name, q[1])
      BY <3>6, <3>7
    <3> QED BY <2>3, <3>5, <3>8
  <2> QED BY <2>4, <2>5
<1>2. Spec => []MirrorsClient
  BY AlwaysMirrorsClient
<1> QED BY <1>1, <1>2, ServerTypeCorrect, PTL

\* When notifications and events are in, what the index files for a file are
\* the definitions of the client's text of it.
LEMMA DefinitionsAreTheClients ==
  ASSUME TypeOK, MirrorsClient, OpenFilesIndexed, ClosedFilesFollowDisk,
         NeverHalfApplied, inbox = <<>>, unseen = {}, NEW uri \in FileUris,
         events[uri] = <<>>
  PROVE  Entries(definitionsByName, uri) =
           IF ClientText(uri) = Absent THEN {}
           ELSE DefinitionEntries(uri, ClientText(uri))
<1>1. Absent \notin Texts
  BY ServerAssumption
<1>2. CASE uri \in DOMAIN documents
  <2>1. ClientText(uri) = documents[uri] /\ documents[uri] \in Texts
    BY <1>2, ServerReadsClientText
  <2>2. FiledAs(uri, documents[uri])
    BY <1>2 DEF OpenFilesIndexed, NeverHalfApplied
  <2> QED BY <1>1, <2>1, <2>2 DEF FiledAs
<1>3. CASE uri \notin DOMAIN documents
  <2>1. ClientText(uri) = disk[uri]
    BY <1>3 DEF ClientText, MirrorsClient
  <2>2. IF disk[uri] = Absent THEN NotFiled(uri) ELSE FiledAs(uri, disk[uri])
    BY <1>3 DEF ClosedFilesFollowDisk
  <2> QED BY <2>1, <2>2 DEF FiledAs, NotFiled
<1> QED BY <1>2, <1>3

\* A name is defined for the index when some file has an entry under it.
LEMMA DefinedByAFile ==
  ASSUME IndexInv, NEW n
  PROVE  IsDefined(n) <=> \E u \in Uris :
           \E e \in Entries(definitionsByName, u) : e[1] = n
<1>1. IsDefined(n) <=> At(definitionsByName, n) # {}
  BY DEF IsDefined, At, IndexInv, NoEmptyNames
<1>2. \A l \in At(definitionsByName, n) : l.uri \in Uris
  BY DEF IndexInv, IndexTypeOK, IsMap, At, DefLocation
<1> QED BY <1>1, <1>2, EntryAt

\* Where every document is a file, a name used in one and unbound there is
\* global for rename exactly if some text of the client defines it, once
\* notifications and events are in and every file has been seen.
THEOREM UnboundUseAlwaysFindsItsDefinition ==
  ASSUME FALSE \notin Resolvable, Uris \subseteq FileUris
  PROVE  Spec => []UnboundUseFindsItsDefinition
<1>1. ServerInv /\ MirrorsClient /\ OpenFilesIndexed /\ ClosedFilesFollowDisk
        /\ NeverHalfApplied => UnboundUseFindsItsDefinition
  <2> SUFFICES ASSUME ServerInv, MirrorsClient, OpenFilesIndexed,
                      ClosedFilesFollowDisk, NeverHalfApplied,
                      inbox = <<>>, unseen = {},
                      \A uri \in FileUris : events[uri] = <<>>,
                      NEW q \in Requests, q[2].bound = "none"
               PROVE  ReferenceTarget(q[2]) = "Global" <=>
                        \E uri \in Uris :
                          /\ ClientText(uri) # Absent
                          /\ \E d \in TopLevelDefinitions(ClientText(uri)) :
                               d.name = q[2].name
    BY DEF UnboundUseFindsItsDefinition
  <2> DEFINE n == q[2].name
  <2>1. ReferenceTarget(q[2]) = "Global" <=> IsDefined(n)
    BY DEF ReferenceTarget
  <2>2. IsDefined(n) <=> \E u \in Uris :
          \E e \in Entries(definitionsByName, u) : e[1] = n
    BY DefinedByAFile DEF ServerInv
  <2>3. ASSUME NEW u \in Uris
        PROVE  (\E e \in Entries(definitionsByName, u) : e[1] = n) <=>
                 /\ ClientText(u) # Absent
                 /\ \E d \in TopLevelDefinitions(ClientText(u)) : d.name = n
    <3>1. Entries(definitionsByName, u) =
            IF ClientText(u) = Absent THEN {}
            ELSE DefinitionEntries(u, ClientText(u))
      BY DefinitionsAreTheClients DEF ServerInv
    <3>2. (\E e \in DefinitionEntries(u, ClientText(u)) : e[1] = n) <=>
            \E d \in TopLevelDefinitions(ClientText(u)) : d.name = n
      <4>1. ASSUME NEW d \in TopLevelDefinitions(ClientText(u)),
                   NEW e, e = <<d.name, [uri |-> u, range |-> d.range,
                                         token |-> d.token, declares |-> d.declares]>>
            PROVE  e[1] = d.name
        BY <4>1
      <4>2. ASSUME NEW e \in DefinitionEntries(u, ClientText(u)), e[1] = n
            PROVE  \E d \in TopLevelDefinitions(ClientText(u)) : d.name = n
        <5>1. PICK d \in TopLevelDefinitions(ClientText(u)) :
                e = <<d.name, [uri |-> u, range |-> d.range,
                               token |-> d.token, declares |-> d.declares]>>
          BY <4>2, Zenon DEF DefinitionEntries
        <5> QED BY <4>1, <4>2, <5>1
      <4>3. ASSUME NEW d \in TopLevelDefinitions(ClientText(u)), d.name = n
            PROVE  \E e \in DefinitionEntries(u, ClientText(u)) : e[1] = n
        BY <4>1, <4>3, Zenon DEF DefinitionEntries
      <4> QED BY <4>2, <4>3
    <3> QED BY <3>1, <3>2
  <2> QED BY <2>1, <2>2, <2>3
<1>2. Spec => []MirrorsClient
  BY AlwaysMirrorsClient
<1>3. Spec => []NeverHalfApplied
  BY NeverHalfAppliedAlways
<1> QED BY <1>1, <1>2, <1>3, ServerAlwaysInv, OpenFilesAlwaysIndexed,
           ClosedFilesAlwaysFollowDisk, PTL

=============================================================================
