-------------------------------- MODULE Corpus --------------------------------
(***************************************************************************)
(* Loading the corpus of builtin objects (src/src/builtin_index.rs): its   *)
(* records are read in the order of the file, and only then are their      *)
(* references linked: parents of types first, then the types callables     *)
(* give, then what their methods are for, then packages.  A reference that *)
(* names nothing, or a type slot that names no type, gets a placeholder.   *)
(*                                                                         *)
(* An identity is [package, name].  A reference is an identity, or a name  *)
(* of the file, aliases included, with Bare for its package.               *)
(***************************************************************************)
EXTENDS Functions, Sequences, Integers

CONSTANTS RawRecords,   \* the records a corpus is made of
          Silent,       \* Thing and Any, which say nothing as a codomain
          Bare, Unresolved, NoType

Ref(package, name) == [package |-> package, name |-> name]
PackageId(package) == Ref(package, package)

\* The placeholder of a type slot that names an object that is no type.
Opaque(ref) == Ref(Unresolved, IF ref.package = Bare THEN ref.name ELSE ref)

References == UNION {{raw.parent} \cup Range(raw.codomains) \cup Range(raw.domains) : raw \in RawRecords}

\* A raw record: id, kind, parent (of a type), aliases, and for callables the
\* references its typical value and its methods give and take.
ASSUME CorpusAssumption ==
  /\ \A raw \in RawRecords :
       /\ raw.kind \in {"type", "callable", "plain"}
       /\ raw.id.package \notin {Bare, Unresolved}
       /\ raw.codomains \in Seq(References) /\ raw.domains \in Seq(References)
       /\ raw.kind # "callable" => raw.codomains = <<>> /\ raw.domains = <<>>
  /\ NoType \notin {raw.id : raw \in RawRecords} \cup References \cup {Opaque(ref) : ref \in References}

VARIABLES phase,     \* what load is at
          lines,     \* the records read, in the order of the file
          pending,   \* how many of them this phase has linked
          index,     \* BuiltinIndex: records by identity, by_name, opaque
          links      \* the linked types and objects of each callable

corpusVars == <<phase, lines, pending, index, links>>

Loaded == {lines[i] : i \in DOMAIN lines}

-----------------------------------------------------------------------------
(* The index. *)

Rec(type, package, parent) == [type |-> type, package |-> package, parent |-> parent]

\* std::collections::HashMap: insert, and entry with or_insert for several keys.
Put(map, key, value) == [k \in DOMAIN map \cup {key} |-> IF k = key THEN value ELSE map[k]]
PutNew(map, keys, value) == [k \in DOMAIN map \cup keys |-> IF k \in DOMAIN map THEN map[k] ELSE value]

\* insert_with_name_lookup: the name of a record takes over what it named
\* before, its aliases only name what nothing has.
Insert(idx, id, rec, aliases) ==
  [idx EXCEPT !.records = Put(@, id, rec),
              !.by_name = PutNew(Put(@, id.name, id), aliases, id)]

\* resolve_reference.
Find(idx, ref) ==
  IF ref.package = Bare
  THEN IF ref.name \in DOMAIN idx.by_name THEN idx.by_name[ref.name] ELSE NoType
  ELSE IF ref \in DOMAIN idx.records THEN ref ELSE NoType

IsType(idx, id) == id \in DOMAIN idx.records /\ idx.records[id].type

\* The placeholder of a reference that names nothing.
Missing(ref) == IF ref.package = Bare THEN Opaque(ref) ELSE ref

\* resolve_or_insert_type_reference and insert_opaque_type_reference: what is
\* added to the index (an opaque type goes under no name), and the answer.
WithType(idx, ref) ==
  LET found == Find(idx, ref)
      self(id) == Rec(TRUE, PackageId(id.package), id)
  IN  IF ref \in DOMAIN idx.opaque \/ IsType(idx, found) THEN idx
      ELSE IF found = NoType THEN Insert(idx, Missing(ref), self(Missing(ref)), {})
      ELSE [idx EXCEPT !.records = Put(@, Opaque(ref), self(Opaque(ref))),
                       !.opaque = Put(@, ref, Opaque(ref))]
TypeAt(idx, ref) == IF ref \in DOMAIN idx.opaque THEN idx.opaque[ref] ELSE Find(idx, ref)

\* resolve_or_insert_dispatch_reference: any object will do.
WithObject(idx, ref) ==
  IF ref \in DOMAIN idx.opaque \/ Find(idx, ref) # NoType THEN idx ELSE WithType(idx, ref)

\* concrete_type_reference: Thing and Any are no codomain.
ConcreteType(ref) == ref.name \notin Silent

\* The references of one record, one after the other.
WithTypes(idx, refs) ==
  LET after[k \in 0..Len(refs)] ==
        IF k = 0 THEN idx
        ELSE IF ConcreteType(refs[k]) THEN WithType(after[k - 1], refs[k])
        ELSE after[k - 1]
  IN  after[Len(refs)]
WithObjects(idx, refs) ==
  LET after[k \in 0..Len(refs)] == IF k = 0 THEN idx ELSE WithObject(after[k - 1], refs[k])
  IN  after[Len(refs)]

-----------------------------------------------------------------------------
(* Loading. *)

CorpusInit ==
  /\ phase = "read" /\ lines = <<>> /\ pending = 0
  /\ index = [records |-> <<>>, by_name |-> <<>>, opaque |-> <<>>]
  /\ links = <<>>

ReadRecord(raw) ==
  /\ phase = "read"
  /\ \A other \in Loaded : other.id # raw.id
  /\ lines' = Append(lines, raw)
  /\ index' = Insert(index, raw.id,
                     Rec(raw.kind = "type", PackageId(raw.id.package), NoType), raw.aliases)
  /\ UNCHANGED <<phase, pending, links>>

\* The phases, each over the lines in their order.
Phases == <<"read", "parents", "codomains", "callables", "packages", "ready">>
NextPhase ==
  /\ phase \notin {"packages", "ready"}
  /\ phase = "read" \/ pending = Len(lines)
  /\ phase' = Phases[1 + CHOOSE i \in DOMAIN Phases : Phases[i] = phase]
  /\ pending' = 0
  /\ UNCHANGED <<lines, index, links>>

Linking(p) == phase = p /\ pending < Len(lines) /\ pending' = pending + 1
Line == lines[pending + 1]

\* A type without a parent is its own.
LinkParent ==
  /\ Linking("parents")
  /\ index' = IF Line.kind # "type" THEN index
              ELSE LET idx == WithType(index, Line.parent)
                   IN  [idx EXCEPT !.records[Line.id].parent = TypeAt(idx, Line.parent)]
  /\ UNCHANGED <<phase, lines, links>>

\* Mutant: no pass over the codomains before the callables are linked.
AnnounceNothing == Linking("codomains") /\ UNCHANGED <<phase, lines, index, links>>

\* The types callables give are known before anything is linked to them.
AnnounceTypes ==
  /\ Linking("codomains")
  /\ index' = WithTypes(index, Line.codomains)
  /\ UNCHANGED <<phase, lines, links>>

LinkCallable ==
  /\ Linking("callables")
  /\ LET idx == WithObjects(WithTypes(index, Line.codomains), Line.domains)
         given(ref) == IF ConcreteType(ref) THEN TypeAt(idx, ref) ELSE NoType
     IN  IF Line.kind # "callable" THEN UNCHANGED <<index, links>>
         ELSE /\ index' = idx
              /\ links' = Put(links, Line.id,
                    [codomains |-> [i \in DOMAIN Line.codomains |-> given(Line.codomains[i])],
                     domains |-> [i \in DOMAIN Line.domains |-> TypeAt(idx, Line.domains[i])]])
  /\ UNCHANGED <<phase, lines>>

\* referenced_packages: those of the lines and of what linking added.
ReferencedPackages ==
  {PackageId(raw.id.package) : raw \in Loaded} \cup
  {index.records[id].package : id \in DOMAIN index.records}

AddPackages ==
  /\ phase = "packages"
  /\ LET new == ReferencedPackages \ DOMAIN index.records
         names == {id.name : id \in new}
         records == index.records
         by_name == index.by_name
     IN  index' = [index EXCEPT
           !.records = [id \in DOMAIN records \cup new |->
                          IF id \in new THEN Rec(FALSE, id, NoType) ELSE records[id]],
           !.by_name = [n \in DOMAIN by_name \cup names |->
                          IF n \in names THEN PackageId(n) ELSE by_name[n]]]
  /\ phase' = "ready"
  /\ UNCHANGED <<lines, pending, links>>

CorpusNext ==
  \/ \E raw \in RawRecords : ReadRecord(raw)
  \/ NextPhase
  \/ LinkParent \/ AnnounceTypes \/ LinkCallable
  \/ AddPackages

CorpusSpec == CorpusInit /\ [][CorpusNext]_corpusVars

-----------------------------------------------------------------------------
(* Properties. *)

\* What the references of a file mean, by the file alone.
Parents == {raw.parent : raw \in {r \in Loaded : r.kind = "type"}}
TypeRefs == Parents \cup {ref \in UNION {Range(raw.codomains) : raw \in Loaded} : ConcreteType(ref)}
Refs == TypeRefs \cup UNION {Range(raw.domains) : raw \in Loaded}

\* The record a bare name is for: the last of the name, or the first that has
\* it as an alias.
Named(name) ==
  LET having == {i \in DOMAIN lines : lines[i].id.name = name}
      aliased == {i \in DOMAIN lines : name \in lines[i].aliases}
  IN  IF having # {} THEN lines[CHOOSE i \in having : \A j \in having : j <= i]
      ELSE lines[CHOOSE i \in aliased : \A j \in aliased : i <= j]
InFile(ref) ==
  IF ref.package = Bare THEN \E raw \in Loaded : ref.name \in {raw.id.name} \cup raw.aliases
  ELSE \E raw \in Loaded : raw.id = ref
RecordOf(ref) ==
  IF ref.package = Bare THEN Named(ref.name) ELSE CHOOSE raw \in Loaded : raw.id = ref
TypeMeant(ref) ==
  IF ~InFile(ref) THEN Missing(ref)
  ELSE IF RecordOf(ref).kind = "type" THEN RecordOf(ref).id ELSE Opaque(ref)
ObjectMeant(ref) ==
  IF ref \in TypeRefs \/ ~InFile(ref) THEN TypeMeant(ref) ELSE RecordOf(ref).id

\* A bare name that a placeholder of some package takes over: what it links to
\* depends on when it is asked.
TakenOver(ref) ==
  ref.package = Bare /\ \E r \in Refs : r.package # Bare /\ r.name = ref.name /\ ~InFile(r)

\* What callables are linked to does not depend on where in the file they and
\* their types are: every type slot that says anything is linked to the type its
\* reference means, and a method is for the very type another slot gives, even when
\* that type is a placeholder some later record made necessary.
LinksAreTheirReferences ==
  \A raw \in Loaded :
    /\ raw.id \in DOMAIN links =>
         LET slots == links[raw.id]
         IN  /\ \A i \in DOMAIN raw.codomains :
                  /\ slots.codomains[i] = NoType <=> ~ConcreteType(raw.codomains[i])
                  /\ ConcreteType(raw.codomains[i]) /\ ~TakenOver(raw.codomains[i]) =>
                       slots.codomains[i] = TypeMeant(raw.codomains[i])
             /\ \A i \in DOMAIN raw.domains :
                  ~TakenOver(raw.domains[i]) => slots.domains[i] = ObjectMeant(raw.domains[i])
    /\ phase = "ready" /\ raw.kind = "type" /\ ~TakenOver(raw.parent) =>
         index.records[raw.id].parent = TypeMeant(raw.parent)

\* Nothing a loaded record refers to is missing: types have a parent that is a
\* type, type slots hold types, methods are for objects, and every package has
\* a record of its own.
RegistryIsClosed ==
  phase = "ready" =>
    /\ \A id \in DOMAIN index.records :
         /\ index.records[id].package \in DOMAIN index.records
         /\ index.records[id].type => IsType(index, index.records[id].parent)
    /\ \A f \in DOMAIN links :
         /\ \A i \in DOMAIN links[f].codomains :
              links[f].codomains[i] = NoType \/ IsType(index, links[f].codomains[i])
         /\ \A i \in DOMAIN links[f].domains : links[f].domains[i] \in DOMAIN index.records

\* The loaded registry is the corpus, and whole: both of the above.
CorpusIsLinked == LinksAreTheirReferences /\ RegistryIsClosed
=============================================================================
