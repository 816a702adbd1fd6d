------------------------------ MODULE Completion ------------------------------
(***************************************************************************)
(* Completion while a name is typed: src/src/capabilities/completion.rs,   *)
(* with enclosing_application of src/src/capabilities/signature_help.rs    *)
(* and the lists of src/src/record_lsp.rs.                                 *)
(*                                                                         *)
(* A name is a sequence of letters, and letters are numbers in their       *)
(* order.  A site is in the string of an import, in another string, or     *)
(* in a symbol; `path` has what the symbol is part of, from the inside     *)
(* out: the class or the rest of a new, the key or the value of an option, *)
(* the argument of a call or a head that its parenthesis touches.  `of`    *)
(* names the key of a value and the callable of an argument, where they    *)
(* are symbols.                                                            *)
(***************************************************************************)
EXTENDS Functions, Sequences, FiniteSets, Integers

CONSTANTS Sites, Worlds,
          Letters, Capitals,
          Keywords,
          TypesOfTypes,      \* the types every value of which is known to be a type
          NoName,
          NarrowLength, NarrowLimit, CompletionLimit,
          MaxTyped           \* bound

VARIABLES site, world, typed, list

completionVars == <<site, world, typed, list>>

NoList == [whole |-> FALSE, items |-> <<>>]
Nowhere == [kind |-> "nowhere", path |-> <<>>]
NoWorld == [bindings |-> <<>>, records |-> <<>>, packages |-> <<>>]

AllNames == Seq(Letters)
NamesIn(entries) == [i \in DOMAIN entries |-> entries[i].name]
Once(names) == names \in Seq(AllNames) /\ IsInjective(names)

Parts == [kind : {"class", "rest", "key", "value", "argument", "head"}, of : AllNames]

\* What names there are each have one binding in scope, one option of a callable, one
\* package; a head that its parenthesis touches is the very symbol the cursor is in.
ASSUME CompletionAssumption ==
  /\ Letters \subseteq Int /\ NarrowLimit \in Nat /\ CompletionLimit \in Nat /\ NarrowLength \in Nat
  /\ Once(Keywords) /\ NoName \in AllNames
  /\ \A s \in Sites :
       /\ s.kind \in {"import", "string", "symbol"} /\ s.path \in Seq(Parts)
       /\ \A i \in DOMAIN s.path : s.path[i].kind = "head" => i = 1
  /\ \A w \in Worlds \cup {NoWorld} :
       /\ Once(NamesIn(w.bindings)) /\ Once(w.packages) /\ NamesIn(w.records) \in Seq(AllNames)
       /\ \A r \in Range(w.records) :
            /\ Once(NamesIn(r.options))
            /\ \A o \in Range(r.options) : Once(o.values)

-----------------------------------------------------------------------------
(* What there is to offer.  A world has the bindings in scope, inner ones      *)
(* first and each name once, the records in order of precedence, and the       *)
(* packages of the catalogue.                                                  *)

Taken(s, n) == SubSeq(s, 1, IF n < Len(s) THEN n ELSE Len(s))
StartsWith(name, prefix) == Len(prefix) <= Len(name) /\ SubSeq(name, 1, Len(prefix)) = prefix

\* The elements of a set in an order, and what is at some positions of a sequence.
Enumerated(S, order) ==
  LET rank == [x \in S |-> Cardinality({y \in S : <<y, x>> \in order})]
  IN  [k \in 1..Cardinality(S) |-> CHOOSE x \in S : rank[x] = k - 1]
At(s, positions) ==
  LET nth == Enumerated(positions, {p \in positions \X positions : p[1] < p[2]})
  IN  [k \in DOMAIN nth |-> s[nth[k]]]

Starting(names, prefix) == At(names, {i \in DOMAIN names : StartsWith(names[i], prefix)})

\* visible_records: one record for a name, the first by precedence.
VisibleAt ==
  {i \in DOMAIN world.records : \A j \in 1..(i - 1) : world.records[j].name # world.records[i].name}
Visible == {world.records[i] : i \in VisibleAt}

\* binding_matches_type, for the type of types.
BindingIsType(b) == b.sourceType \/ (b.inferred # {} /\ b.inferred \subseteq TypesOfTypes)
RecordIsType(r) == r.class \in TypesOfTypes

Offers(names, priority) == [i \in DOMAIN names |-> [label |-> names[i], priority |-> priority]]

\* KnownSymbols::candidates.
KnownSymbols(prefix, onlyTypes, limit) ==
  LET bindings == world.bindings
      records == world.records
      local == {i \in DOMAIN bindings : /\ StartsWith(bindings[i].name, prefix)
                                        /\ onlyTypes => BindingIsType(bindings[i])}
      external == {i \in VisibleAt : /\ StartsWith(records[i].name, prefix)
                                     /\ onlyTypes => RecordIsType(records[i])}
  IN  Taken(Offers(At(NamesIn(bindings), local), 0) \o Offers(At(NamesIn(records), external), 2), limit)

\* The names of a list of its own that start with the prefix.
NamesFrom(names, prefix, priority, limit) == Taken(Offers(Starting(names, prefix), priority), limit)

OptionsOf(callable) ==
  LET named == {r \in Visible : r.name = callable}
  IN  IF named = {} THEN <<>> ELSE (CHOOSE r \in named : TRUE).options

ValuesOf(callable, option) ==
  LET options == OptionsOf(callable)
      having == {i \in DOMAIN options : options[i].name = option}
  IN  IF having = {} THEN <<>> ELSE options[CHOOSE i \in having : \A j \in having : i <= j].values

-----------------------------------------------------------------------------
(* What a site calls for. *)

\* enclosing_node: the innermost of the kinds from a part of the path on, or 0.
Nearest(kinds, from) ==
  LET found == {i \in DOMAIN site.path : i > from /\ site.path[i].kind \in kinds}
  IN  IF found = {} THEN 0 ELSE CHOOSE i \in found : \A j \in found : i <= j

Is(i, kind) == i # 0 /\ site.path[i].kind = kind

Option == Nearest({"key", "value"}, 0)
InClass == Is(Nearest({"class", "rest"}, 0), "class")
InValue == Is(Option, "value")

\* enclosing_application.  The cursor behind a head that touches its parenthesis
\* is at the start of the arguments, so the call takes in its own head.
CallableFrom(from, name) ==
  LET i == Nearest({"argument", "head"}, from)
  IN  IF i = 0 THEN NoName ELSE IF Is(i, "head") THEN name ELSE site.path[i].of

\* Mutant: as many candidates as may be shown.
FetchJustTheLimit(limit) == limit

FetchLimit(limit) == limit + 1

\* The order of strings.
Precedes(n, m) ==
  \E k \in DOMAIN m :
    /\ Len(n) >= k - 1 /\ SubSeq(n, 1, k - 1) = SubSeq(m, 1, k - 1)
    /\ Len(n) >= k => n[k] < m[k]

SortedBefore(c, d) == c.priority < d.priority \/ (c.priority = d.priority /\ Precedes(c.label, d.label))

\* complete
Complete(all, limit, atMost) ==
  LET first(i) == \A j \in 1..(i - 1) : all[j].label # all[i].label
      found == {all[i] : i \in {i \in DOMAIN all : first(i)}}
      candidates == Enumerated(found, {p \in found \X found : SortedBefore(p[1], p[2])})
      labels == [k \in DOMAIN candidates |-> candidates[k].label]
  IN  IF atMost /\ Len(labels) > limit THEN NoList
      ELSE [whole |-> Len(labels) <= limit, items |-> Taken(labels, limit)]

UpTo(candidates) == Complete(candidates, CompletionLimit, FALSE)
AtMost(candidates) == Complete(candidates, NarrowLimit, TRUE)

\* COMPLETION_PATTERNS: the first that has a query is answered.
CompletionResponse(prefix) ==
  LET many == FetchLimit(CompletionLimit)
      few == FetchLimit(NarrowLimit)
      setting == CallableFrom(Option, prefix)
      calling == CallableFrom(0, prefix)
  IN  IF site.kind = "import" THEN UpTo(NamesFrom(world.packages, prefix, 0, many))
      ELSE IF site.kind # "symbol" \/ prefix = <<>> THEN NoList
      ELSE IF InClass THEN UpTo(KnownSymbols(prefix, TRUE, many))
      ELSE IF InValue /\ site.path[Option].of # NoName /\ setting # NoName
      THEN UpTo(NamesFrom(ValuesOf(setting, site.path[Option].of), prefix, 0, many))
      ELSE IF prefix[1] \in Capitals /\ ~InValue /\ calling # NoName
      THEN UpTo(NamesFrom(NamesIn(OptionsOf(calling)), prefix, 0, many))
      ELSE IF Len(prefix) >= NarrowLength
      THEN AtMost(KnownSymbols(prefix, FALSE, few) \o NamesFrom(Keywords, prefix, 1, few))
      ELSE NoList

-----------------------------------------------------------------------------
(* The client (external): it asks when a name is begun and at any letter, and  *)
(* while it has a whole list it may narrow it down by itself.                  *)

CompletionInit == site = Nowhere /\ world = NoWorld /\ typed = <<>> /\ list = NoList

Enter ==
  /\ site = Nowhere
  /\ site' \in Sites /\ world' \in Worlds /\ UNCHANGED <<typed, list>>

CanType == site # Nowhere /\ Len(typed) < MaxTyped

Ask(letter) ==
  /\ CanType
  /\ typed' = Append(typed, letter)
  /\ list' = CompletionResponse(typed')
  /\ UNCHANGED <<site, world>>

\* The quote of a string is a trigger, before there is a letter.
AskAtOnce ==
  /\ site # Nowhere /\ typed = <<>>
  /\ list' = CompletionResponse(typed)
  /\ UNCHANGED <<site, world, typed>>

Narrow(letter) ==
  /\ CanType /\ list.whole
  /\ typed' = Append(typed, letter)
  /\ list' = [list EXCEPT !.items = Starting(list.items, typed')]
  /\ UNCHANGED <<site, world>>

CompletionNext == Enter \/ AskAtOnce \/ \E letter \in Letters : Ask(letter) \/ Narrow(letter)

CompletionSpec == CompletionInit /\ [][CompletionNext]_completionVars

-----------------------------------------------------------------------------
(* Properties. *)

\* What a site calls for: the names, how many may be shown, and from what length
\* of the prefix on.
CalledFor ==
  LET call(from) == CallableFrom(from, NoName)
      locals(types) == {b.name : b \in {b \in Range(world.bindings) : types => BindingIsType(b)}}
      records(types) == {r.name : r \in {r \in Visible : types => RecordIsType(r)}}
      options(callable) == Range(OptionsOf(callable))
      values(key) == UNION {Range(o.values) : o \in {o \in options(call(Option)) : o.name = key}}
      some(names) == [names |-> names, limit |-> CompletionLimit, length |-> 1]
  IN  IF site.kind = "import" THEN some(Range(world.packages))
      ELSE IF InClass THEN some(locals(TRUE) \cup records(TRUE))
      ELSE IF InValue /\ site.path[Option].of # NoName /\ call(Option) # NoName
      THEN some(values(site.path[Option].of))
      ELSE IF ~InValue /\ typed[1] \in Capitals /\ call(0) # NoName
      THEN some({o.name : o \in options(call(0))})
      ELSE [names |-> locals(FALSE) \cup records(FALSE) \cup Range(Keywords),
            limit |-> NarrowLimit, length |-> NarrowLength]

\* The names of records that the file has for something of its own.
Hidden == Range(NamesIn(world.bindings)) \cap {r.name : r \in Visible}

\* A list that the client may narrow down by itself holds every name that can
\* follow, and one is shown as whole exactly where there are few enough, whatever
\* the client has asked for and narrowed down before.  Excepted are sources that
\* hide records, whose names are fetched twice and counted once, and a capital in
\* a head that its parenthesis touches, taken for an option of the name itself.
ListsAreWhole ==
  LET called == CalledFor
      fitting == {n \in called.names : StartsWith(n, typed)}
      inItsHead == typed[1] \in Capitals /\ Is(Nearest({"argument", "head"}, 0), "head")
  IN  (typed # <<>> /\ site.kind # "string" /\ Hidden = {} /\ ~inItsHead) =>
        /\ Range(list.items) \subseteq fitting
        /\ list.whole => fitting \subseteq Range(list.items)
        /\ Len(typed) >= called.length => (list.whole <=> Cardinality(fitting) <= called.limit)

=============================================================================
