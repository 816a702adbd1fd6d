--------------------------------- MODULE Rings ---------------------------------
(***************************************************************************)
(* Rings and the variables they make, src/src/analysis/ring.rs, in the     *)
(* assignments at the top of a file (src/src/analysis/typechecker.rs).     *)
(*                                                                         *)
(* Making a ring and giving it to a name sets other names, its generators, *)
(* and giving it to another name sets them again.  The analysis has them   *)
(* as states of bindings that it collected before, of assignments that may *)
(* come later in the file, and finds a state by its place in the file.     *)
(*                                                                         *)
(* Statement k assigns at 10k a value that ends at 10k + 9.  In between    *)
(* stand the name the value begins with and the list of variables.         *)
(***************************************************************************)
EXTENDS SequencesExt, FiniteSetsExt, Integers

CONSTANTS Files,    \* sequences of statements
          Letters   \* the one-letter names, in the order of ranges

VARIABLES file,       \* the statements
          done,       \* how many of them the type checker has been through
          bindings,   \* registry.bindings, with their states
          byPlace,    \* registry.binding_states_by_range
          generators  \* registry.ring_generators

vars == <<file, done, bindings, byPlace, generators>>

Start(k) == 10 * k
Stop(k) == 10 * k + 9
Place(k, i) == 10 * k + 1 + i

Unknown == "?"
None == 0

-----------------------------------------------------------------------------
(* The variables of a constructor. *)

Indexed(name) == [name |-> name, kind |-> "indexed"]
Direct(name) == [name |-> name, kind |-> "direct"]

\* symbol_range
SymbolRange(element) ==
  LET from == IndexFirstSubSeq(<<element.from>>, Letters)
      to == IndexFirstSubSeq(<<element.to>>, Letters) - IF element.exclusive THEN 1 ELSE 0
  IN  [i \in 1..(to - from + 1) |-> Direct(Letters[from + i - 1])]

\* RingGeneratorBinding::collect_spec, and the options of collect: a number of
\* variables makes one table, named by another option or p.
CollectSpec(element, elements) ==
  LET bases == SelectSeq(elements, LAMBDA e : e.kind = "VariableBaseName")
  IN  CASE element.kind = "symbol" -> <<Direct(element.name)>>
        [] element.kind = "table" -> <<Indexed(element.name)>>
        [] element.kind = "range" -> SymbolRange(element)
        [] element.kind = "Variables" ->
             <<Indexed(IF bases = <<>> THEN "p" ELSE Head(bases).name)>>
        [] OTHER -> <<>>

\* The elements, with those of a list among them in its place: collect_spec goes
\* through a list, and so it does when the list is the option Variables.
Spread(elements) ==
  FlattenSeq([i \in DOMAIN elements |->
                IF elements[i].kind = "list" THEN elements[i].parts ELSE <<elements[i]>>])

\* RingGeneratorBinding::collect, with the element each stands in: a name counts
\* once.
Collect(list) ==
  LET elements == Spread(list)
      push(sofar, generator) ==
        IF \E i \in DOMAIN sofar : sofar[i].name = generator.name THEN sofar
        ELSE Append(sofar, generator)
      one(sofar, i) ==
        LET spec == CollectSpec(elements[i], elements)
        IN  FoldLeft(push, sofar,
                     [j \in DOMAIN spec |-> [name |-> spec[j].name, kind |-> spec[j].kind, element |-> i]])
  IN  FoldLeft(one, <<>>, [i \in DOMAIN elements |-> i])

-----------------------------------------------------------------------------
(* Bindings.  A binding has the place it begins at and its states.          *)

State(at, from) == [at |-> at, from |-> from, type |-> Unknown, element |-> Unknown]

\* binding_id_from_scope: the last one that begins at or before the place.
BindingFrom(name, place) ==
  LET found == {b \in DOMAIN bindings : bindings[b].name = name /\ bindings[b].at <= place}
  IN  IF found = {} THEN None
      ELSE CHOOSE b \in found : \A c \in found : bindings[c].at <= bindings[b].at

\* future_assignment_binding
FutureBinding(name, place) ==
  LET found == {b \in DOMAIN bindings : bindings[b].name = name /\ bindings[b].at > place}
  IN  IF found = {} THEN None
      ELSE CHOOSE b \in found : \A c \in found : bindings[b].at <= bindings[c].at

\* binding_state_from_scope
StateFrom(binding, place) ==
  LET states == binding.states
      here == {s \in DOMAIN states : states[s].at = place}
      before == {s \in DOMAIN states : states[s].from <= place}
      last(s) == \A r \in before :
                   states[r].from < states[s].from \/ (states[r].from = states[s].from /\ r <= s)
  IN  IF here # {} THEN states[Min(here)]
      ELSE IF before # {} THEN states[CHOOSE s \in before : last(s)]
      ELSE states[1]

\* What the analysis knows of a name at a place; a name that has no value is a
\* symbol.
View(name, place) ==
  LET b == BindingFrom(name, place)
  IN  IF b = None THEN [State(place, place) EXCEPT !.type = "Symbol"]
      ELSE StateFrom(bindings[b], place)

\* Mutant: the states keep the numbers they were found by.
LeaveStates(found, b, states) == found

\* reindex_binding_states
ReindexStates(found, b, states) ==
  [place \in DOMAIN found \cup {states[s].at : s \in DOMAIN states} |->
     LET here == {s \in DOMAIN states : states[s].at = place}
     IN  IF here = {} THEN found[place] ELSE [binding |-> b, state |-> Max(here)]]

-----------------------------------------------------------------------------
(* Types.  A ring has one type, an element that of its ring's name.         *)

\* type_of the value of a statement.
TypeOfValue(k) ==
  LET value == file[k].value
      base == IF value.of = "QQ" THEN "Ring" ELSE View(value.of, Place(k, 0)).type
  IN  CASE value.kind = "number" -> "ZZ"
        [] value.kind = "name" -> base
        [] value.kind \in {"ring", "quotient"} -> IF base = "Ring" THEN "Ring" ELSE Unknown

\* The generators a value makes, each with the place it is registered at: those
\* it lists, or else those last recorded for the name it stands for, at the target.
GeneratorsOf(k) ==
  LET value == file[k].value
      listed == IF value.kind = "ring" THEN Collect(value.elements) ELSE <<>>
      source == IF value.kind # "ring" /\ value.of \in DOMAIN generators
                THEN generators[value.of] ELSE <<>>
  IN  IF listed # <<>>
      THEN [i \in DOMAIN listed |->
              [name |-> listed[i].name, kind |-> listed[i].kind, at |-> Place(k, listed[i].element)]]
      ELSE [i \in DOMAIN source |-> [source[i] EXCEPT !.at = Start(k)]]

\* register_dynamic_global in a registry, for a generator of the ring of a name: a
\* state of the binding that is there, or of the next assignment's, which then
\* begins here.
Register(registry, generator, ring) ==
  LET found == IF BindingFrom(generator.name, generator.at) # None
               THEN BindingFrom(generator.name, generator.at)
               ELSE FutureBinding(generator.name, generator.at)
      new == [State(generator.at, generator.at + 1) EXCEPT
                !.type = IF generator.kind = "direct" THEN ring ELSE "IndexedVariableTable",
                !.element = IF generator.kind = "direct" THEN Unknown ELSE ring]
      b == IF found = None THEN Len(registry.bindings) + 1 ELSE found
      old == IF found = None THEN [name |-> generator.name, at |-> generator.at, states |-> <<>>]
             ELSE registry.bindings[b]
      binding == IF generator.at < old.at
                 THEN [old EXCEPT !.at = generator.at, !.states = <<new>> \o @]
                 ELSE [old EXCEPT !.states = Append(@, new)]
  IN  [bindings |-> IF found = None THEN Append(registry.bindings, binding)
                    ELSE [registry.bindings EXCEPT ![b] = binding],
       byPlace |-> ReindexStates(registry.byPlace, b, binding.states)]

\* enrich_symbol: the state found at the target's place.
Enriched(k, type) ==
  LET found == byPlace[Start(k)]
  IN  [bindings EXCEPT ![found.binding].states[found.state].type = type]

-----------------------------------------------------------------------------
\* The first pass: each assignment is a state of its name's binding.
Collected(statements) ==
  LET names == {statements[k].to : k \in DOMAIN statements}
      targets(n) == SetToSortSeq({k \in DOMAIN statements : statements[k].to = n}, <)
      order == SetToSortSeq(names, LAMBDA m, n : targets(m)[1] < targets(n)[1])
  IN  [i \in DOMAIN order |->
         [name |-> order[i], at |-> Start(targets(order[i])[1]),
          states |-> [s \in DOMAIN targets(order[i]) |->
                        State(Start(targets(order[i])[s]), Stop(targets(order[i])[s]))]]]

Init ==
  /\ file \in Files
  /\ done = 0
  /\ bindings = Collected(file)
  /\ byPlace = [place \in {Start(k) : k \in DOMAIN file} |->
                  CHOOSE found \in [binding : DOMAIN bindings, state : DOMAIN file] :
                    /\ found.state \in DOMAIN bindings[found.binding].states
                    /\ bindings[found.binding].states[found.state].at = place]
  /\ generators = <<>>

\* enrich_assignment_node: the type of the target, and where it is a ring
\* collect_ring_generator_bindings.
Check ==
  LET k == done + 1
      type == TypeOfValue(k)
      made == GeneratorsOf(k)
      register(registry, generator) == Register(registry, generator, file[k].to)
      registry == FoldLeft(register, [bindings |-> Enriched(k, type), byPlace |-> byPlace], made)
  IN  /\ done < Len(file)
      /\ done' = k
      /\ IF type = "Ring"
         THEN /\ bindings' = registry.bindings /\ byPlace' = registry.byPlace
              /\ generators' = [name \in DOMAIN generators \cup {file[k].to} |->
                                  IF name = file[k].to THEN made ELSE generators[name]]
         ELSE bindings' = Enriched(k, type) /\ UNCHANGED <<byPlace, generators>>
      /\ UNCHANGED file

Next == Check

Spec == Init /\ [][Next]_vars

-----------------------------------------------------------------------------
(* The type of 1_R.                                                         *)

RECURSIVE RingElementType(_, _, _)
\* resolved_ring_element_type, and RingElement where it has none: a name for a name
\* leads on to that one, and no binding is asked twice.
RingElementType(name, place, visited) ==
  LET b == BindingFrom(name, place)
      state == StateFrom(bindings[b], place)
      k == state.at \div 10
  IN  IF b = None \/ b \in visited \/ state.at # Start(k) \/ state.from # Stop(k) THEN "RingElement"
      ELSE IF file[k].value.kind = "name"
      THEN RingElementType(file[k].value.of, Place(k, 0), visited \cup {b})
      ELSE IF state.type = "Ring" THEN name ELSE "RingElement"

-----------------------------------------------------------------------------
(* Macaulay2 (external): what the names have after the first k statements.   *)
(* A ring is known by the statement that made it.                           *)

Value(kind, ring) == [kind |-> kind, ring |-> ring]
Symbols == Value("symbol", 0)
Failed == Value("failed", 0)

\* What the elements of a list make.
Made(elements) == UNION {elements[i].makes : i \in DOMAIN elements}

Base(world, k) == IF file[k].value.of = "QQ" THEN Value("ring", 0) ELSE world.has[file[k].value.of]

Evaluated(world, k) ==
  LET value == file[k].value
      ring == Base(world, k).kind = "ring"
      free(n) == world.has[n].kind \notin {"number", "ring"}
  IN  CASE value.kind = "number" -> Value("number", 0)
        [] value.kind = "name" -> Base(world, k)
        [] value.kind = "quotient" /\ ring -> Value("ring", k)
        [] value.kind = "ring" /\ ring /\ (\A g \in Made(value.elements) : free(g.name)) ->
             Value("ring", k)
        [] OTHER -> Failed

\* A ring given to a name sets its generators.
After(world, k) ==
  LET value == Evaluated(world, k)
      makes == IF value.kind # "ring" THEN {}
               ELSE IF value.ring # k THEN world.makes[value.ring]
               ELSE IF file[k].value.kind = "ring" THEN Made(file[k].value.elements)
               ELSE world.makes[Base(world, k).ring]
      set(n) == CHOOSE g \in makes : g.name = n
  IN  IF world.fails \/ value = Failed THEN [world EXCEPT !.fails = TRUE]
      ELSE [fails |-> world.fails,
            has |-> [n \in DOMAIN world.has |->
                       IF \E g \in makes : g.name = n
                       THEN Value(IF set(n).kind = "direct" THEN "element" ELSE "table", value.ring)
                       ELSE IF n = file[k].to THEN value ELSE world.has[n]],
            makes |-> IF value.ring = k THEN world.makes @@ (k :> makes) ELSE world.makes,
            given |-> IF value.kind = "ring"
                      THEN world.given \cup {[name |-> file[k].to, ring |-> value.ring]}
                      ELSE world.given]

Names == {file[k].to : k \in DOMAIN file} \cup {file[k].value.of : k \in DOMAIN file}
           \cup UNION {{g.name : g \in Made(file[k].value.elements)} : k \in DOMAIN file}

World(k) ==
  FoldLeft(After,
           [fails |-> FALSE, has |-> [n \in Names |-> Symbols], makes |-> 0 :> {}, given |-> {}],
           [i \in 1..k |-> i])

-----------------------------------------------------------------------------
(* Properties, of files that run without an error.                          *)

\* Of what has been checked, every name has at every place the type of its value
\* there, however often its binding was moved, and an element the name of a ring
\* that was given this name.
NamesFollowTheValues ==
  \A k \in 1..done :
    LET world == World(k)
    IN  ~world.fails => \A n \in Names \ {"QQ"} :
          LET has == world.has[n]
              view == View(n, Stop(k))
          IN  CASE has.kind = "number" -> view.type = "ZZ"
                [] has.kind = "ring" -> view.type = "Ring"
                [] has.kind = "symbol" -> view.type \in {"Symbol", Unknown}
                [] has.kind = "element" -> [name |-> view.type, ring |-> has.ring] \in world.given
                [] has.kind = "table" ->
                     /\ view.type = "IndexedVariableTable"
                     /\ view.element # Unknown =>
                          [name |-> view.element, ring |-> has.ring] \in world.given

\* Two names of one ring give its numbers one type, or none of their own, and the
\* type is a name that ring was given.
PromotionsAgree ==
  LET world == World(done)
      rings == {n \in Names \ {"QQ"} : world.has[n].kind = "ring"}
      type(n) == RingElementType(n, Stop(done), {})
  IN  ~world.fails =>
        \A m, n \in rings :
          /\ type(n) # "RingElement" => [name |-> type(n), ring |-> world.has[n].ring] \in world.given
          /\ world.has[m] = world.has[n] => type(m) = type(n) \/ "RingElement" \in {type(m), type(n)}

\* Names and promotions have the types of the values: both of the above.
TypesFollowTheValues == NamesFollowTheValues /\ PromotionsAgree

=============================================================================
