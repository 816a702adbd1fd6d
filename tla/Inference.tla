------------------------------ MODULE Inference ------------------------------
(***************************************************************************)
(* What is inferred of a program, and what the program does:               *)
(* src/src/analysis/typechecker.rs and the enrichment of src/src/analysis.rs. *)
(*                                                                         *)
(* The program is one straight line of statements at the top of a file.    *)
(* Every step reads one statement twice: as the analysis does, which keeps *)
(* for every name the state of its last binding and for every function it  *)
(* can follow the methods installed on it, and as the program that runs,   *)
(* which is the external part: values, the methods their functions have,   *)
(* and whether an error has stopped it.  A method gives a value of the     *)
(* class it announces or below; one that announces none gives any value.   *)
(*                                                                         *)
(* A range holds names of types, which are resolved where they are used.   *)
(* A type is declared once here, so its name stands for the state of the   *)
(* binding that declares it, its identity in the code.                     *)
(***************************************************************************)
EXTENDS Dispatch, Registry

Literal == "literal"     \* an expression that is no name

CONSTANTS
  Thing, Type, Function, MethodFunction, FunctionClosure, Symbol, Nothing, Boolean, ZZ,
  Space,         \* juxtaposition, an operator like the others
  Comparisons,   \* is_comparison_operator
  Names,         \* the global names the program assigns
  Copied,        \* names the program takes the value of
  Called,        \* names it applies to something, or installs methods on
  Operators,     \* and the operators it does that with
  Domains,       \* the domains of the methods it installs on every name and operator
  Assigned,      \* the kinds of the expressions it assigns to every name
  Parents,       \* the types it declares types of
  Codomains,     \* what those methods announce
  NoRange,       \* of a binding that is not enriched yet, of a call nothing answers
  ObjectClass,   \* the class of every object of the registry
  Callables,     \* the typical value and the methods of those that are callable
  MaxStatements

\* The types every source knows: all are Things, a method function and a closure
\* are functions and a closure is no method function.
ASSUME RolesAssumption ==
  /\ {Thing, Type, Function, MethodFunction, FunctionClosure, Symbol, Nothing, Boolean, ZZ}
       \subseteq DOMAIN BaseUp
  /\ \A t \in DOMAIN BaseUp : Thing \in BaseUp[t]
  /\ Function \in BaseUp[MethodFunction] \cap BaseUp[FunctionClosure]
  /\ MethodFunction \notin BaseUp[FunctionClosure]
  /\ Unspecified \notin DOMAIN BaseUp \cup SourceTypes
  /\ NoRange \notin [exact : SUBSET (DOMAIN BaseUp \cup SourceTypes),
                   generators : SUBSET (DOMAIN BaseUp \cup SourceTypes)]

\* Every object of the catalogue has a class, and the methods of those that are
\* callable announce types.
ASSUME ObjectsAssumption ==
  /\ \A p \in DOMAIN Catalog : \A n \in DOMAIN Catalog[p] :
       Catalog[p][n] \in DOMAIN ObjectClass
  /\ \A o \in DOMAIN ObjectClass : ObjectClass[o] \in DOMAIN BaseUp
  /\ DOMAIN Callables \subseteq DOMAIN ObjectClass
  /\ (SourceTypes \cup {NoObject}) \cap DOMAIN ObjectClass = {}
  /\ \A c \in DOMAIN Callables :
       /\ Callables[c].typical \in DOMAIN BaseUp \cup {Unspecified}
       /\ Callables[c].methods \in Seq(
            [domain : Seq(DOMAIN BaseUp \cup DOMAIN ObjectClass),
             codomain : DOMAIN BaseUp \cup {Unspecified}])

\* Names, operators, objects and statements are told apart.
ASSUME ProgramAssumption ==
  /\ (Names \cup Copied \cup Called) \cap Operators = {}
  /\ Literal \notin Copied /\ SourceTypes \subseteq Names
  /\ Operators \cap DOMAIN Callables = {}
  /\ \A o \in Operators \cup DOMAIN Callables : o \notin Int
  /\ Parents \cup Codomains \subseteq DOMAIN BaseUp
  /\ \A head \in Called \cup Operators : Domains[head] \subseteq Seq(DOMAIN BaseUp \cup SourceTypes)
  /\ MaxStatements \in Nat

VARIABLES
  bound,          \* the last state of every name's binding
  callables,      \* callable_objects: FunctionInfo by identity
  indexed,        \* indexed_callable_objects
  operators,      \* operator_functions: what is installed on every operator
  installations,  \* every installation with its effect
  position,       \* where the reading is
  values, methods, running     \* the program

analysisVars == <<up, registrations, bound, callables, indexed, operators, installations>>
vars == <<analysisVars, position, values, methods, running>>

-----------------------------------------------------------------------------
(* The analysis: names. *)

Unbound == [from |-> 0, range |-> NoRange, object |-> 0]
Unknown == UpwardType(Thing)     \* TypeRange::unknown

\* visible_source_binding_from_scope, at the top scope.
Visible(name, states) ==
  /\ name \in Names
  /\ states[name].from # 0
  /\ ~ShadowsSource(name, states[name].from, position)

Record(name) == ObjectAt(name, position)
IsCallable(name) == Record(name) \in DOMAIN Callables

\* has_type_role, of the one type of a range.
HasRole(range, role) == IsSingle(range) /\ IsSubtype(Single(range), role)

\* symbol_type.
SymbolType(name, states) ==
  IF Visible(name, states)
  THEN IF states[name].range = NoRange THEN Unknown ELSE states[name].range
  ELSE IF Record(name) # NoObject THEN ExactType(ObjectClass[Record(name)])
  ELSE ExactType(Symbol)

\* function_for_binding of the visible binding, or 0: local_function_at.
LocalFunction(name, states) == IF Visible(name, states) THEN states[name].object ELSE 0

-----------------------------------------------------------------------------
(* The analysis: calls. *)

\* The candidates' codomains joined, of methods that announce one or leave it to
\* the function's typical value.
CandidatesResult(table, candidates, typical) ==
  LET announced(i) == IF table[i].codomain # Unspecified THEN table[i].codomain ELSE typical
      one(i) == IF announced(i) = Unspecified THEN Unknown ELSE UpwardType(announced(i))
  IN  Normal({}, UNION {one(i).generators : i \in candidates})

TypicalResult(typical) == IF typical = Unspecified THEN NoRange ELSE UpwardType(typical)

InstalledOn(list) ==
  LET table == [k \in DOMAIN list |-> installations[list[k]]]
  IN  [k \in Effective(table) |-> table[k]]

\* resolve_local_call_return_type.
LocalResult(list, typical, arguments) ==
  LET table == InstalledOn(list)
      candidates == Candidates(table, arguments)
  IN  IF candidates = {} THEN TypicalResult(typical)
      ELSE CandidatesResult(table, candidates, typical)

\* resolve_external_call_return_type.
ExternalResult(name, arguments) ==
  IF ~IsCallable(name) THEN NoRange
  ELSE LET callable == Callables[Record(name)]
           candidates == PreferExplicit(callable.methods,
                                        Candidates(callable.methods, arguments))
       IN  IF candidates = {} THEN TypicalResult(callable.typical)
           ELSE CandidatesResult(callable.methods, candidates, callable.typical)

OrUnknown(range) == IF range = NoRange THEN Unknown ELSE range

\* resolved_dispatch_codomain: what the source installed, and the registry only
\* when none of that may run.
OperatorResult(operator, arguments) ==
  LET local == LocalResult(operators[operator], Unspecified, arguments)
  IN  IF local # NoRange THEN local ELSE ExternalResult(operator, arguments)

\* binary_expression_type.
BinaryType(operator, arguments) ==
  LET result == OperatorResult(operator, arguments)
  IN  IF result = NoRange /\ operator \in Comparisons THEN ExactType(Boolean)
      ELSE OrUnknown(result)

\* application_type of a name.
ApplicationType(name, argument, states) ==
  LET object == LocalFunction(name, states)
      head == SymbolType(name, states)
  IN  IF object # 0
      THEN OrUnknown(LocalResult(callables[object].installed, callables[object].typical,
                                 <<argument>>))
      ELSE IF HasRole(head, Function) THEN OrUnknown(ExternalResult(name, <<argument>>))
      ELSE BinaryType(Space, <<head, argument>>)

-----------------------------------------------------------------------------
(* The analysis: expressions.  An atom is a name or a literal; "when" is an if *)
(* that has no else. *)

Atoms == Copied \cup {Literal}

Expressions ==
  [kind : {"atom"}, atom : Atoms]
    \cup [kind : {"if"}, atom : Atoms, other : Atoms]
    \cup [kind : {"when"}, atom : Atoms]
    \cup [kind : {"new"}, type : SourceTypes \cap Known]
    \cup [kind : {"call"}, head : Called, atom : Atoms]
    \cup [kind : {"binary"}, operator : Operators \ {Space}, atom : Atoms, other : Atoms]
    \cup [kind : {"method"}, typical : Codomains \cup {Unspecified}]
    \cup [kind : {"lambda"}]

AtomType(atom, states) ==
  IF atom = Literal THEN ExactType(ZZ) ELSE SymbolType(atom, states)

\* type_of.
TypeOf(e, states) ==
  CASE e.kind = "atom"   -> AtomType(e.atom, states)
    [] e.kind = "if"     -> Join(AtomType(e.atom, states), AtomType(e.other, states))
    [] e.kind = "when"   -> Join(AtomType(e.atom, states), ExactType(Nothing))
    [] e.kind = "new"    -> ExactType(e.type)
    [] e.kind = "call"   -> ApplicationType(e.head, AtomType(e.atom, states), states)
    [] e.kind = "binary" -> BinaryType(e.operator, <<AtomType(e.atom, states),
                                                     AtomType(e.other, states)>>)
    [] e.kind = "method" -> ExactType(MethodFunction)
    [] e.kind = "lambda" -> ExactType(FunctionClosure)

-----------------------------------------------------------------------------
(* The program.  A value has a class and, if it is a function, an identity: *)
(* the statement that made it, an object of the registry, or Untracked.    *)

NoFunction == 0
Untracked == -1
Value(class) ==
  [class |-> class, function |-> IF IsSubtype(class, Function) THEN Untracked ELSE NoFunction]

ObjectValue(object) ==
  IF object \in DOMAIN Callables THEN [class |-> ObjectClass[object], function |-> object]
  ELSE Value(ObjectClass[object])

AtomValue(atom) == IF atom = Literal THEN Value(ZZ) ELSE values[atom]

Results(codomain) ==
  {Value(t) : t \in {t \in Known : codomain = Unspecified \/ IsSubtype(t, codomain)}}

\* The values an application to arguments of these classes may give: none when
\* there is no method for them.  methods has a table for every function and every
\* operator, the typical value of its methods and the set of them.
Applied(function, classes) ==
  LET table == methods[function]
      matching == {m \in table.methods : DomainMatches(m.domain, classes)}
      chosen == {m \in matching : \A other \in matching :
                                    ~StrictlySmaller(other.domain, m.domain)}
  IN  UNION {Results(IF m.codomain = Unspecified THEN table.typical ELSE m.codomain) :
               m \in chosen}

ApplicationValues(head, argument) ==
  IF ~IsSubtype(head.class, Function) THEN Applied(Space, <<head.class, argument.class>>)
  ELSE IF head.function = Untracked THEN Results(Unspecified)
  ELSE Applied(head.function, <<argument.class>>)

BinaryValues(operator, classes) ==
  LET given == Applied(operator, classes)
  IN  IF given = {} /\ operator \in Comparisons THEN {Value(Boolean)} ELSE given

\* The values an expression may give; new is the identity of the function it makes.
ValuesOf(e, new) ==
  CASE e.kind = "atom"   -> {AtomValue(e.atom)}
    [] e.kind = "if"     -> {AtomValue(e.atom), AtomValue(e.other)}
    [] e.kind = "when"   -> {AtomValue(e.atom), Value(Nothing)}
    [] e.kind = "new"    -> {Value(e.type)}
    [] e.kind = "call"   -> ApplicationValues(values[e.head], AtomValue(e.atom))
    [] e.kind = "binary" -> BinaryValues(e.operator, <<AtomValue(e.atom).class,
                                                       AtomValue(e.other).class>>)
    [] e.kind = "method" -> {[class |-> MethodFunction, function |-> new]}
    [] e.kind = "lambda" -> {[class |-> FunctionClosure, function |-> new]}

NoMethods(typical) == [typical |-> typical, methods |-> {}]
Anything == [typical |-> Unspecified,
             methods |-> {[domain |-> <<Thing>>, codomain |-> Unspecified]}]

\* An installation takes the place of the one on the same domain.
WithMethod(table, domain, codomain) ==
  [table EXCEPT !.methods =
     {m \in @ : m.domain # domain} \cup {[domain |-> domain, codomain |-> codomain]}]

\* The methods of a callable object; of two on one domain the one that announces
\* its codomain is the one that knows.
ObjectTable(callable) ==
  LET list == callable.methods
  IN  [typical |-> callable.typical,
       methods |-> {[domain |-> list[i].domain, codomain |-> list[i].codomain] :
                      i \in PreferExplicit(list, DOMAIN list)}]

-----------------------------------------------------------------------------
(* Statements. *)

Init ==
  /\ up = BaseUp
  /\ registrations = AtStart
  /\ bound = [n \in Names |-> Unbound]
  /\ callables = <<>> /\ indexed = <<>>
  /\ operators = [o \in Operators |-> <<>>]
  /\ installations = <<>>
  /\ position = 1 /\ running = TRUE
  /\ values = [n \in Names \cup Copied \cup Called |->
                 IF ObjectAt(n, 1) = NoObject THEN Value(Symbol) ELSE ObjectValue(ObjectAt(n, 1))]
  /\ methods = [f \in Operators \cup DOMAIN Callables |->
                  IF f \in DOMAIN Callables THEN ObjectTable(Callables[f])
                  ELSE IF ObjectAt(f, 1) \in DOMAIN Callables
                  THEN ObjectTable(Callables[ObjectAt(f, 1)])
                  ELSE NoMethods(Unspecified)]

\* A function with a value at one more place.
With(f, place, value) == [x \in DOMAIN f \cup {place} |-> IF x = place THEN value ELSE f[x]]

Read == running /\ position <= MaxStatements /\ position' = position + 1

\* Mutant: every name gets a callable of its own.
CallableOfItsOwn(e, states) ==
  IF \/ e.kind \in {"method", "lambda"}
     \/ e.kind = "atom" /\ e.atom \in Copied /\ IsCallable(e.atom)
  THEN Len(callables) + 1 ELSE 0

\* callable_object_for_value: the object the value is known to be, which may be a
\* new one, or 0.
CallableOf(e, states) ==
  LET new == Len(callables) + 1 IN
  CASE e.kind = "atom" /\ e.atom \in Copied ->
         IF Visible(e.atom, states) THEN states[e.atom].object
         ELSE IF ~IsCallable(e.atom) THEN 0
         ELSE IF Record(e.atom) \in DOMAIN indexed THEN indexed[Record(e.atom)]
         ELSE new
    [] e.kind \in {"method", "lambda"} -> new
    [] OTHER -> 0

\* Mutant: the typical value is dropped.
FunctionInfoUntyped(e) ==
  [method |-> e.kind # "lambda", typical |-> Unspecified, installed |-> <<>>]

\* FunctionInfo of a new callable.
FunctionInfo(e) ==
  CASE e.kind = "method" -> [method |-> TRUE, typical |-> e.typical, installed |-> <<>>]
    [] e.kind = "lambda" -> [method |-> FALSE, typical |-> Unspecified, installed |-> <<>>]
    [] e.kind = "atom"   -> [method |-> IsSubtype(ObjectClass[Record(e.atom)], MethodFunction),
                             typical |-> Callables[Record(e.atom)].typical,
                             installed |-> <<>>]

\* enrich_assignment_node: the value is read where the name may have no state yet.
Assign(name, e) ==
  LET states == IF bound[name].from # 0 THEN bound
                ELSE [bound EXCEPT ![name] = [Unbound EXCEPT !.from = position]]
      object == CallableOf(e, states)
      made == object > Len(callables)
  IN  /\ Read
      /\ bound' = [bound EXCEPT ![name] = [from |-> position, range |-> TypeOf(e, states),
                                           object |-> object]]
      /\ callables' = IF made THEN Append(callables, FunctionInfo(e)) ELSE callables
      /\ indexed' = IF made /\ e.kind = "atom" THEN With(indexed, Record(e.atom), object)
                    ELSE indexed
      /\ IF ValuesOf(e, position) = {}
         THEN running' = FALSE /\ UNCHANGED <<values, methods>>
         ELSE /\ \E v \in ValuesOf(e, position) : values' = [values EXCEPT ![name] = v]
              /\ methods' = CASE e.kind = "method" -> With(methods, position, NoMethods(e.typical))
                              [] e.kind = "lambda" -> With(methods, position, Anything)
                              [] OTHER             -> methods
              /\ UNCHANGED running
      /\ UNCHANGED <<up, registrations, operators, installations>>

\* name = new Type of parent: declared_type_parent, enrich_binding_state.
NewType(name, parent) ==
  /\ Read
  /\ DeclareType(name, parent)
  /\ bound' = [bound EXCEPT ![name] = [from |-> position, range |-> ExactType(Type), object |-> 0]]
  /\ values' = [values EXCEPT ![name] = Value(Type)]
  /\ UNCHANGED <<registrations, callables, indexed, operators, installations, methods, running>>

\* callable_head_kind.
HeadKind(name) ==
  LET state == bound[name] IN
  IF name \in Names /\ bound[name].from # 0
  THEN CASE state.object # 0 -> IF callables[state.object].method THEN "method" ELSE "plain"
         [] state.range = NoRange -> "unknown"
         [] OTHER -> IF HasRole(state.range, MethodFunction) THEN "method"
                     ELSE IF HasRole(state.range, Function) THEN "plain" ELSE "unknown"
  ELSE IF ~IsCallable(name) THEN "unknown"
  ELSE IF IsSubtype(ObjectClass[Record(name)], MethodFunction) THEN "method" ELSE "plain"

Effect(kind) ==
  CASE kind = "method"  -> "Effective"
    [] kind = "plain"   -> "Rejected"
    [] kind = "unknown" -> "Unresolved"

\* The function an installation is attached to, 0 when there is none to keep it.
HeadObject(name) ==
  IF HeadKind(name) = "method" /\ name \in Names THEN bound[name].object ELSE 0

\* name domain := codomain => ...: record_method_installation of a function head.
Install(name, domain, codomain) ==
  LET object == HeadObject(name)
      announced == IF codomain = Unspecified /\ object # 0 THEN callables[object].typical
                   ELSE codomain
      runs == IsSubtype(values[name].class, MethodFunction)
  IN  /\ Read
      /\ \A i \in DOMAIN domain : domain[i] \in Known
      /\ installations' = Append(installations,
            [head |-> name, domain |-> domain, codomain |-> announced, object |-> object,
             effect |-> Effect(HeadKind(name)), runs |-> runs,
             taken |-> name \in Names /\ bound[name].from # 0 /\ ~Visible(name, bound)])
      /\ callables' = IF object = 0 THEN callables
                      ELSE [callables EXCEPT ![object].installed =
                              Append(@, Len(installations) + 1)]
      /\ running' = runs
      /\ methods' = IF runs /\ values[name].function # Untracked
                    THEN [methods EXCEPT ![values[name].function] =
                            WithMethod(@, domain, codomain)]
                    ELSE methods
      /\ UNCHANGED <<up, registrations, bound, indexed, operators, values>>

\* left operator right := codomain => ...
InstallOperator(operator, domain, codomain) ==
  /\ Read
  /\ \A i \in DOMAIN domain : domain[i] \in Known
  /\ installations' = Append(installations,
        [head |-> operator, domain |-> domain, codomain |-> codomain, object |-> 0,
         effect |-> "Effective", runs |-> TRUE, taken |-> FALSE])
  /\ operators' = [operators EXCEPT ![operator] = Append(@, Len(installations) + 1)]
  /\ methods' = [methods EXCEPT ![operator] = WithMethod(@, domain, codomain)]
  /\ UNCHANGED <<up, registrations, bound, callables, indexed, values, running>>

\* needsPackage: from here on the package's objects have their names.
Package(package) ==
  /\ Read /\ Len(registrations) < Len(Baseline) + MaxImports
  /\ Import(package, position)
  /\ values' = [n \in DOMAIN values |->
                  IF n \in DOMAIN Catalog[package] THEN ObjectValue(Catalog[package][n])
                  ELSE values[n]]
  /\ UNCHANGED <<up, bound, callables, indexed, operators, installations, methods, running>>

Next ==
  \/ \E name \in Names \ SourceTypes : \E e \in {e \in Expressions : e.kind \in Assigned[name]} :
       Assign(name, e)
  \/ \E name \in SourceTypes, parent \in Parents : NewType(name, parent)
  \/ \E name \in Called, codomain \in Codomains \cup {Unspecified} :
       \E domain \in Domains[name] : Install(name, domain, codomain)
  \/ \E operator \in Operators, codomain \in Codomains \cup {Unspecified} :
       \E domain \in Domains[operator] : InstallOperator(operator, domain, codomain)
  \/ \E package \in DOMAIN Catalog : Package(package)

Spec == Init /\ [][Next]_vars

-----------------------------------------------------------------------------
(* What the soundness of inference asks of the language and of a program, beyond *)
(* what any run of the analysis may assume.                                      *)

\* An operator means one object, in every package, from the start.
OperatorsAgree ==
  \A p \in DOMAIN Catalog : \A o \in Operators \cap DOMAIN Catalog[p] :
    /\ \E i \in DOMAIN Baseline : o \in DOMAIN Catalog[Baseline[i]]
    /\ \A q \in DOMAIN Catalog : o \in DOMAIN Catalog[q] => Catalog[q][o] = Catalog[p][o]

\* What the methods of an object announce.
AnnouncedBy(object) ==
  LET callable == Callables[object]
  IN  {callable.typical} \cup {callable.methods[i].codomain : i \in DOMAIN callable.methods}

\* Juxtaposition applies a function to anything, and announces nothing of what
\* applying a function gives, or no more than that it is a Thing.
FunctionsApply ==
  /\ Space \in Operators \ Comparisons
  /\ \E i \in DOMAIN Baseline : Space \in DOMAIN Catalog[Baseline[i]]
  /\ \A p \in DOMAIN Catalog : Space \in DOMAIN Catalog[p] =>
       /\ Catalog[p][Space] \in DOMAIN Callables
       /\ LET callable == Callables[Catalog[p][Space]]
              list == callable.methods
          IN  /\ callable.typical \in {Unspecified, Thing}
              /\ \E i \in DOMAIN list : list[i].domain = <<Function, Thing>>
              /\ \A i \in DOMAIN list :
                   LET domain == list[i].domain
                       takesFunction == /\ Len(domain) = 2 /\ domain[1] \in DOMAIN BaseUp
                                        /\ Function \in BaseUp[domain[1]]
                   IN  takesFunction => list[i].codomain \in {Unspecified, Thing}

\* What a comparison announces has the Booleans.
ComparisonsAreBoolean ==
  \A p \in DOMAIN Catalog : \A o \in Comparisons \cap DOMAIN Catalog[p] :
    Catalog[p][o] \in DOMAIN Callables =>
      \A t \in AnnouncedBy(Catalog[p][o]) : t = Unspecified \/ t \in BaseUp[Boolean]

\* No name the program assigns is that of a function of the registry: of a name it
\* has no callable of, the analysis asks the registry what its application gives.
NamesAreTheirOwn ==
  \A p \in DOMAIN Catalog : \A n \in Names \cap DOMAIN Catalog[p] :
    Catalog[p][n] \notin DOMAIN Callables

\* Nothing announces a function that is a method function or another one: of a name
\* with such a range the analysis says that it takes no methods.
KindsAreAnnounced ==
  \A t \in {Thing} \cup Codomains \cup UNION {AnnouncedBy(o) : o \in DOMAIN Callables} :
    t \in BaseUp[MethodFunction] /\ Function \in BaseUp[t] => t = MethodFunction

-----------------------------------------------------------------------------
(* Properties. *)

\* The methods of every callable live in one table: no name was given to a
\* function of the registry, and nothing the program installed went to a function
\* or an operator the registry has methods of, to one the analysis lost, or to a
\* name that a package has taken.
WholeBefore(last) ==
  /\ indexed = <<>>
  /\ \A i \in 1..last :
       LET one == installations[i]
       IN  IF one.head \in Operators THEN ~IsCallable(one.head) /\ one.head \notin Comparisons
           ELSE ~one.taken /\ (one.runs => one.object # 0)

TablesAreWhole == WholeBefore(Len(installations))

Sound == \A e \in Expressions : \A v \in ValuesOf(e, position) :
           Contains(TypeOf(e, bound), v.class)

\* The value of every expression the program could go on with is of a class the
\* range inferred for it contains, where every callable's methods live in one
\* table.
ConservativeWhereWhole == running /\ TablesAreWhole => Sound

\* Following a function through its names: two names have one object exactly when
\* the program's values are one function.
OneObjectPerFunction ==
  running => \A m, n \in {n \in Names : Visible(n, bound) /\ bound[n].object # 0} :
    bound[m].object = bound[n].object <=> values[m].function = values[n].function

\* A function the analysis follows has the methods the analysis knows of, the
\* last of every domain, whatever name they were installed under.
InstalledWhereTheyRun ==
  running /\ TablesAreWhole =>
    \A n \in {n \in Names : Visible(n, bound) /\ bound[n].object # 0} :
      LET function == callables[bound[n].object]
          table == InstalledOn(function.installed)
          run == methods[values[n].function]
      IN  function.method /\ values[n].function \notin DOMAIN Callables =>
            {[domain |-> table[i].domain, codomain |-> table[i].codomain] : i \in DOMAIN table}
              = {[m EXCEPT !.codomain = IF @ = Unspecified THEN run.typical ELSE @] :
                   m \in run.methods}

\* An installation the analysis rejects is one that fails, and one it says takes
\* effect does not.
EffectsAreReal ==
  \A i \in DOMAIN installations : WholeBefore(i - 1) /\ ~installations[i].taken =>
    /\ installations[i].effect = "Rejected" => ~installations[i].runs
    /\ installations[i].effect = "Effective" => installations[i].runs

\* What the analysis makes of an installation is what it does when it runs: both
\* of the above.
InstallationsAreAsTheyRun == InstalledWhereTheyRun /\ EffectsAreReal

=============================================================================
